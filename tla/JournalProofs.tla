---------------------------- MODULE JournalProofs ----------------------------
(****************************************************************************)
(* The safety of the journal, for any finite sets of tasks and blocks, any  *)
(* number of transactions and any log that SpaceAssumption allows: a        *)
(* synchronous handle returns only when its transaction is on the disk, a   *)
(* commit never runs out of log, the space a task waits for can be had, and *)
(* no J_ASSERT of the modelled code fires.                                  *)
(*                                                                          *)
(* All four follow from the inductive invariant IInv of JournalStateProofs; *)
(* the lemmas here show that every step preserves its parts about the ring  *)
(* of the log, its tail, the space in it and what the disk has.             *)
(****************************************************************************)
EXTENDS JournalStateProofs

-----------------------------------------------------------------------------
(* The head of the log. *)

\* The commit takes n blocks of the log; the first of them is where a transaction
\* that begins to commit starts.
LEMMA RingAdvance ==
  ASSUME IInv, NEW n \in Nat, UNCHANGED <<j.tail, j.commit_sequence>>, cplist' \subseteq cplist,
         j'.head = Wrap(j.head, n), j'.free = j.free - n, j.free - n >= 1,
         \/ UNCHANGED <<committing.tid, committing.log_start>>
         \/ committing'.log_start = j'.head /\ \A t \in cplist : t.tid < committing'.tid
  PROVE  RingInv'
  <1> USE Zenon
  <1> DEFINE m == LogLen - j.free
             k == LogLen - j'.free
  <1>0. /\ RingInv /\ j.tail \in 1 .. LogLen /\ j.free \in 1 .. LogLen
        /\ m \in 0 .. LogLen - 1 /\ LogLen \in Nat /\ \A t \in cplist : t.log_start \in 1 .. LogLen
        /\ committing.tid # 0 => committing.log_start \in 1 .. LogLen
    BY RingFacts
  <1>1. j'.free \in 1 .. LogLen /\ k = m + n /\ m + n <= LogLen - 1 /\ m <= k /\ k \in 0 .. LogLen - 1 /\ m \in Nat
    BY <1>0, SMT
  <1>2. j.head = Wrap(j.tail, m)
    BY <1>0 DEF RingInv
  <1>d. \A x \in 1 .. LogLen : Dist(x) \in 0 .. LogLen - 1
    BY <1>0, DistType DEF Dist
  <1> HIDE DEF m, k
  <1>3. j'.head = Wrap(j.tail, k)
    BY <1>0, <1>1, <1>2, WrapTwice, SMT
  <1>4. j'.head \in 1 .. LogLen /\ Dist(j'.head) = k
    BY <1>0, <1>1, <1>3, DistWrap DEF Dist
  <1>5. \A t \in cplist : Dist(t.log_start) <= k
    <2>1. \A t \in cplist : Dist(t.log_start) <= m
      BY <1>0 DEF RingInv, m
    <2> QED BY <1>0, <1>1, <1>d, <2>1, SMT
  <1>6. committing'.tid # 0 => committing'.log_start \in 1 .. LogLen /\ Dist(committing'.log_start) <= k
    <2>1. CASE UNCHANGED <<committing.tid, committing.log_start>>
      <3>1. committing.tid # 0 => committing.log_start \in 1 .. LogLen /\ Dist(committing.log_start) <= m
        BY <1>0 DEF RingInv, m
      <3> QED BY <1>0, <1>1, <1>d, <2>1, <3>1, SMT
    <2>2. CASE committing'.log_start = j'.head
      BY <1>1, <1>4, <2>2, SMT
    <2> QED BY <2>1, <2>2, SMT
  <1>7. ASSUME NEW t \in cplist
        PROVE  committing'.tid # 0 => t.tid < committing'.tid /\ Dist(t.log_start) <= Dist(committing'.log_start)
    <2>1. CASE UNCHANGED <<committing.tid, committing.log_start>>
      BY <1>0, <2>1 DEF RingInv
    <2>2. CASE committing'.log_start = j'.head /\ \A u \in cplist : u.tid < committing'.tid
      BY <1>4, <1>5, <2>2
    <2> QED BY <2>1, <2>2, SMT
  <1>8. \A x : ((x - j'.tail) % LogLen) = Dist(x)
    BY DEF Dist
  <1>9. \A t \in cplist : /\ t.tid <= j'.commit_sequence
                          /\ \A u \in cplist : t.tid < u.tid => Dist(t.log_start) <= Dist(u.log_start)
                          /\ \A u \in cplist : t.tid = u.tid => t = u
    BY <1>0 DEF RingInv
  <1>10. j'.free \in 1 .. LogLen /\ j'.head = Wrap(j'.tail, LogLen - j'.free)
    BY <1>1, <1>3 DEF k
  <1>11. LogLen - j'.free = k
    BY SMT DEF k
  <1>12. \A t \in cplist' :
           /\ ((t.log_start - j'.tail) % LogLen) <= LogLen - j'.free
           /\ committing'.tid # 0 => /\ t.tid < committing'.tid
                                    /\ ((t.log_start - j'.tail) % LogLen) <= ((committing'.log_start - j'.tail) % LogLen)
           /\ t.tid <= j'.commit_sequence
           /\ \A u \in cplist' : t.tid < u.tid => ((t.log_start - j'.tail) % LogLen) <= ((u.log_start - j'.tail) % LogLen)
           /\ \A u \in cplist' : t.tid = u.tid => t = u
    BY <1>5, <1>7, <1>8, <1>9, <1>11
  <1>13. committing'.tid # 0 => /\ committing'.log_start \in 1 .. LogLen
                               /\ ((committing'.log_start - j'.tail) % LogLen) <= LogLen - j'.free
    BY <1>6, <1>8, <1>11
  <1> QED BY <1>10, <1>12, <1>13 DEF RingInv, Dist

\* The transaction that has committed is the newest with a checkpoint list.
LEMMA RingFinish ==
  ASSUME IInv, commit_finish
  PROVE  RingInv' /\ Still
  <1> USE Zenon
  <1> DEFINE this == [tid |-> committing.tid, log_start |-> committing.log_start]
  <1>0. RingInv /\ JType /\ TidType /\ TidInv /\ \A t \in cplist : t.tid \in Nat
    BY RingFacts
  <1>1. committing.tid # 0 /\ cplist' \subseteq cplist \cup {this}
    BY FinishBuf
  <1>2. j' = [j EXCEPT !.commit_sequence = committing.tid] /\ committing' = NoCommit
    BY DEF commit_finish
  <1>3. Still /\ j'.commit_sequence = committing.tid /\ committing'.tid = 0
    BY <1>0, <1>2 DEF JType, JSet, Still, NoCommit
  <1>4. j.commit_sequence < committing.tid /\ committing.tid \in Nat /\ j.commit_sequence \in Nat
    BY <1>0, <1>1 DEF TidInv, TidType
  <1>5. \A t \in cplist : t.tid < committing.tid /\ t.tid <= committing.tid
    <2>1. \A t \in cplist : t.tid < committing.tid
      BY <1>0, <1>1 DEF RingInv
    <2> QED BY <1>0, <1>4, <2>1, SMT
  <1>6. this.tid = committing.tid /\ this.log_start = committing.log_start
    OBVIOUS
  <1> HIDE DEF this
  <1>7. \A t \in cplist \cup {this} : t.tid <= committing.tid /\ Dist(t.log_start) <= LogLen - j.free
    <2>1. committing.tid <= committing.tid
      BY <1>4, SMT
    <2> QED BY <1>0, <1>1, <1>5, <1>6, <2>1 DEF RingInv
  <1>8. \A t, u \in cplist \cup {this} : t.tid < u.tid => Dist(t.log_start) <= Dist(u.log_start)
    <2>1. ASSUME NEW t \in cplist, NEW u \in cplist, t.tid < u.tid PROVE Dist(t.log_start) <= Dist(u.log_start)
      BY <1>0, <2>1 DEF RingInv
    <2>2. \A t \in cplist : Dist(t.log_start) <= Dist(this.log_start)
      BY <1>0, <1>1, <1>6 DEF RingInv
    <2>3. \A u \in cplist \cup {this} : ~(this.tid < u.tid)
      BY <1>0, <1>4, <1>5, <1>6, SMT
    <2> QED BY <2>1, <2>2, <2>3
  <1>9. \A t, u \in cplist \cup {this} : t.tid = u.tid => t = u
    <2>1. \A u \in cplist : this.tid # u.tid
      BY <1>0, <1>4, <1>5, <1>6, SMT
    <2>2. \A t, u \in cplist : t.tid = u.tid => t = u
      BY <1>0 DEF RingInv
    <2> QED BY <2>1, <2>2
  <1>10. j.free \in 1 .. LogLen /\ j.head = Wrap(j.tail, LogLen - j.free)
    BY <1>0 DEF RingInv
  <1> QED BY <1>1, <1>3, <1>7, <1>8, <1>9, <1>10 DEF RingInv, Still, Dist

-----------------------------------------------------------------------------
(* The space of the log. *)

\* Sets of tasks are finite, and a subset is no larger.
LEMMA TaskSets ==
  ASSUME NEW S \in SUBSET Task
  PROVE  IsFiniteSet(S) /\ Cardinality(S) \in Nat /\ \A T \in SUBSET S : Cardinality(T) <= Cardinality(S)
  <1> USE Zenon
  <1>1. IsFiniteSet(S)
    BY JournalAssumption, FS_Subset
  <1> QED BY <1>1, FS_CardinalityType, FS_Subset

\* The cost of a commit grows with its credits.
LEMMA CostIs ==
  ASSUME NEW c \in Nat
  PROVE  /\ Cost(c) \in Nat /\ 1 <= Cost(c) /\ Cost(c) <= c + 2 /\ Cost(0) = 1
         /\ \A d \in Nat : d <= c => Cost(d) <= Cost(c)
  BY DEF Cost

\* The needs are numbers.
LEMMA NeedIs ==
  ASSUME Kinds
  PROVE  NeedC \in Nat /\ NeedR \in Nat
  <1>1. running.credits \in Nat /\ committing.credits \in Nat
    BY Zenon DEF Kinds, RunType, CommitType
  <1>2. Cost(running.credits) \in Nat /\ Cost(committing.credits) \in Nat
    BY <1>1, CostIs
  <1> QED BY <1>2 DEF NeedC, NeedR

\* The conjuncts of the invariant that the accounts of log space use.
LEMMA SpaceFacts ==
  ASSUME IInv
  PROVE  /\ NeedC \in Nat /\ NeedR \in Nat /\ Slack \in Nat /\ Slack <= Cardinality(Task)
         /\ Cardinality(Task) \in Nat /\ Cardinality(Waiters) \in Nat /\ Cardinality(Waiters) <= Cardinality(Task)
         /\ j.free >= 1 + NeedC + NeedR + Slack /\ j.free \in Nat
         /\ \A p \in Waiters : MaxBuffers <= handle[p].need
  <1> USE Zenon
  <1>1. NeedC \in Nat /\ NeedR \in Nat
    BY BufFacts, NeedIs
  <1>2. Waiters \in SUBSET Task /\ Task \in SUBSET Task
    BY DEF Waiters
  <1>3. Cardinality(Task) \in Nat /\ Cardinality(Waiters) \in Nat /\ Cardinality(Waiters) <= Cardinality(Task)
    BY <1>2, TaskSets
  <1>4. Slack \in Nat /\ Slack <= Cardinality(Task)
    BY <1>3, SMT DEF Slack
  <1>5. SpaceInv
    BY DEF IInv
  <1>6. j.free \in Nat
    BY RingFacts, SMT
  <1> QED BY <1>1, <1>3, <1>4, <1>5, <1>6 DEF SpaceInv

\* What the commit takes from the log, it has been granted.
LEMMA SwitchRoom ==
  ASSUME IInv, commit_switch
  PROVE  LET n == IF revoke = {} THEN 0 ELSE 1
         IN  /\ n \in Nat /\ j.free - n >= 1 + Cost(running.credits) + Slack
             /\ j'.head = Wrap(j.head, n) /\ j'.free = j.free - n
  <1> DEFINE n == IF revoke = {} THEN 0 ELSE 1
  <1>0. Kinds /\ FsType /\ running.credits \in Nat
    BY BufFacts, Zenon DEF Kinds, RunType
  <1>1. running.updates = 0 /\ running.tid # 0 /\ j'.head = Wrap(j.head, n) /\ j'.free = j.free - n
    BY <1>0, SwitchIs, SwitchBuf, Zenon
  <1>2. NeedR = Cost(running.credits) + n
    BY <1>1 DEF NeedR
  <1>3. Cost(running.credits) \in Nat
    BY <1>0, CostIs
  <1>4. /\ NeedC \in Nat /\ NeedR \in Nat /\ Slack \in Nat /\ j.free \in Nat /\ j.free >= 1 + NeedC + NeedR + Slack
    BY SpaceFacts
  <1>5. n \in Nat
    OBVIOUS
  <1> HIDE DEF n
  <1>6. j.free - n >= 1 + Cost(running.credits) + Slack
    BY <1>2, <1>3, <1>4, <1>5
  <1> QED BY <1>1, <1>5, <1>6 DEF n

\* The metadata and the revoke records fit in the log and leave room for the commit record and for
\* everything else that is due.
LEMMA MetadataRoom ==
  ASSUME IInv, commit_metadata
  PROVE  \E n \in Nat : j' = journal_next_log_block(n) /\ j.free - n >= 2 + NeedR + Slack
  <1>0. Kinds /\ CreditInv /\ committing.credits \in Nat
    BY BufFacts, Zenon DEF Kinds, CommitType, IInv
  <1>1. PICK n \in Nat : j' = journal_next_log_block(n) /\ n = IF Logged = {} THEN 0 ELSE Cardinality(Logged) + 1
    BY <1>0, MetadataIs
  <1>2. kjournald = "flush"
    BY Zenon DEF commit_metadata, K
  <1>3. NeedC = Cost(committing.credits)
    BY <1>2 DEF NeedC
  <1>4. Cardinality(Logged) <= committing.credits
    BY <1>0, <1>2, Zenon DEF CreditInv
  <1>5. IsFiniteSet(Logged) /\ Cardinality(Logged) \in Nat
    <2>1. Logged \in SUBSET Block
      BY Zenon DEF Logged
    <2> QED BY <2>1, BlockSets, Zenon
  <1>6. Logged # {} => Cardinality(Logged) # 0
    BY <1>5, FS_EmptySet, Zenon
  <1>7. n + 1 <= Cost(committing.credits)
    BY <1>0, <1>1, <1>4, <1>5, <1>6 DEF Cost
  <1>8. /\ NeedC \in Nat /\ NeedR \in Nat /\ Slack \in Nat /\ j.free \in Nat /\ j.free >= 1 + NeedC + NeedR + Slack
    BY SpaceFacts
  <1>9. j.free - n >= 2 + NeedR + Slack
    BY <1>3, <1>7, <1>8
  <1> QED BY <1>1, <1>9

\* The commit record fits.
LEMMA RecordRoom ==
  ASSUME IInv, commit_record
  PROVE  j' = journal_next_log_block(1) /\ j.free - 1 >= 1 + NeedR + Slack
  <1>1. kjournald = "iobuf" /\ j' = journal_next_log_block(1)
    BY Zenon DEF commit_record, K
  <1>2. NeedC = 1
    BY <1>1 DEF NeedC
  <1>3. /\ NeedC \in Nat /\ NeedR \in Nat /\ Slack \in Nat /\ j.free \in Nat /\ j.free >= 1 + NeedC + NeedR + Slack
    BY SpaceFacts
  <1> QED BY <1>1, <1>2, <1>3

\* A handle leaves the ring alone.
LEMMA HandlesRing ==
  ASSUME IInv, NEW p \in Task, Handles(p)
  PROVE  Still /\ j'.commit_sequence = j.commit_sequence
  <1> USE Zenon
  <1>0. Kinds /\ RunType /\ JType /\ HandleType /\ TidType
    BY BufFacts DEF Kinds
  <1>1. \/ UNCHANGED j \/ j' = [j EXCEPT !.transaction_sequence = @ + 1]
        \/ \E t \in Nat : j' = Request(j, t)
    <2>1. CASE start_this_handle(p)
      BY <1>0, <2>1, StartIs DEF TidType
    <2>2. CASE journal_stop(p)
      BY <1>0, <2>2 DEF journal_stop, HandleType, HSet
    <2>3. CASE journal_flush(p)
      BY <1>0, <2>3 DEF journal_flush, TidType
    <2>4. CASE ~start_this_handle(p) /\ ~journal_stop(p) /\ ~journal_flush(p)
      BY <2>4 DEF Handles, unused_access, journal_dirty_metadata, dirty_data_written, log_wait_commit,
           journal_get_write_access, journal_get_create_access, journal_revoke, journal_dirty_data
    <2> QED BY <2>1, <2>2, <2>3, <2>4, SMT
  <1> QED BY <1>0, <1>1 DEF Still, Request, JType, JSet

\* A crash and the mount after it: the journal is empty.
LEMMA DownRing ==
  ASSUME IInv, Crash \/ Mount
  PROVE  /\ running' = NoTrans /\ committing' = NoCommit /\ cplist' = {} /\ kjournald' = "sleep" /\ revoke' = {}
         /\ handle' = [p \in Task |-> NoHandle] /\ logio' = {} /\ committing'.tid = 0 /\ running'.tid = 0
         /\ \E s \in Nat \ {0} : j' = JournalReset(s)
  <1> USE Zenon
  <1>1. CASE Crash
    <2>1. 2 \in Nat \ {0}
      BY SMT
    <2> QED BY <1>1, <2>1 DEF Crash, NoTrans, NoCommit
  <1>2. CASE Mount
    <2>1. mode # "mounted"
      BY <1>2 DEF Mount, journal_recover, do_one_pass, journal_reset
    <2>2. /\ running = NoTrans /\ committing = NoCommit /\ cplist = {} /\ kjournald = "sleep" /\ revoke = {}
          /\ handle = [p \in Task |-> NoHandle] /\ logio = {} /\ j = JournalReset(2)
      BY <2>1 DEF IInv, Down
    <2>3. /\ running' = NoTrans /\ committing' = NoCommit /\ cplist' = {} /\ kjournald' = "sleep" /\ revoke' = {}
          /\ handle' = [p \in Task |-> NoHandle] /\ logio' = {} /\ committing'.tid = 0 /\ running'.tid = 0
      <3>1. UNCHANGED <<running, committing, cplist, kjournald, revoke, handle, logio>>
        BY <1>2, MountKeep
      <3>2. NoTrans.tid = 0 /\ NoCommit.tid = 0
        BY DEF NoTrans, NoCommit
      <3> QED BY <2>2, <3>1, <3>2
    <2>4. \E s \in Nat \ {0} : j' = JournalReset(s)
      <3>1. CASE journal_reset
        <4>1. info.end + 1 \in Nat \ {0}
          <5>1. info.end \in Nat
            BY DEF IInv, Types, ScanType
          <5> QED BY <5>1, SMT
        <4> QED BY <3>1, <4>1 DEF journal_reset
      <3>2. CASE UNCHANGED j
        <4>1. 2 \in Nat \ {0}
          BY SMT
        <4> QED BY <2>2, <3>2, <4>1
      <3> QED BY <1>2, <3>1, <3>2 DEF Mount, journal_recover, do_one_pass
    <2> QED BY <2>3, <2>4, SMT
  <1> QED BY <1>1, <1>2, SMT

\* Every step keeps RingInv.
LEMMA RingStep ==
  ASSUME IInv, Next
  PROVE  RingInv'
  <1> USE Zenon
  <1>0. RingInv /\ Kinds /\ ListType /\ JType /\ CommitType /\ RunType /\ HandleType /\ BufInv /\ FsType
    BY RingFacts, BufFacts DEF Kinds
  <1>1. ASSUME NEW p \in Task, Handles(p) PROVE RingInv'
    <2>1. UNCHANGED <<committing, cplist>>
      BY <1>1, HandlesKeep
    <2>2. Still /\ j'.commit_sequence = j.commit_sequence
      BY <1>1, HandlesRing, SMT
    <2> QED BY <1>0, <2>1, <2>2, RingKept
  <1>2. ASSUME NEW p \in Task, Checkpoint(p) PROVE RingInv'
    <2>1. (Still \/ j' = CleanedTail) /\ j'.commit_sequence = j.commit_sequence
      BY <1>0, <1>2, CheckpointRing
    <2>2. UNCHANGED committing /\ cplist' \subseteq cplist
      BY <1>2, TouchBuf
    <2>3. CASE Still
      BY <1>0, <2>1, <2>2, <2>3, RingKept
    <2>4. CASE ~Still
      <3>1. j' = CleanedTail /\ ~TailIsOldest
        BY <2>1, <2>4, SMT DEF CleanedTail, Still
      <3>2. UNCHANGED cplist
        <4>1. CASE flush_buffers(p)
          BY <2>4, <4>1 DEF flush_buffers, Still
        <4>2. CASE ~flush_buffers(p)
          BY <1>2, <4>2 DEF Checkpoint, log_wait_for_space, cleanup_transaction, checkpoint_done, journal_flush_log
        <4> QED BY <4>1, <4>2, SMT
      <3> QED BY <2>2, <3>1, <3>2, RingTail
    <2> QED BY <2>3, <2>4, SMT
  <1>3. CASE IoDone \/ \E b \in Block : write_back(b) \/ journal_try_to_free_buffer(b)
    <2>1. UNCHANGED committing /\ cplist' \subseteq cplist
      BY <1>3, TouchBuf
    <2>2. UNCHANGED j
      BY <1>3, IoKeep DEF journal_try_to_free_buffer
    <2> QED BY <1>0, <2>1, <2>2, RingKept DEF Still
  <1>4. CASE commit_switch
    <2> DEFINE n == IF revoke = {} THEN 0 ELSE 1
    <2>1. n \in Nat /\ j.free - n >= 1 /\ j'.head = Wrap(j.head, n) /\ j'.free = j.free - n
      <3>1. /\ n \in Nat /\ j.free - n >= 1 + Cost(running.credits) + Slack
            /\ j'.head = Wrap(j.head, n) /\ j'.free = j.free - n
        BY <1>4, SwitchRoom, SMT
      <3>2. running.credits \in Nat
        BY <1>0 DEF RunType
      <3>3. Cost(running.credits) \in Nat /\ Slack \in Nat /\ j.free \in Nat
        BY <3>2, CostIs, SpaceFacts
      <3> HIDE DEF n
      <3> QED BY <3>1, <3>3, SMT
    <2>2. /\ committing'.log_start = j'.head /\ committing'.tid = running.tid
          /\ UNCHANGED <<j.tail, j.commit_sequence>>
      BY <1>0, <1>4, SwitchIs
    <2>3. cplist' \subseteq cplist /\ running.tid # 0
      BY <1>4, SwitchBuf
    <2>4. \A t \in cplist : t.tid < committing'.tid
      <3>1. j.commit_sequence < running.tid /\ running.tid \in Nat /\ j.commit_sequence \in Nat
        BY <2>3, RingFacts DEF TidInv, TidType
      <3>2. \A t \in cplist : t.tid <= j.commit_sequence /\ t.tid \in Nat
        BY RingFacts DEF RingInv
      <3> QED BY <2>2, <3>1, <3>2, SMT
    <2> HIDE DEF n
    <2> QED BY <2>1, <2>2, <2>3, <2>4, RingAdvance, SMT
  <1>5. CASE commit_metadata \/ commit_record
    <2>1. PICK n \in Nat : j' = journal_next_log_block(n) /\ j.free - n >= 1
      <3>1. NeedR \in Nat /\ Slack \in Nat /\ j.free \in Nat /\ 1 \in Nat
        BY SpaceFacts, SMT
      <3>2. CASE commit_metadata
        BY <3>1, <3>2, MetadataRoom, SMT
      <3>3. CASE commit_record
        BY <3>1, <3>3, RecordRoom, SMT
      <3> QED BY <1>5, <3>2, <3>3, SMT
    <2>2. /\ j'.head = Wrap(j.head, n) /\ j'.free = j.free - n /\ UNCHANGED <<j.tail, j.commit_sequence>>
      BY <1>0, <2>1, NextBlockIs, SMT
    <2>3. UNCHANGED <<cplist, committing.tid, committing.log_start>>
      <3>1. CASE commit_metadata
        BY <1>0, <3>1, MetadataIs, MetadataBuf
      <3>2. CASE commit_record
        BY <3>2 DEF commit_record
      <3> QED BY <1>5, <3>1, <3>2, SMT
    <2> QED BY <2>1, <2>2, <2>3, RingAdvance, SMT
  <1>6. CASE commit_finish
    BY <1>6, RingFinish, SMT
  <1>7. CASE commit_timeout \/ commit_lock \/ write_out_data \/ wait_for_iobuf
    <2>1. UNCHANGED <<cplist, committing.tid, committing.log_start>>
      <3>1. CASE wait_for_iobuf
        BY <1>0, <3>1, IobufIs, IobufBuf
      <3>2. CASE ~wait_for_iobuf
        BY <1>7, <3>2 DEF commit_timeout, commit_lock, write_out_data
      <3> QED BY <3>1, <3>2, SMT
    <2>2. j' = j \/ j' = [j EXCEPT !.commit_request = running.tid]
      BY <1>7 DEF commit_timeout, commit_lock, write_out_data, wait_for_iobuf
    <2>3. Still /\ j'.commit_sequence = j.commit_sequence
      BY <1>0, <2>2 DEF Still, JType, JSet
    <2> QED BY <1>0, <2>1, <2>3, RingKept
  <1>8. CASE Crash \/ Mount
    <2>1. committing'.tid = 0 /\ cplist' = {} /\ \E s \in Nat \ {0} : j' = JournalReset(s)
      BY <1>8, DownRing, SMT
    <2>2. j'.head = 1 /\ j'.tail = 1 /\ j'.free = LogLen
      BY <2>1, ResetIs
    <2>3. LogLen \in Nat \ {0} /\ LogLen - LogLen = 0
      BY JournalAssumption, SMT
    <2>4. Wrap(1, 0) = 1 /\ LogLen \in 1 .. LogLen
      <3>1. 1 \in 1 .. LogLen /\ 0 \in 0 .. LogLen - 1 /\ 1 + 0 <= LogLen /\ 1 + 0 = 1 /\ LogLen \in 1 .. LogLen
        BY <2>3, SMT
      <3> QED BY <3>1, WrapIs, SMT
    <2> QED BY <2>1, <2>2, <2>3, <2>4 DEF RingInv
  <1> QED BY <1>1, <1>2, <1>3, <1>4, <1>5, <1>6, <1>7, <1>8 DEF Next, Commit

-----------------------------------------------------------------------------
(* The tail of the log. *)

\* The transactions that the log may have to hold, now or later.
Tids ==
  {t.tid : t \in cplist} \cup (IF committing.tid # 0 THEN {committing.tid} ELSE {}) \cup {NextTid}

\* NextTid is beyond every transaction that has started to commit.
LEMMA NextIs ==
  ASSUME TidType, TidInv
  PROVE  /\ NextTid \in Nat /\ NextTid <= j.transaction_sequence /\ j.commit_sequence < NextTid
         /\ committing.tid # 0 => committing.tid < NextTid
  BY DEF NextTid, TidType, TidInv

\* FirstTid is the least of them.
LEMMA FirstIs ==
  ASSUME IInv
  PROVE  /\ FirstTid \in Tids /\ FirstTid \in Nat /\ \A x \in Tids : x \in Nat /\ FirstTid <= x
         /\ FirstTid = NextTid => cplist = {} /\ committing.tid = 0
  <1> USE Zenon
  <1>0. /\ RingInv /\ ListType /\ TidType /\ TidInv /\ \A t \in cplist : t.tid \in Nat
    BY RingFacts
  <1>n. /\ NextTid \in Nat /\ j.commit_sequence < NextTid /\ j.commit_sequence \in Nat
        /\ committing.tid # 0 => committing.tid < NextTid
        /\ committing.tid \in Nat
    BY <1>0, NextIs DEF TidType
  <1>t. \A x \in Tids : x \in Nat
    BY <1>0, <1>n DEF Tids
  <1>1. CASE cplist # {}
    <2>1. Oldest \in cplist /\ FirstTid = Oldest.tid /\ \A u \in cplist : FirstTid <= u.tid
      BY <1>0, <1>1, OldestIs DEF FirstTid
    <2>2. FirstTid \in Nat /\ FirstTid <= j.commit_sequence /\ (committing.tid # 0 => FirstTid < committing.tid)
      BY <1>0, <2>1 DEF RingInv
    <2>3. FirstTid <= NextTid /\ FirstTid # NextTid /\ (committing.tid # 0 => FirstTid <= committing.tid)
      BY <1>n, <2>2, SMT
    <2>4. FirstTid \in Tids
      BY <2>1 DEF Tids
    <2>5. \A x \in Tids : FirstTid <= x
      BY <2>1, <2>3 DEF Tids
    <2> QED BY <1>t, <2>2, <2>3, <2>4, <2>5
  <1>2. CASE cplist = {} /\ committing.tid # 0
    <2>1. FirstTid = committing.tid
      BY <1>2 DEF FirstTid
    <2>2. FirstTid <= committing.tid /\ FirstTid <= NextTid /\ FirstTid # NextTid
      BY <1>2, <1>n, <2>1, SMT
    <2> QED BY <1>2, <1>t, <2>1, <2>2 DEF Tids
  <1>3. CASE cplist = {} /\ committing.tid = 0
    <2>1. FirstTid = NextTid
      BY <1>3 DEF FirstTid, NextTid
    <2>2. FirstTid <= NextTid
      BY <1>n, <2>1, SMT
    <2> QED BY <1>3, <1>t, <2>1, <2>2 DEF Tids
  <1> QED BY <1>1, <1>2, <1>3, SMT

\* The first transaction that recovery needs is one of those on the log.
LEMMA FirstIn ==
  ASSUME ListType'
  PROVE  FirstTid' \in Tids'
  <1> USE Zenon
  <1>1. cplist' # {} => Oldest' \in cplist'
    BY LeastTid DEF Oldest, ListType
  <1> QED BY <1>1 DEF FirstTid, Tids, NextTid

\* The tail stays; no transaction older than it comes back.
LEMMA TailKept ==
  ASSUME IInv, ListType', Kinds', j'.tail_sequence = j.tail_sequence,
         \A x \in Tids' : \E y \in Tids : y <= x,
         j'.tail_sequence = NextTid' => j'.free = LogLen
  PROVE  TailInv'
  <1> USE Zenon
  <1>1. FirstTid' \in Tids'
    BY FirstIn, SMT
  <1>2. PICK y \in Tids : y <= FirstTid'
    BY <1>1, SMT
  <1>3. j.tail_sequence <= FirstTid /\ j.tail_sequence \in Nat /\ FirstTid \in Nat /\ y \in Nat /\ FirstTid <= y
    <2>1. j.tail_sequence <= FirstTid /\ j.tail_sequence \in Nat
      BY DEF IInv, TailInv, Types, JType, JSet
    <2> QED BY <2>1, FirstIs
  <1>4. FirstTid' \in Nat
    <2>1. \A t \in cplist' : t.tid \in Nat
      BY DEF ListType
    <2>2. running'.tid \in Nat /\ committing'.tid \in Nat /\ j'.transaction_sequence \in Nat
      BY DEF Kinds, RunType, CommitType, JType, JSet
    <2> QED BY <1>1, <2>1, <2>2 DEF Tids, NextTid
  <1>5. j'.tail_sequence <= FirstTid'
    BY <1>2, <1>3, <1>4, SMT
  <1> QED BY <1>5 DEF TailInv

\* A handle may start a transaction, the next one, and changes no other id.
LEMMA HandlesTids ==
  ASSUME IInv, NEW p \in Task, Handles(p)
  PROVE  \/ UNCHANGED <<running.tid, j.transaction_sequence>>
         \/ /\ running.tid = 0 /\ running'.tid = j.transaction_sequence
            /\ j'.transaction_sequence = j.transaction_sequence + 1
  <1> USE Zenon
  <1>0. RunType /\ JType /\ j \in JSet /\ HandleType
    BY BufFacts DEF Kinds, JType
  <1>r. ASSUME NEW t, j' = j \/ j' = Request(j, t) PROVE j'.transaction_sequence = j.transaction_sequence
    BY <1>0, <1>r DEF Request, JSet
  <1>1. CASE start_this_handle(p)
    <2>1. /\ running'.tid = (IF running.tid = 0 THEN j.transaction_sequence ELSE running.tid) \/ running' = running
          /\ \/ running.tid # 0 /\ (j' = j \/ j' = Request(j, running.tid))
             \/ /\ running.tid = 0 /\ j' = [j EXCEPT !.transaction_sequence = @ + 1]
                /\ running'.tid = j.transaction_sequence
      BY <1>0, <1>1, StartIs
    <2>2. CASE running.tid # 0
      BY <1>r, <2>1, <2>2
    <2>3. CASE running.tid = 0
      BY <1>0, <2>1, <2>3 DEF JSet
    <2> QED BY <2>2, <2>3, SMT
  <1>2. CASE journal_stop(p)
    <2>1. /\ running' = [running EXCEPT !.updates = @ - 1, !.credits = @ - handle[p].credits]
          /\ j' = j \/ j' = Request(j, handle[p].tid)
      BY <1>2 DEF journal_stop
    <2>2. running'.tid = running.tid
      BY <1>0, <2>1 DEF RunType
    <2> QED BY <1>r, <2>1, <2>2
  <1>3. CASE journal_flush(p)
    BY <1>r, <1>3 DEF journal_flush
  <1>4. CASE ~start_this_handle(p) /\ ~journal_stop(p) /\ ~journal_flush(p)
    BY <1>4 DEF Handles, unused_access, journal_dirty_metadata, dirty_data_written, log_wait_commit,
         journal_get_write_access, journal_get_create_access, journal_revoke, journal_dirty_data
  <1> QED BY <1>1, <1>2, <1>3, <1>4, SMT

\* The operations on handles do not move NextTid.
LEMMA HandlesNext ==
  ASSUME IInv, NEW p \in Task, Handles(p)
  PROVE  NextTid' = NextTid
  <1>1. j.transaction_sequence # 0
    <2>1. TidType /\ TidInv
      BY BufFacts
    <2> QED BY <2>1 DEF TidInv, TidType
  <1> QED BY <1>1, HandlesTids, Zenon DEF NextTid

\* A step of the checkpointer that moves the tail moves it to the oldest transaction on the log.
LEMMA CheckpointTail ==
  ASSUME IInv, Next, NEW p \in Task, Checkpoint(p), ~Still
  PROVE  TailInv'
  <1> USE Zenon
  <1>0. /\ RingInv /\ Kinds /\ ListType /\ JType /\ CommitType /\ RunType /\ BufInv /\ Dist(j.head) = LogLen - j.free
        /\ LogLen \in Nat /\ j.free \in 1 .. LogLen /\ ListType'
        /\ committing.tid # 0 => committing.log_start \in 1 .. LogLen
    BY RingFacts, BufFacts, ListTypes DEF Kinds
  <1>1. j' = CleanedTail /\ ~TailIsOldest /\ UNCHANGED j.transaction_sequence
    <2>1. j' = CleanedTail /\ UNCHANGED j.transaction_sequence
      BY <1>0, CheckpointRing
    <2> QED BY <2>1, SMT DEF CleanedTail, Still
  <1>2. UNCHANGED <<running, committing, cplist>>
    <2>1. ~flush_buffers(p)
      BY DEF flush_buffers, Still
    <2> QED BY <2>1 DEF Checkpoint, log_wait_for_space, cleanup_transaction, checkpoint_done, journal_flush_log
  <1>3. Tids' = Tids /\ NextTid' = NextTid
    BY <1>1, <1>2 DEF Tids, NextTid
  <1>4. j'.tail_sequence = FirstTid /\ j'.free = j.free + Dist(FirstBlock)
    BY <1>0, <1>1, TailIs
  <1>5. j'.tail_sequence <= FirstTid'
    <2>1. FirstTid' \in Tids
      BY <1>0, <1>3, FirstIn
    <2> QED BY <1>4, <2>1, FirstIs
  <1>6. ASSUME j'.tail_sequence = NextTid' PROVE j'.free = LogLen
    <2>1. cplist = {} /\ committing.tid = 0
      BY <1>3, <1>4, <1>6, FirstIs
    <2>2. FirstBlock = j.head
      BY <2>1 DEF FirstBlock
    <2> QED BY <1>0, <1>4, <2>2, SMT
  <1> QED BY <1>5, <1>6 DEF TailInv

\* Every step keeps TailInv.
LEMMA TailStep ==
  ASSUME IInv, Next
  PROVE  TailInv'
  <1> USE Zenon
  <1>0. /\ RingInv /\ Kinds /\ ListType /\ JType /\ CommitType /\ RunType /\ BufInv /\ FsType /\ TidType /\ TidInv /\ TailInv
        /\ ListType' /\ Kinds'
    BY RingFacts, BufFacts, ListTypes, Ids DEF Kinds, IInv
  <1>s. \A x \in Tids : x <= x
    <2>1. \A x \in Tids : x \in Nat
      BY FirstIs, SMT
    <2> QED BY <2>1, SMT
  <1>1. ASSUME Still, cplist' \subseteq cplist, committing'.tid = committing.tid, NextTid' = NextTid PROVE TailInv'
    <2>1. Tids' \subseteq Tids
      BY <1>1 DEF Tids
    <2>2. \A x \in Tids' : \E y \in Tids : y <= x
      BY <1>s, <2>1
    <2>3. j'.tail_sequence = j.tail_sequence /\ j'.free = j.free
      BY <1>1 DEF Still
    <2>4. j'.tail_sequence = NextTid' => j'.free = LogLen
      BY <1>0, <1>1, <2>3 DEF TailInv
    <2> QED BY <1>0, <2>2, <2>3, <2>4, TailKept, SMT
  <1>2. ASSUME NEW p \in Task, Handles(p) PROVE TailInv'
    <2>1. UNCHANGED <<committing, cplist>>
      BY <1>2, HandlesKeep
    <2> QED BY <1>1, <1>2, <2>1, HandlesRing, HandlesNext
  <1>3. ASSUME NEW p \in Task, Checkpoint(p) PROVE TailInv'
    <2>1. CASE Still
      <3>1. UNCHANGED <<running, committing>> /\ cplist' \subseteq cplist
        BY <1>3, TouchBuf
      <3>2. NextTid' = NextTid
        BY <1>0, <1>3, <3>1, CheckpointRing DEF NextTid
      <3> QED BY <1>1, <2>1, <3>1, <3>2
    <2>2. CASE ~Still
      BY <1>3, <2>2, CheckpointTail, SMT
    <2> QED BY <2>1, <2>2, SMT
  <1>4. CASE IoDone \/ \E b \in Block : write_back(b) \/ journal_try_to_free_buffer(b)
    <2>1. UNCHANGED <<running, committing>> /\ cplist' \subseteq cplist
      BY <1>4, TouchBuf
    <2>2. UNCHANGED j
      BY <1>4, IoKeep DEF journal_try_to_free_buffer
    <2> QED BY <1>1, <2>1, <2>2 DEF Still, NextTid
  <1>5. CASE commit_timeout \/ commit_lock \/ write_out_data \/ wait_for_iobuf
    <2>1. UNCHANGED <<cplist, committing.tid>>
      <3>1. CASE wait_for_iobuf
        BY <1>0, <3>1, IobufIs, IobufBuf
      <3>2. CASE ~wait_for_iobuf
        BY <1>5, <3>2 DEF commit_timeout, commit_lock, write_out_data
      <3> QED BY <3>1, <3>2, SMT
    <2>2. /\ j' = j \/ j' = [j EXCEPT !.commit_request = running.tid]
          /\ running' = running \/ running' = [running EXCEPT !.locked = TRUE]
      BY <1>5 DEF commit_timeout, commit_lock, write_out_data, wait_for_iobuf
    <2>3. Still /\ j'.transaction_sequence = j.transaction_sequence
      BY <1>0, <2>2 DEF Still, JType, JSet
    <2>4. running'.tid = running.tid
      BY <1>0, <2>2 DEF RunType
    <2> QED BY <1>1, <2>1, <2>3, <2>4 DEF NextTid
  <1>n. /\ NextTid \in Nat /\ NextTid <= j.transaction_sequence /\ j.transaction_sequence \in Nat
        /\ committing.tid # 0 => committing.tid < NextTid
        /\ committing.tid \in Nat /\ j.tail_sequence \in Nat
    BY <1>0, NextIs DEF TidType, JType, JSet
  <1>t. \A x \in Tids : j.tail_sequence <= x
    <2>1. FirstTid \in Nat /\ \A x \in Tids : x \in Nat /\ FirstTid <= x
      BY FirstIs, SMT
    <2>2. j.tail_sequence <= FirstTid
      BY <1>0 DEF TailInv
    <2> QED BY <1>n, <2>1, <2>2, SMT
  <1>6. CASE commit_switch
    <2>1. /\ running' = NoTrans /\ committing'.tid = running.tid /\ UNCHANGED <<j.tail_sequence, j.transaction_sequence>>
      BY <1>0, <1>6, SwitchIs
    <2>2. cplist' \subseteq cplist /\ running.tid # 0
      BY <1>6, SwitchBuf
    <2>3. NextTid = running.tid /\ NextTid' = j.transaction_sequence
      BY <2>1, <2>2 DEF NextTid, NoTrans
    <2>4. NextTid < NextTid'
      BY <1>0, <2>2, <2>3 DEF TidInv
    <2>5. \A x \in Tids' : x \in Tids \/ x = NextTid'
      BY <2>1, <2>2, <2>3 DEF Tids
    <2>6. NextTid \in Tids
      BY DEF Tids
    <2>7. \A x \in Tids' : \E y \in Tids : y <= x
      <3>1. NextTid <= NextTid'
        BY <1>n, <2>3, <2>4, SMT
      <3> QED BY <1>s, <2>5, <2>6, <3>1
    <2>8. j'.tail_sequence # NextTid'
      <3>1. j.tail_sequence <= NextTid
        BY <1>t, <2>6, SMT
      <3> QED BY <1>n, <2>1, <2>3, <2>4, <3>1, SMT
    <2> QED BY <1>0, <2>1, <2>7, <2>8, TailKept, SMT
  <1>7. CASE commit_metadata \/ commit_record
    <2>1. UNCHANGED <<running, cplist, committing.tid>> /\ \E n \in Nat : j' = journal_next_log_block(n)
      <3>1. CASE commit_metadata
        BY <1>0, <3>1, MetadataIs, MetadataBuf
      <3>2. CASE commit_record
        <4>1. 1 \in Nat
          BY SMT
        <4> QED BY <3>2, <4>1 DEF commit_record
      <3> QED BY <1>7, <3>1, <3>2, SMT
    <2>2. UNCHANGED <<j.tail_sequence, j.transaction_sequence>>
      BY <1>0, <2>1, NextBlockIs, SMT
    <2>3. NextTid' = NextTid /\ Tids' = Tids
      BY <2>1, <2>2 DEF NextTid, Tids
    <2>4. committing.tid # 0
      <3>1. kjournald \in {"flush", "iobuf"}
        BY <1>7 DEF commit_metadata, commit_record, K
      <3> QED BY <3>1, BufFacts DEF StageInv
    <2>5. j'.tail_sequence # NextTid'
      <3>1. committing.tid \in Tids
        BY <2>4 DEF Tids
      <3>2. j.tail_sequence <= committing.tid
        BY <1>t, <3>1, SMT
      <3> QED BY <1>n, <2>2, <2>3, <2>4, <3>2, SMT
    <2> QED BY <1>0, <1>s, <2>2, <2>3, <2>5, TailKept, SMT
  <1>8. CASE commit_finish
    <2> DEFINE this == [tid |-> committing.tid, log_start |-> committing.log_start]
    <2>1. UNCHANGED running /\ committing.tid # 0 /\ cplist' \subseteq cplist \cup {this}
      BY <1>8, FinishBuf
    <2>2. committing'.tid = 0 /\ j' = [j EXCEPT !.commit_sequence = committing.tid]
      BY <1>8 DEF commit_finish, NoCommit
    <2>3. UNCHANGED <<j.tail_sequence, j.transaction_sequence, j.free>>
      BY <1>0, <2>2 DEF JType, JSet
    <2>4. NextTid' = NextTid
      BY <2>1, <2>3 DEF NextTid
    <2>5. Tids' \subseteq Tids
      <3>1. this.tid = committing.tid
        OBVIOUS
      <3>2. committing.tid \in Tids
        BY <2>1 DEF Tids
      <3> HIDE DEF this
      <3>3. \A t \in cplist' : t.tid \in Tids
        BY <2>1, <3>1, <3>2 DEF Tids
      <3> QED BY <2>2, <2>4, <3>3 DEF Tids
    <2>6. j'.tail_sequence = NextTid' => j'.free = LogLen
      BY <1>0, <2>3, <2>4 DEF TailInv
    <2>7. \A x \in Tids' : \E y \in Tids : y <= x
      BY <1>s, <2>5
    <2> QED BY <1>0, <2>3, <2>6, <2>7, TailKept, SMT
  <1>9. CASE Crash \/ Mount
    <2>1. PICK s \in Nat \ {0} : j' = JournalReset(s)
      BY <1>9, DownRing, SMT
    <2>2. committing'.tid = 0 /\ running'.tid = 0 /\ cplist' = {}
      BY <1>9, DownRing
    <2>3. j'.tail_sequence = s /\ j'.transaction_sequence = s /\ j'.free = LogLen
      BY <2>1, ResetIs
    <2>4. FirstTid' = s
      BY <2>2, <2>3 DEF FirstTid
    <2>5. s <= s
      BY SMT
    <2> QED BY <2>3, <2>4, <2>5 DEF TailInv
  <1> QED BY <1>2, <1>3, <1>4, <1>5, <1>6, <1>7, <1>8, <1>9 DEF Next, Commit

-----------------------------------------------------------------------------
(* The space of the log, step by step. *)

\* A step that takes no log space and adds no need keeps SpaceInv.
LEMMA SpaceKept ==
  ASSUME IInv, Kinds', UNCHANGED <<kjournald, committing.credits>>, j'.free >= j.free,
         NeedR' <= NeedR, Slack' \in Int, Slack' <= Slack, \A p \in Waiters' : MaxBuffers <= handle'[p].need
  PROVE  SpaceInv'
  <1>1. NeedC' = NeedC
    BY Zenon DEF NeedC
  <1>2. /\ NeedC \in Nat /\ NeedR \in Nat /\ Slack \in Nat /\ j.free \in Nat /\ j.free >= 1 + NeedC + NeedR + Slack
    BY SpaceFacts
  <1>3. j'.free \in Int /\ NeedR' \in Nat
    <2>1. running'.credits \in Nat /\ j'.free \in Int
      BY Zenon DEF Kinds, RunType, JType, JSet
    <2>2. Cost(running'.credits) \in Nat
      BY <2>1, CostIs
    <2> QED BY <2>1, <2>2 DEF NeedR
  <1>4. j'.free >= 1 + NeedC' + NeedR' + Slack'
    BY <1>1, <1>2, <1>3
  <1> QED BY <1>4, Zenon DEF SpaceInv

\* How many tasks wait for space, when task p moves.
LEMMA WaiterCount ==
  ASSUME NEW p \in Task, \A q \in Task : q # p => handle'[q] = handle[q]
  PROVE  /\ (p \in Waiters <=> p \in Waiters') => Waiters' = Waiters
         /\ p \notin Waiters /\ p \in Waiters' => Cardinality(Waiters') = Cardinality(Waiters) + 1
         /\ p \in Waiters /\ p \notin Waiters' => Cardinality(Waiters') = Cardinality(Waiters) - 1
  <1> USE Zenon
  <1>1. \A q \in Task : q # p => (q \in Waiters <=> q \in Waiters')
    BY DEF Waiters
  <1>2. Waiters \in SUBSET Task /\ Waiters' \in SUBSET Task
    BY DEF Waiters
  <1>3. IsFiniteSet(Waiters) /\ IsFiniteSet(Waiters')
    BY <1>2, TaskSets
  <1>4. ASSUME p \in Waiters <=> p \in Waiters' PROVE Waiters' = Waiters
    <2>1. \A q \in Task : q \in Waiters <=> q \in Waiters'
      BY <1>1, <1>4
    <2> QED BY <1>2, <2>1
  <1>5. ASSUME p \notin Waiters, p \in Waiters' PROVE Cardinality(Waiters') = Cardinality(Waiters) + 1
    <2>1. Waiters' = Waiters \cup {p}
      BY <1>1, <1>2, <1>5
    <2> QED BY <1>3, <1>5, <2>1, FS_AddElement
  <1>6. ASSUME p \in Waiters, p \notin Waiters' PROVE Cardinality(Waiters') = Cardinality(Waiters) - 1
    <2>1. Waiters' = Waiters \ {p}
      BY <1>1, <1>2, <1>6
    <2> QED BY <1>3, <1>6, <2>1, FS_RemoveElement
  <1> QED BY <1>4, <1>5, <1>6, SMT

\* A transaction with an open handle has been granted its blocks.
LEMMA OpenGranted ==
  ASSUME IInv, NEW p \in Task, handle[p].pc \in Open
  PROVE  running.updates > 0 /\ running.tid # 0 /\ Slack = Cardinality(Task)
         /\ NeedR = Cost(running.credits) + 1
  <1>0. HandleInv /\ running.updates = Cardinality(OpenTasks) /\ running.tid # 0
    BY BufFacts, Zenon DEF HandleInv
  <1>1. IsFiniteSet(OpenTasks) /\ Cardinality(OpenTasks) \in Nat
    <2>1. OpenTasks \in SUBSET Task
      BY Zenon DEF OpenTasks
    <2> QED BY <2>1, TaskSets, Zenon
  <1>2. Cardinality(OpenTasks) # 0
    BY <1>1, FS_EmptySet, Zenon DEF OpenTasks
  <1>3. running.updates > 0
    BY <1>0, <1>1, <1>2
  <1>4. Slack = Cardinality(Task)
    <2>1. Cardinality(Task) \in Nat
      BY SpaceFacts
    <2> QED BY <1>3, <2>1 DEF Slack, Granted
  <1>5. NeedR = Cost(running.credits) + 1
    BY <1>0, <1>3 DEF NeedR
  <1> QED BY <1>0, <1>3, <1>4, <1>5

\* log_space_left leaves the reserved blocks alone.
LEMMA SpaceLeftIs ==
  ASSUME NEW n \in Nat, 1 <= n, j.free \in Nat, log_space_left >= n
  PROVE  j.free >= Reserved + n
  <1> DEFINE left == j.free - Reserved
             e == left \div 8
  <1>0. Reserved \in Nat /\ left \in Int
    BY JournalAssumption
  <1>1. left > 0 /\ log_space_left = left - e
    <2>1. log_space_left = IF left <= 0 THEN 0 ELSE left - e
      BY Zenon DEF log_space_left
    <2> HIDE DEF left, e
    <2> QED BY <1>0, <2>1
  <1>2. e \in Nat
    <2> HIDE DEF left
    <2> QED BY <1>0, <1>1
  <1> HIDE DEF e
  <1> QED BY <1>0, <1>1, <1>2

\* The operations on handles keep SpaceInv: log_space_left, checked before a handle is granted, covers
\* what its transaction will take.
LEMMA HandlesSpace ==
  ASSUME IInv, Next, NEW p \in Task, Handles(p)
  PROVE  SpaceInv'
  <1> DEFINE h == handle[p]
             g == handle'[p]
             N == Cardinality(Task)
             Calm == (p \in Waiters <=> p \in Waiters') /\ (p \in Waiters' => g.need = h.need)
             Mover == NeedR' <= NeedR /\ Slack' \in Int /\ Slack' <= Slack
  <1>0. /\ StageInv /\ HandleType /\ Kinds /\ Kinds' /\ BufType /\ RunType /\ RunType' /\ JType /\ CommitType /\ CreditInv
        /\ running.credits \in Nat /\ running'.credits \in Nat /\ committing.credits \in Nat
        /\ running.updates \in Nat /\ running'.updates \in Nat
        /\ committing.credits <= MaxBuffers /\ running.credits <= MaxBuffers
    BY BufFacts, Ids, Zenon DEF Kinds, IInv, RunType, CommitType, CreditInv
  <1>1. UNCHANGED <<committing, kjournald>>
    BY HandlesKeep, Zenon
  <1>2. j'.free = j.free
    BY HandlesRing, Zenon DEF Still
  <1>N. MaxBuffers \in Nat /\ 1 <= MaxBuffers /\ N + 6 <= Reserved /\ Reserved \in Nat /\ Credits \in Nat
    BY JournalAssumption, SpaceAssumption
  <1>s. /\ NeedC \in Nat /\ NeedR \in Nat /\ Slack \in Nat /\ j.free \in Nat /\ j.free >= 1 + NeedC + NeedR + Slack
        /\ N \in Nat /\ Cardinality(Waiters) \in Nat /\ Cardinality(Waiters) <= N /\ Slack <= N
        /\ \A q \in Waiters : MaxBuffers <= handle[q].need
    BY SpaceFacts
  <1>f. \A q \in Task : q # p => handle'[q] = handle[q]
    BY <1>0, HandleMoves, Zenon DEF Ends, Joins, Waits, Takes, Returns, Pays, Awaits, Syncs, Turns, Sets
  <1>w. ASSUME Calm PROVE Waiters' = Waiters /\ \A q \in Waiters' : MaxBuffers <= handle'[q].need
    <2>1. Waiters' = Waiters
      BY <1>f, <1>w, WaiterCount
    <2>2. ASSUME NEW q \in Waiters' PROVE MaxBuffers <= handle'[q].need
      <3>1. q \in Task /\ MaxBuffers <= handle[q].need
        BY <1>s, <2>1, <2>2, Zenon DEF Waiters
      <3>2. handle'[q].need = handle[q].need
        BY <1>f, <1>w, <2>2, <3>1, Zenon
      <3> QED BY <3>1, <3>2
    <2> QED BY <2>1, <2>2
  <1>c. ASSUME Calm, Mover PROVE SpaceInv'
    <2>1. j'.free >= j.free
      BY <1>2, <1>s
    <2>2. \A q \in Waiters' : MaxBuffers <= handle'[q].need
      BY <1>c, <1>w
    <2> QED BY <1>0, <1>1, <1>c, <2>1, <2>2, SpaceKept
  <1>p. p \in Waiters <=> h.pc \in {"space", "scan"}
    BY Zenon DEF Waiters
  <1>P. p \in Waiters' <=> g.pc \in {"space", "scan"}
    BY Zenon DEF Waiters
  <1>3. ASSUME Calm, UNCHANGED <<running, revoke>> PROVE SpaceInv'
    <2>1. NeedR' = NeedR
      BY <1>3, Zenon DEF NeedR
    <2>2. Slack' = Slack
      BY <1>3, <1>w, Zenon DEF Slack, Granted
    <2>3. Mover
      BY <1>s, <2>1, <2>2
    <2> QED BY <1>3, <1>c, <2>3
  \* An open handle has its blocks already, whatever it does to the revoke table.
  <1>4. ASSUME h.pc \in Open, Calm, UNCHANGED running PROVE SpaceInv'
    <2>1. running.updates > 0 /\ running.tid # 0 /\ Slack = N /\ NeedR = Cost(running.credits) + 1
      BY <1>4, OpenGranted
    <2>2. NeedR' = Cost(running.credits) + 1
      BY <1>4, <2>1 DEF NeedR
    <2>3. Slack' = N
      BY <1>4, <1>s, <2>1 DEF Slack, Granted
    <2>4. Mover
      BY <1>s, <2>1, <2>2, <2>3
    <2> QED BY <1>4, <1>c, <2>4
  <1>5. CASE journal_stop(p) /\ (Syncs(p) \/ Ends(p))
    <2>1. /\ h.pc = "open" /\ UNCHANGED revoke
          /\ running' = [running EXCEPT !.updates = @ - 1, !.credits = @ - handle[p].credits]
      BY <1>5, Zenon DEF journal_stop, At
    <2>2. running'.tid = running.tid /\ running'.credits = running.credits - h.credits /\ h.credits \in Nat
      BY <1>0, <2>1, Zenon DEF RunType, HandleType, HSet
    <2>3. running'.credits <= running.credits
      BY <1>0, <2>2
    <2>4. Cost(running'.credits) <= Cost(running.credits) /\ Cost(running'.credits) \in Nat /\ Cost(running.credits) \in Nat
      BY <1>0, <2>3, CostIs
    <2>5. running.updates > 0 /\ running.tid # 0 /\ Slack = N /\ NeedR = Cost(running.credits) + 1
      <3>1. h.pc \in Open
        BY <2>1, Zenon DEF Open
      <3> QED BY <3>1, OpenGranted
    <2>6. NeedR' <= NeedR
      BY <2>2, <2>4, <2>5 DEF NeedR
    <2>7. Calm
      BY <1>5, <1>p, <1>P, <2>1, Zenon DEF Syncs, Ends, Sets
    <2>8. Waiters' = Waiters
      BY <1>w, <2>7
    <2>9. Slack' \in Int /\ Slack' <= N
      BY <1>s, <2>8 DEF Slack
    <2> QED BY <1>c, <2>5, <2>6, <2>7, <2>9
  <1>6. CASE start_this_handle(p)
    <2>1. /\ h.pc = "idle"
          /\ \/ UNCHANGED <<running, handle>>
             \/ /\ running'.tid = (IF running.tid = 0 THEN j.transaction_sequence ELSE running.tid)
                /\ running'.credits = (IF running.tid = 0 THEN 0 ELSE running.credits)
                /\ running'.updates = (IF running.tid = 0 THEN 0 ELSE running.updates)
                /\ handle' = [handle EXCEPT ![p].pc = "space", ![p].need = space_needed]
             \/ /\ log_space_left >= space_needed
                /\ running'.updates = (IF running.tid = 0 THEN 0 ELSE running.updates) + 1
                /\ running'.credits <= MaxBuffers
                /\ handle' = [handle EXCEPT ![p] = [NoHandle EXCEPT
                                !.pc = "open", !.tid = running'.tid, !.credits = Credits]]
      BY <1>0, <1>6, StartIs, Zenon
    <2>r. UNCHANGED revoke
      BY <1>6, Zenon DEF start_this_handle
    <2>z. running.tid = 0 => running.updates = 0 /\ running.credits = 0 /\ revoke = {}
      BY <1>0, NullIs, Zenon
    <2>2. CASE UNCHANGED <<running, handle>>
      <3>1. Calm
        BY <2>2, Zenon DEF Waiters
      <3> QED BY <1>3, <2>2, <2>r, <3>1
    <2>3. CASE /\ running'.tid = (IF running.tid = 0 THEN j.transaction_sequence ELSE running.tid)
               /\ running'.credits = (IF running.tid = 0 THEN 0 ELSE running.credits)
               /\ running'.updates = (IF running.tid = 0 THEN 0 ELSE running.updates)
               /\ handle' = [handle EXCEPT ![p].pc = "space", ![p].need = space_needed]
      <3>1. g.pc = "space" /\ g.need = MaxBuffers + committing.credits
        BY <1>0, <2>3, Zenon DEF HandleType, HSet, space_needed
      <3>2. Cardinality(Waiters') = Cardinality(Waiters) + 1
        BY <1>f, <1>p, <1>P, <2>1, <3>1, WaiterCount, Zenon
      <3>3. MaxBuffers <= g.need
        BY <1>0, <1>N, <3>1
      <3>4. \A q \in Waiters' : MaxBuffers <= handle'[q].need
        <4>1. ASSUME NEW q \in Waiters' PROVE MaxBuffers <= handle'[q].need
          <5>1. CASE q = p
            BY <3>3, <5>1
          <5>2. CASE q # p
            <6>1. q \in Waiters /\ handle'[q] = handle[q]
              BY <1>f, <4>1, <5>2, Zenon DEF Waiters
            <6> QED BY <1>s, <6>1, Zenon
          <5> QED BY <5>1, <5>2
        <4> QED BY <4>1
      <3>5. running'.credits = running.credits /\ running'.updates = running.updates
        BY <2>3, <2>z, Zenon
      <3>6. Granted' <=> Granted
        BY <2>r, <3>5, Zenon DEF Granted
      \* The task that waits makes up for the block of an empty transaction.
      <3>7. CASE running.tid # 0
        <4>1. NeedR' = NeedR
          BY <2>3, <2>r, <3>5, <3>7, Zenon DEF NeedR
        <4>2. Slack' \in Int /\ Slack' <= Slack
          BY <1>s, <3>2, <3>6 DEF Slack
        <4>3. j'.free >= j.free /\ NeedR' <= NeedR
          BY <1>2, <1>s, <4>1
        <4> QED BY <1>0, <1>1, <3>4, <4>2, <4>3, SpaceKept
      <3>8. CASE running.tid = 0
        <4>1. NeedR = 0
          BY <3>8, Zenon DEF NeedR
        <4>2. NeedR' <= 1 /\ NeedR' \in Nat
          BY <2>r, <2>z, <3>5, <3>8 DEF NeedR, Cost
        <4>3. ~Granted
          BY <2>z, <3>8 DEF Granted
        <4>4. Slack' = Slack - 1
          BY <1>s, <3>2, <3>6, <4>3 DEF Slack
        <4>5. NeedC' = NeedC
          BY <1>1, Zenon DEF NeedC
        <4>6. j'.free >= 1 + NeedC' + NeedR' + Slack'
          BY <1>2, <1>s, <4>1, <4>2, <4>4, <4>5
        <4> QED BY <3>4, <4>6, Zenon DEF SpaceInv
      <3> QED BY <3>7, <3>8
    <2>4. CASE /\ log_space_left >= space_needed
               /\ running'.updates = (IF running.tid = 0 THEN 0 ELSE running.updates) + 1
               /\ running'.credits <= MaxBuffers
               /\ handle' = [handle EXCEPT ![p] = [NoHandle EXCEPT
                                !.pc = "open", !.tid = running'.tid, !.credits = Credits]]
      <3>1. g.pc = "open"
        BY <1>0, <2>4, Zenon DEF HandleType, HSet, NoHandle
      <3>2. Calm
        BY <1>p, <1>P, <2>1, <3>1, Zenon
      <3>3. Waiters' = Waiters /\ \A q \in Waiters' : MaxBuffers <= handle'[q].need
        BY <1>w, <3>2
      <3>4. j.free >= Reserved + (MaxBuffers + committing.credits)
        <4>1. MaxBuffers + committing.credits \in Nat /\ 1 <= MaxBuffers + committing.credits
          BY <1>0, <1>N
        <4> QED BY <1>s, <2>4, <4>1, SpaceLeftIs DEF space_needed
      <3>5. NeedC' = NeedC /\ NeedC <= committing.credits + 2
        <4>1. Cost(committing.credits) <= committing.credits + 2
          BY <1>0, CostIs
        <4>2. NeedC' = NeedC
          BY <1>1, Zenon DEF NeedC
        <4> QED BY <1>0, <4>1, <4>2 DEF NeedC
      <3>6. NeedR' <= MaxBuffers + 3 /\ NeedR' \in Nat
        <4>1. Cost(running'.credits) <= running'.credits + 2 /\ Cost(running'.credits) \in Nat
          BY <1>0, CostIs
        <4> QED BY <1>0, <1>N, <2>4, <4>1 DEF NeedR
      <3>7. Slack' \in Int /\ Slack' <= N
        BY <1>s, <3>3 DEF Slack
      <3>8. j'.free >= 1 + NeedC' + NeedR' + Slack'
        BY <1>0, <1>2, <1>N, <1>s, <3>4, <3>5, <3>6, <3>7
      <3> QED BY <3>3, <3>8, Zenon DEF SpaceInv
    <2> QED BY <2>1, <2>2, <2>3, <2>4
  <1>7. CASE (unused_access(p) \/ journal_dirty_metadata(p) \/ dirty_data_written(p)) /\ Returns(p)
    <2>1. UNCHANGED <<running, revoke>>
      BY <1>7, Zenon DEF unused_access, journal_dirty_metadata, dirty_data_written
    <2>2. h.pc \in {"access", "dwait"} /\ g.pc = "open"
      BY <1>7, Zenon DEF Returns, Sets
    <2>3. Calm
      BY <1>p, <1>P, <2>2, Zenon
    <2> QED BY <1>3, <2>1, <2>3
  <1>8. CASE \/ log_wait_commit(p) /\ (Ends(p) \/ Sets(p, "fckpt", 0, 0, NoBlock, 0))
             \/ /\ journal_flush(p)
                /\ LET tid == IF running.tid # 0 THEN running.tid ELSE committing.tid
                   IN  Turns(p, IF tid = 0 THEN "fckpt" ELSE "fwait", tid)
    <2>1. UNCHANGED <<running, revoke>> /\ h.pc \in {"wait", "fwait", "idle"}
      BY <1>8, Zenon DEF log_wait_commit, journal_flush, At
    <2>2. g.pc \in {"idle", "fckpt", "fwait"}
      BY <1>8, Zenon DEF Ends, Sets, Turns
    <2>3. Calm
      BY <1>p, <1>P, <2>1, <2>2, Zenon
    <2> QED BY <1>3, <2>1, <2>3
  <1>9. ASSUME NEW b \in Block,
               \/ journal_get_write_access(p, b) /\ Takes(p, b)
               \/ journal_get_create_access(p, b) /\ Pays(p, b)
               \/ journal_revoke(p, b) /\ UNCHANGED handle
               \/ journal_dirty_data(p, b) /\ (UNCHANGED handle \/ Awaits(p, b))
        PROVE  SpaceInv'
    <2>1. UNCHANGED running /\ h.pc = "open"
      BY <1>9, Zenon DEF journal_get_write_access, journal_get_create_access, journal_revoke, journal_dirty_data, At
    <2>2. g.pc \in {"open", "access", "dwait"}
      BY <1>9, <2>1, Zenon DEF Takes, Pays, Awaits, Sets
    <2>3. Calm
      BY <1>p, <1>P, <2>1, <2>2, Zenon
    <2>4. h.pc \in Open
      BY <2>1, Zenon DEF Open
    <2> QED BY <1>4, <2>1, <2>3, <2>4
  <1> QED BY <1>0, <1>5, <1>6, <1>7, <1>8, <1>9, HandleMoves, Zenon

\* A checkpoint only gives space back.
LEMMA CheckpointSpace ==
  ASSUME IInv, Next, NEW p \in Task, Checkpoint(p)
  PROVE  SpaceInv'
  <1> DEFINE h == handle[p]
             g == handle'[p]
             N == Cardinality(Task)
  <1>0. /\ StageInv /\ HandleType /\ BufType /\ BufInv /\ ListType /\ Kinds /\ Kinds' /\ RingInv /\ CreditInv
        /\ committing.credits \in Nat /\ committing.credits <= MaxBuffers
        /\ running.credits \in Nat /\ running.updates \in Nat
    BY BufFacts, RingFacts, Ids, Zenon DEF Kinds, IInv, RunType, CommitType, CreditInv
  <1>1. UNCHANGED <<running, revoke, committing, kjournald>>
    BY CheckpointKeep, Zenon
  <1>2. j'.free >= j.free /\ j'.free \in Int
    <2>1. (Still \/ j' = CleanedTail) /\ j.free \in Nat
      BY <1>0, CheckpointRing, RingFacts
    <2>2. CASE Still
      BY <2>1, <2>2 DEF Still
    <2>3. CASE j' = CleanedTail
      <3>1. /\ FirstBlock \in 1 .. LogLen /\ (j'.free = j.free \/ j'.free = j.free + Dist(FirstBlock))
        BY <1>0, <2>3, TailIs, RingFacts, Zenon DEF Kinds
      <3>2. Dist(FirstBlock) \in 0 .. LogLen - 1
        BY <3>1, DistType, RingFacts, Zenon DEF Dist
      <3>3. LogLen \in Nat
        BY RingFacts
      <3>4. Dist(FirstBlock) \in Nat
        BY <3>2, <3>3
      <3> QED BY <2>1, <3>1, <3>4
    <2> QED BY <2>1, <2>2, <2>3
  <1>N. MaxBuffers \in Nat /\ 1 <= MaxBuffers /\ N + 6 <= Reserved /\ Reserved \in Nat
    BY JournalAssumption, SpaceAssumption
  <1>s. /\ NeedC \in Nat /\ NeedR \in Nat /\ Slack \in Nat /\ j.free \in Nat /\ j.free >= 1 + NeedC + NeedR + Slack
        /\ N \in Nat /\ Cardinality(Waiters) \in Nat /\ Cardinality(Waiters) <= N /\ Slack <= N
        /\ \A q \in Waiters : MaxBuffers <= handle[q].need
    BY SpaceFacts
  <1>f. \A q \in Task : q # p => handle'[q] = handle[q]
    BY <1>0, CheckpointMoves, Zenon DEF Ends, Turns, Sets
  <1>r. NeedR' = NeedR /\ NeedC' = NeedC /\ (Granted' <=> Granted)
    BY <1>1, Zenon DEF NeedR, NeedC, Granted
  <1>3. ASSUME (p \in Waiters <=> p \in Waiters'), (p \in Waiters' => g.need = h.need)
        PROVE  SpaceInv'
    <2>1. Waiters' = Waiters
      BY <1>f, <1>3, WaiterCount
    <2>2. ASSUME NEW q \in Waiters' PROVE MaxBuffers <= handle'[q].need
      <3>1. q \in Task /\ MaxBuffers <= handle[q].need
        BY <1>s, <2>1, <2>2, Zenon DEF Waiters
      <3>2. handle'[q].need = handle[q].need
        BY <1>f, <1>3, <2>2, <3>1, Zenon
      <3> QED BY <3>1, <3>2
    <2>3. Slack' = Slack
      BY <1>r, <2>1, Zenon DEF Slack
    <2>4. NeedR' <= NeedR /\ Slack' \in Int /\ Slack' <= Slack
      BY <1>r, <1>s, <2>3
    <2> QED BY <1>0, <1>1, <1>2, <2>2, <2>4, SpaceKept
  <1>p. p \in Waiters <=> h.pc \in {"space", "scan"}
    BY Zenon DEF Waiters
  <1>P. p \in Waiters' <=> g.pc \in {"space", "scan"}
    BY Zenon DEF Waiters
  \* A task stops waiting only when there is room for its transaction.
  <1>4. ASSUME h.pc = "space", log_space_left >= h.need, Ends(p) PROVE SpaceInv'
    <2>1. p \in Waiters /\ p \notin Waiters'
      BY <1>4, <1>p, <1>P, Zenon DEF Ends, Sets
    <2>2. Cardinality(Waiters') = Cardinality(Waiters) - 1
      BY <1>f, <2>1, WaiterCount
    <2>3. ASSUME NEW q \in Waiters' PROVE MaxBuffers <= handle'[q].need
      <3>1. q \in Task /\ q # p
        BY <2>1, <2>3, Zenon DEF Waiters
      <3>2. handle'[q] = handle[q] /\ q \in Waiters
        BY <1>f, <2>3, <3>1, Zenon DEF Waiters
      <3> QED BY <1>s, <3>2, Zenon
    <2>4. CASE Granted
      <3>1. NeedR' <= NeedR /\ Slack' \in Int /\ Slack' <= Slack
        BY <1>r, <1>s, <2>4 DEF Slack
      <3> QED BY <1>0, <1>1, <1>2, <2>3, <3>1, SpaceKept
    <2>5. CASE ~Granted
      <3>1. NeedR <= 1
        BY <1>0, <2>5 DEF NeedR, Granted, Cost
      <3>2. NeedC <= MaxBuffers + 2
        <4>1. Cost(committing.credits) <= committing.credits + 2 /\ Cost(committing.credits) \in Nat
          BY <1>0, CostIs
        <4> QED BY <1>0, <1>N, <4>1 DEF NeedC
      <3>3. j.free >= Reserved + h.need /\ h.need \in Nat /\ MaxBuffers <= h.need
        <4>1. h.need \in Nat /\ MaxBuffers <= h.need
          BY <1>0, <1>s, <2>1, Zenon DEF HandleType, HSet
        <4>2. 1 <= h.need
          BY <1>N, <4>1
        <4> QED BY <1>4, <1>s, <4>1, <4>2, SpaceLeftIs
      <3>4. Slack' \in Int /\ Slack' <= N
        <4>1. Waiters' \in SUBSET Task
          BY Zenon DEF Waiters
        <4>2. Cardinality(Waiters') \in Nat
          BY <4>1, TaskSets, Zenon
        <4> QED BY <1>s, <4>2 DEF Slack
      <3> HIDE DEF h, g, N
      <3>5. j'.free >= Reserved + MaxBuffers
        BY <1>2, <1>N, <1>s, <3>3
      <3>6. NeedC' \in Nat /\ NeedR' \in Nat /\ NeedC' <= MaxBuffers + 2 /\ NeedR' <= 1
        BY <1>r, <1>s, <3>1, <3>2
      <3>7. j'.free >= 1 + NeedC' + NeedR' + Slack'
        BY <1>2, <1>N, <1>s, <3>4, <3>5, <3>6
      <3> QED BY <2>3, <3>7, Zenon DEF SpaceInv
    <2> QED BY <2>4, <2>5
  <1>5. CASE UNCHANGED handle
    BY <1>3, <1>5, Zenon DEF Waiters
  <1>6. ASSUME NEW pc, NEW tid, Turns(p, pc, tid), h.pc \in {"space", "scan"} <=> pc \in {"space", "scan"}
        PROVE  SpaceInv'
    <2>1. g.pc = pc /\ g.need = h.need
      BY <1>6, Zenon DEF Turns, Sets
    <2> QED BY <1>3, <1>6, <1>p, <1>P, <2>1, Zenon
  <1>7. ASSUME h.pc = "fckpt", Ends(p) PROVE SpaceInv'
    <2>1. p \notin Waiters /\ p \notin Waiters'
      BY <1>7, <1>p, <1>P, Zenon DEF Ends, Sets
    <2> QED BY <1>3, <2>1, Zenon
  <1> HIDE DEF h, g
  <1>9. \/ UNCHANGED handle
        \/ h.pc = "fckpt" /\ Ends(p)
        \/ h.pc = "space" /\ (Turns(p, "scan", h.tid) \/ (log_space_left >= h.need /\ Ends(p)))
        \/ \E b \in Block : h.pc \in {"scan", "fscan"} /\ Turns(p, h.pc, bh[b].trans)
        \/ h.pc = "scan" /\ Turns(p, "space", 0)
        \/ h.pc = "fscan" /\ Turns(p, "fckpt", 0)
        \/ h.pc = "fckpt" /\ Turns(p, "fscan", h.tid)
    BY <1>0, CheckpointMoves, Zenon DEF h
  <1> QED BY <1>4, <1>5, <1>6, <1>7, <1>9, Zenon

\* Every step leaves the log the blocks that it owes.
LEMMA SpaceStep ==
  ASSUME IInv, Next
  PROVE  SpaceInv'
  <1> USE Zenon
  <1>0. Kinds /\ FsType /\ RunType /\ JType /\ running.credits \in Nat
    BY BufFacts DEF Kinds, RunType
  <1>s. /\ NeedC \in Nat /\ NeedR \in Nat /\ Slack \in Nat /\ j.free \in Nat /\ j.free >= 1 + NeedC + NeedR + Slack
        /\ Cardinality(Task) \in Nat /\ Cardinality(Waiters) \in Nat
        /\ \A q \in Waiters : MaxBuffers <= handle[q].need
    BY SpaceFacts, SMT
  <1>w. ASSUME UNCHANGED handle PROVE Waiters' = Waiters /\ \A q \in Waiters' : MaxBuffers <= handle'[q].need
    BY <1>s, <1>w DEF Waiters
  <1>k. ASSUME UNCHANGED <<handle, revoke, running.tid, running.updates, running.credits>>,
               j'.free >= 1 + NeedC' + NeedR + Slack
        PROVE  SpaceInv'
    <2>1. NeedR' = NeedR /\ Slack' = Slack
      BY <1>k, <1>w DEF NeedR, Slack, Granted
    <2> QED BY <1>k, <1>w, <2>1 DEF SpaceInv
  <1>1. ASSUME NEW p \in Task, Handles(p) \/ Checkpoint(p) PROVE SpaceInv'
    BY <1>1, HandlesSpace, CheckpointSpace
  <1>2. CASE IoDone \/ \E b \in Block : write_back(b) \/ journal_try_to_free_buffer(b)
    <2>1. UNCHANGED <<j, running, revoke, handle, committing, kjournald>>
      BY <1>2, IoKeep DEF journal_try_to_free_buffer
    <2>2. NeedC' = NeedC
      BY <2>1 DEF NeedC
    <2> QED BY <1>k, <1>s, <2>1, <2>2
  <1>3. CASE commit_timeout \/ commit_lock \/ write_out_data \/ wait_for_iobuf
    <2>1. UNCHANGED <<handle, revoke, committing.credits>> /\ j'.free = j.free
      <3>1. j' = j \/ j' = [j EXCEPT !.commit_request = running.tid]
        BY <1>3 DEF commit_timeout, commit_lock, write_out_data, wait_for_iobuf
      <3>2. UNCHANGED <<handle, revoke>>
        BY <1>3 DEF commit_timeout, commit_lock, write_out_data, wait_for_iobuf
      <3>3. UNCHANGED committing.credits
        BY <1>0, <1>3, IobufIs DEF commit_timeout, commit_lock, write_out_data
      <3> QED BY <1>0, <3>1, <3>2, <3>3 DEF JType, JSet
    <2>2. UNCHANGED <<running.tid, running.updates, running.credits>>
      BY <1>0, <1>3 DEF RunType, commit_timeout, commit_lock, write_out_data, wait_for_iobuf
    <2>3. UNCHANGED kjournald \/ (kjournald = "sleep" /\ kjournald' = "locked")
      BY <1>3 DEF commit_timeout, commit_lock, write_out_data, wait_for_iobuf, K
    <2>4. NeedC' = NeedC
      BY <2>1, <2>3, SMT DEF NeedC
    <2> QED BY <1>k, <1>s, <2>1, <2>2, <2>4
  <1>4. CASE commit_switch
    <2> DEFINE n == IF revoke = {} THEN 0 ELSE 1
    <2>1. /\ n \in Nat /\ j.free - n >= 1 + Cost(running.credits) + Slack /\ j'.free = j.free - n
      BY <1>4, SwitchRoom, SMT
    <2>2. kjournald' = "flush" /\ running' = NoTrans /\ revoke' = {} /\ committing'.credits = running.credits
      BY <1>0, <1>4, SwitchIs
    <2>3. NeedC' = Cost(running.credits)
      BY <2>2, SMT DEF NeedC
    <2>4. running'.tid = 0 /\ running'.credits = 0 /\ running'.updates = 0
      BY <2>2 DEF NoTrans
    <2>5. NeedR' = 0 /\ ~Granted'
      BY <2>2, <2>4, SMT DEF NeedR, Granted
    <2>6. Waiters' = Waiters /\ \A q \in Waiters' : MaxBuffers <= handle'[q].need
      BY <1>4, <1>w, CommitKeep DEF Commit
    <2>7. Slack' \in Int /\ Slack' <= Slack
      BY <1>s, <2>5, <2>6, SMT DEF Slack
    <2>8. Cost(running.credits) \in Nat
      BY <1>0, CostIs, SMT
    <2> HIDE DEF n
    <2>9. j'.free >= 1 + NeedC' + NeedR' + Slack'
      BY <1>s, <2>1, <2>3, <2>5, <2>7, <2>8, SMT
    <2> QED BY <2>6, <2>9 DEF SpaceInv
  <1>5. CASE commit_metadata \/ commit_record \/ commit_finish
    <2>1. UNCHANGED <<running, revoke>>
      BY <1>5 DEF commit_metadata, commit_record, commit_finish
    <2>2. UNCHANGED handle
      BY <1>5, CommitKeep DEF Commit
    <2>3. CASE commit_metadata
      <3>1. PICK n \in Nat : j' = journal_next_log_block(n) /\ j.free - n >= 2 + NeedR + Slack
        BY <2>3, MetadataRoom, SMT
      <3>2. j'.free = j.free - n
        BY <1>0, <3>1, NextBlockIs, SMT
      <3>3. NeedC' = 1
        BY <1>0, <2>3, MetadataIs, SMT DEF NeedC
      <3>4. j'.free >= 1 + NeedC' + NeedR + Slack
        BY <1>s, <3>1, <3>2, <3>3, SMT
      <3> QED BY <1>k, <2>1, <2>2, <3>4, SMT
    <2>4. CASE commit_record
      <3>1. j' = journal_next_log_block(1) /\ j.free - 1 >= 1 + NeedR + Slack
        BY <2>4, RecordRoom, SMT
      <3>2. j'.free = j.free - 1
        BY <1>0, <3>1, NextBlockIs, SMT
      <3>3. kjournald' = "record"
        BY <2>4 DEF commit_record
      <3>4. NeedC' = 0
        BY <3>3, SMT DEF NeedC
      <3>5. j'.free >= 1 + NeedC' + NeedR + Slack
        BY <1>s, <3>1, <3>2, <3>4, SMT
      <3> QED BY <1>k, <2>1, <2>2, <3>5, SMT
    <2>5. CASE commit_finish
      <3>1. kjournald' = "sleep" /\ kjournald = "record" /\ j'.free = j.free
        BY <1>0, <2>5 DEF commit_finish, K, JType, JSet
      <3>2. NeedC' = 0 /\ NeedC = 0
        BY <3>1, SMT DEF NeedC
      <3> QED BY <1>k, <1>s, <2>1, <2>2, <3>1, <3>2
    <2> QED BY <1>5, <2>3, <2>4, <2>5, SMT
  <1>6. CASE Crash \/ Mount
    <2>1. /\ running' = NoTrans /\ revoke' = {} /\ handle' = [p \in Task |-> NoHandle] /\ kjournald' = "sleep"
          /\ \E s \in Nat \ {0} : j' = JournalReset(s)
      BY <1>6, DownRing, SMT
    <2>2. j'.free = LogLen
      BY <2>1, ResetIs
    <2>3. NeedC' = 0 /\ NeedR' = 0
      <3>1. running'.tid = 0
        BY <2>1 DEF NoTrans
      <3> QED BY <2>1, <3>1, SMT DEF NeedC, NeedR
    <2>4. Waiters' = {}
      BY <2>1 DEF Waiters, NoHandle
    <2>5. Slack' \in Int /\ Slack' <= Cardinality(Task)
      <3>1. Cardinality(Waiters') = 0
        BY <2>4, FS_EmptySet
      <3> QED BY <1>s, <3>1, SMT DEF Slack
    <2>6. Cardinality(Task) + 6 <= Reserved /\ Reserved <= LogLen /\ Reserved \in Nat /\ LogLen \in Nat
      BY JournalAssumption, SpaceAssumption, SMT
    <2>7. j'.free >= 1 + NeedC' + NeedR' + Slack'
      BY <1>s, <2>2, <2>3, <2>5, <2>6, SMT
    <2> QED BY <2>4, <2>7 DEF SpaceInv
  <1> QED BY <1>1, <1>2, <1>3, <1>4, <1>5, <1>6 DEF Next, Commit

-----------------------------------------------------------------------------
(* What is on disk when a commit is done. *)

\* The type of a block that is written to the log.
LEMMA LogWriteIs ==
  ASSUME NEW pos, NEW type, NEW seq, NEW tags, NEW revoked, NEW ref
  PROVE  LogWrite(pos, LogBlock(type, seq, tags, revoked), ref).blk.type = type
  BY Zenon DEF LogWrite, LogBlock

\* The log holds a commit record only when all else is written, and its
\* completion is what makes the pending file system the stable one.
LEMMA RecordStep ==
  ASSUME IInv, Next
  PROVE  RecordInv'
  <1> USE Zenon
  <1>0. RecordInv /\ Kinds /\ FsType /\ StageInv
    BY BufFacts DEF IInv
  <1>1. ASSUME UNCHANGED <<logio, kjournald, pending, stable, committing.tid>> PROVE RecordInv'
    BY <1>0, <1>1 DEF RecordInv
  <1>2. ASSUME NEW p \in Task, Handles(p) \/ Checkpoint(p) PROVE RecordInv'
    BY <1>1, <1>2, HandlesKeep, CheckpointKeep
  <1>3. CASE \E b \in Block : home_written(b) \/ write_back(b) \/ journal_try_to_free_buffer(b)
    <2>1. UNCHANGED <<logio, kjournald, pending, stable, committing>>
      BY <1>3 DEF home_written, write_back, journal_try_to_free_buffer, history
    <2> QED BY <1>1, <2>1
  <1>4. ASSUME NEW w \in logio, log_written(w) PROVE RecordInv'
    <2>1. /\ logio' = logio \ {w} /\ UNCHANGED <<kjournald, committing, pending>>
          /\ IF w.blk.type = "commit" THEN stable' = pending ELSE stable' = stable
      BY <1>4 DEF log_written
    <2>2. ASSUME kjournald = "record" PROVE stable'.tid = committing.tid
      BY <1>0, <2>1, <2>2 DEF RecordInv
    <2> QED BY <1>0, <2>1, <2>2 DEF RecordInv
  <1>5. CASE commit_timeout \/ write_out_data \/ wait_for_iobuf
    <2>1. UNCHANGED <<logio, kjournald, pending, stable>>
      BY <1>5 DEF commit_timeout, write_out_data, wait_for_iobuf, history
    <2>2. UNCHANGED committing.tid
      BY <1>0, <1>5, IobufIs DEF commit_timeout, write_out_data
    <2> QED BY <1>1, <2>1, <2>2, SMT
  <1>6. CASE commit_lock
    <2>1. UNCHANGED logio /\ kjournald = "sleep" /\ kjournald' = "locked"
      BY <1>6 DEF commit_lock, K
    <2> QED BY <1>0, <2>1 DEF RecordInv
  <1>7. CASE commit_switch
    <2>1. kjournald = "locked" /\ kjournald' = "flush" /\ pending'.tid = running.tid /\ committing'.tid = running.tid
      BY <1>0, <1>7, SwitchIs DEF K
    <2>2. \A w \in logio' : w \in logio \/ w.blk.type = "revoke"
      <3>1. \/ logio' = logio
            \/ logio' = logio \cup {LogWrite(j.head, LogBlock("revoke", running.tid, << >>, revoke), NoBlock)}
        BY <1>7 DEF commit_switch
      <3>2. LogWrite(j.head, LogBlock("revoke", running.tid, << >>, revoke), NoBlock).blk.type = "revoke"
        BY LogWriteIs, SMT
      <3> QED BY <3>1, <3>2
    <2> QED BY <1>0, <2>1, <2>2 DEF RecordInv
  <1>8. CASE commit_metadata
    <2>1. kjournald = "flush" /\ kjournald' = "iobuf" /\ committing'.tid = committing.tid
      BY <1>0, <1>8, MetadataIs DEF K
    <2>2. UNCHANGED pending
      BY <1>8 DEF commit_metadata, history
    <2>3. \A w \in logio' : w \in logio \/ w.blk.type \in {"descriptor", "copy"}
      <3>1. ASSUME NEW b, NEW pos PROVE MetadataWrite(b, pos).blk.type = "copy"
        BY DEF MetadataWrite, LogWrite, Copy, LogBlock
      <3>2. PICK s, S :
              logio' = logio \cup (IF S = {} THEN {}
                                   ELSE {LogWrite(j.head, LogBlock("descriptor", committing.tid, s, {}), NoBlock)})
                             \cup {MetadataWrite(s[i], Wrap(j.head, i)) : i \in DOMAIN s}
        BY <1>8 DEF commit_metadata
      <3>3. LogWrite(j.head, LogBlock("descriptor", committing.tid, s, {}), NoBlock).blk.type = "descriptor"
        BY LogWriteIs, SMT
      <3> QED BY <3>1, <3>2, <3>3
    <2> QED BY <1>0, <2>1, <2>2, <2>3 DEF RecordInv
  <1>9. CASE commit_record
    <2>1. /\ logio' = {LogWrite(j.head, LogBlock("commit", committing.tid, << >>, {}), NoBlock)}
          /\ kjournald = "iobuf" /\ kjournald' = "record" /\ UNCHANGED <<committing, pending>>
      BY <1>9 DEF commit_record, wait_for_ctlbuf, K, history
    <2>2. \A w \in logio' : w.blk.type = "commit"
      BY <2>1, LogWriteIs, SMT
    <2>3. logio' # {}
      BY <2>1
    <2> QED BY <1>0, <2>1, <2>2, <2>3 DEF RecordInv
  <1>10. CASE commit_finish
    <2>1. logio' = {} /\ kjournald' = "sleep"
      BY <1>10 DEF commit_finish, wait_on_record
    <2> QED BY <2>1 DEF RecordInv
  <1>11. CASE Crash \/ Mount
    <2>1. logio' = {} /\ kjournald' = "sleep"
      BY <1>11, DownRing, SMT
    <2> QED BY <2>1 DEF RecordInv
  <1> QED BY <1>2, <1>3, <1>4, <1>5, <1>6, <1>7, <1>8, <1>9, <1>10, <1>11 DEF Next, Commit, IoDone

\* The moves of a waiting task's transaction: it starts, commits and is done.
LEMMA DueMoves ==
  ASSUME NEW t \in Nat, NEW R \in Nat, NEW C \in Nat, NEW ts \in Nat, NEW st \in Nat, Due(t, R, C, ts, st)
  PROVE  /\ R = 0 => Due(t, ts, C, ts + 1, st)
         /\ R # 0 /\ C = 0 => Due(t, 0, R, ts, st)
         /\ st = C => Due(t, R, 0, ts, st)
         /\ C # 0 => Due(t, R, C, ts, C)
  BY DEF Due

\* Every step keeps DueInv.
LEMMA DueStep ==
  ASSUME IInv, Next
  PROVE  DueInv'
  <1> USE Zenon
  <1> DEFINE R == running.tid
             C == committing.tid
             ts == j.transaction_sequence
             st == stable.tid
             Kept == UNCHANGED <<R, C, ts, st>>
  <1>0. /\ DueInv /\ Kinds /\ JType /\ FsType /\ TidType /\ TidInv /\ HandleInv /\ HandleType /\ BufType /\ StageInv /\ RecordInv
        /\ R \in Nat /\ C \in Nat /\ ts \in Nat /\ st \in Nat /\ \A q \in Task : handle[q].tid \in Nat
    BY BufFacts DEF IInv, TidType, FsType, HandleType, HSet, Kinds
  <1>d. \A q \in Task : handle[q].pc \in {"wait", "fwait"} => Due(handle[q].tid, R, C, ts, st)
    BY <1>0 DEF DueInv
  <1>k. ASSUME UNCHANGED handle, Kept PROVE DueInv'
    BY <1>0, <1>k DEF DueInv
  <1>1. ASSUME NEW p \in Task, Handles(p) PROVE DueInv'
    <2>1. UNCHANGED <<C, st>>
      BY <1>1, HandlesKeep
    <2>2. UNCHANGED <<R, ts>> \/ (R = 0 /\ R' = ts /\ ts' = ts + 1)
      BY <1>1, HandlesTids, SMT
    <2>3. ASSUME NEW q \in Task, Due(handle[q].tid, R, C, ts, st) PROVE Due(handle[q].tid, R', C', ts', st')
      <3>1. CASE UNCHANGED <<R, ts>>
        BY <2>1, <2>3, <3>1
      <3>2. CASE R = 0 /\ R' = ts /\ ts' = ts + 1
        BY <1>0, <2>1, <2>3, <3>2, DueMoves
      <3> QED BY <2>2, <3>1, <3>2, SMT
    <2>4. ASSUME NEW q \in Task, q # p, handle'[q].pc \in {"wait", "fwait"} PROVE Due(handle'[q].tid, R', C', ts', st')
      <3>1. handle'[q] = handle[q]
        BY <1>0, <1>1, <2>4, HandleMoves DEF Ends, Joins, Waits, Takes, Returns, Pays, Awaits, Syncs, Turns, Sets
      <3> QED BY <1>d, <2>3, <2>4, <3>1
    <2>5. ASSUME handle'[p].pc \in {"wait", "fwait"} PROVE Due(handle'[p].tid, R', C', ts', st')
      <3>1. \/ UNCHANGED handle
            \/ journal_stop(p) /\ Syncs(p)
            \/ journal_flush(p) /\ Turns(p, "fwait", IF R # 0 THEN R ELSE C) /\ (R # 0 \/ C # 0)
        BY <1>0, <1>1, <2>5, HandleMoves DEF Ends, Joins, Waits, Takes, Returns, Pays, Awaits, Turns, Sets
      <3>2. CASE UNCHANGED handle
        BY <1>d, <2>3, <2>5, <3>2
      <3>3. CASE journal_stop(p) /\ Syncs(p)
        <4>1. handle'[p].tid = R /\ R # 0
          BY <1>0, <3>3 DEF Syncs, Sets, HandleInv, Open
        <4>2. Due(R, R, C, ts, st)
          BY <1>0, <4>1, SMT DEF Due, TidInv
        <4> QED BY <2>1, <2>2, <4>1, <4>2
      <3>4. CASE journal_flush(p) /\ Turns(p, "fwait", IF R # 0 THEN R ELSE C) /\ (R # 0 \/ C # 0)
        <4>1. UNCHANGED <<R, ts>>
          <5>1. UNCHANGED running
            BY <3>4 DEF journal_flush
          <5>2. ts # 0
            BY <1>0, SMT DEF TidInv, TidType
          <5> QED BY <2>2, <5>1, <5>2
        <4>2. handle'[p].tid = IF R # 0 THEN R ELSE C
          BY <3>4 DEF Turns, Sets
        <4>3. Due(IF R # 0 THEN R ELSE C, R, C, ts, st)
          BY <1>0, <3>4, SMT DEF Due, TidInv
        <4> QED BY <2>1, <4>1, <4>2, <4>3
      <3> QED BY <3>1, <3>2, <3>3, <3>4, SMT
    <2> QED BY <2>4, <2>5 DEF DueInv
  <1>2. ASSUME NEW p \in Task, Checkpoint(p) PROVE DueInv'
    <2>1. UNCHANGED <<R, C, st>>
      BY <1>2, CheckpointKeep
    <2>2. UNCHANGED ts
      <3>1. ListType /\ BufInv /\ RingInv
        BY RingFacts, BufFacts
      <3> QED BY <1>0, <1>2, <3>1, CheckpointRing
    <2>3. \A q \in Task : handle'[q] = handle[q] \/ handle'[q].pc \notin {"wait", "fwait"}
      BY <1>0, <1>2, CheckpointMoves DEF Ends, Turns, Sets
    <2> QED BY <1>d, <2>1, <2>2, <2>3 DEF DueInv
  <1>3. CASE (\E b \in Block : home_written(b) \/ write_back(b) \/ journal_try_to_free_buffer(b)) \/ commit_lock \/ write_out_data
             \/ commit_timeout \/ wait_for_iobuf \/ commit_metadata \/ commit_record
    <2>1. UNCHANGED <<handle, stable>>
      BY <1>3, CommitKeep DEF Commit, home_written, write_back, journal_try_to_free_buffer, history
    <2>2. UNCHANGED R
      BY <1>0, <1>3 DEF home_written, write_back, journal_try_to_free_buffer, commit_timeout, commit_lock, write_out_data,
           wait_for_iobuf, commit_metadata, commit_record, Kinds, RunType
    <2>3. UNCHANGED C
      BY <1>0, <1>3, IobufIs, MetadataIs DEF home_written, write_back, journal_try_to_free_buffer, commit_timeout, commit_lock,
           write_out_data, commit_record
    <2>4. UNCHANGED ts
      <3>1. CASE commit_metadata \/ commit_record
        <4>1. \E n \in Nat : j' = journal_next_log_block(n)
          <5>1. 1 \in Nat
            BY SMT
          <5> QED BY <1>0, <3>1, <5>1, MetadataIs DEF commit_record
        <4> QED BY <1>0, <4>1, NextBlockIs, SMT
      <3>2. CASE ~(commit_metadata \/ commit_record)
        <4>1. j' = j \/ j' = [j EXCEPT !.commit_request = running.tid]
          BY <1>3, <3>2 DEF home_written, write_back, journal_try_to_free_buffer, commit_timeout, commit_lock, write_out_data, wait_for_iobuf
        <4> QED BY <1>0, <4>1 DEF JType, JSet
      <3> QED BY <3>1, <3>2, SMT
    <2> QED BY <1>k, <2>1, <2>2, <2>3, <2>4
  <1>4. ASSUME NEW w \in logio, log_written(w) PROVE DueInv'
    <2>1. /\ UNCHANGED <<j, running, committing, handle>>
          /\ IF w.blk.type = "commit" THEN stable' = pending ELSE stable' = stable
      BY <1>4 DEF log_written
    <2>2. CASE w.blk.type = "commit"
      <3>1. kjournald = "record"
        BY <1>0, <2>2 DEF RecordInv
      <3>2. st' = C /\ C # 0
        BY <1>0, <2>1, <2>2, <3>1 DEF RecordInv, StageInv
      <3>3. \A q \in Task : handle[q].pc \in {"wait", "fwait"} => Due(handle[q].tid, R, C, ts, C)
        BY <1>0, <1>d, <3>2, DueMoves
      <3> QED BY <2>1, <3>2, <3>3 DEF DueInv
    <2>3. CASE w.blk.type # "commit"
      BY <1>k, <2>1, <2>3
    <2> QED BY <2>2, <2>3, SMT
  <1>5. CASE commit_switch
    <2>1. R' = 0 /\ C' = R /\ UNCHANGED <<ts, handle, stable>>
      <3>1. NoTrans.tid = 0
        BY DEF NoTrans
      <3>2. running' = NoTrans /\ C' = R /\ UNCHANGED ts
        BY <1>0, <1>5, SwitchIs
      <3>3. UNCHANGED <<handle, stable>>
        BY <1>5, CommitKeep DEF Commit
      <3> QED BY <3>1, <3>2, <3>3
    <2>2. R # 0 /\ C = 0
      BY <1>5, SwitchBuf
    <2>3. \A q \in Task : handle[q].pc \in {"wait", "fwait"} => Due(handle[q].tid, 0, R, ts, st)
      BY <1>0, <1>d, <2>2, DueMoves
    <2> QED BY <2>1, <2>3 DEF DueInv
  <1>6. CASE commit_finish
    <2>1. UNCHANGED <<running, handle, stable>> /\ C' = 0 /\ j' = [j EXCEPT !.commit_sequence = C]
          /\ kjournald = "record" /\ logio = {}
      BY <1>6 DEF commit_finish, NoCommit, K, wait_on_record, history
    <2>2. UNCHANGED ts
      BY <1>0, <2>1 DEF JType, JSet
    <2>3. st = C
      BY <1>0, <2>1 DEF RecordInv
    <2>4. \A q \in Task : handle[q].pc \in {"wait", "fwait"} => Due(handle[q].tid, R, 0, ts, st)
      BY <1>0, <1>d, <2>3, DueMoves
    <2> QED BY <2>1, <2>2, <2>4 DEF DueInv
  <1>7. CASE Crash \/ Mount
    <2>1. handle' = [p \in Task |-> NoHandle]
      BY <1>7, DownRing, SMT
    <2>2. \A p \in Task : handle'[p].pc = "idle"
      BY <2>1 DEF NoHandle
    <2> QED BY <2>2 DEF DueInv
  <1> QED BY <1>1, <1>2, <1>3, <1>4, <1>5, <1>6, <1>7 DEF Next, Commit, IoDone

-----------------------------------------------------------------------------
(* The invariant. *)

\* A new journal: nothing runs, nothing is logged.
LEMMA InitInv ==
  ASSUME Init
  PROVE  IInv
  <1> USE Zenon
  <1>1. /\ logio = {} /\ bh = [b \in Block |-> CleanBuffer(1)] /\ j = JournalReset(2)
        /\ running = NoTrans /\ committing = NoCommit /\ cplist = {} /\ revoke = {}
        /\ use = [b \in Block |-> "meta"] /\ freed = [b \in Block |-> 0] /\ handle = [p \in Task |-> NoHandle]
        /\ kjournald = "sleep" /\ mode = "mounted"
        /\ sb = [start |-> 1, sequence |-> 2] /\ info = [next |-> 0, end |-> 0]
        /\ stable = FileSystem(1, use, disk) /\ pending = stable
    BY DEF Init
  <1>c. /\ 0 \in Nat /\ 1 \in Nat /\ 2 \in Nat \ {0} /\ LogLen \in Nat \ {0} /\ NoBlock \in Block \cup {NoBlock}
        /\ 0 \in 0 .. LogLen /\ 0 <= MaxBuffers /\ 0 <= 2 * MaxBuffers /\ LogLen \in 1 .. LogLen /\ LogLen - LogLen = 0
        /\ 1 \in 1 .. LogLen /\ 0 \in 0 .. LogLen - 1 /\ 1 + 0 <= LogLen /\ 1 + 0 = 1 /\ 2 <= 2 /\ 2 - 1 = 1
    BY JournalAssumption, SMT
  <1>j. /\ j \in JSet /\ j.head = 1 /\ j.tail = 1 /\ j.free = LogLen /\ j.tail_sequence = 2
        /\ j.transaction_sequence = 2 /\ j.commit_sequence = 1 /\ j.commit_request = 1
    BY <1>1, <1>c, ResetIs
  <1>r. /\ running.tid = 0 /\ running.credits = 0 /\ running.updates = 0 /\ running.locked = FALSE
        /\ committing.tid = 0 /\ committing.credits = 0 /\ committing.iobufs = << >> /\ DOMAIN committing.iobufs = {}
    <2>1. DOMAIN << >> = {}
      BY SMT
    <2> QED BY <1>1, <2>1 DEF NoTrans, NoCommit
  <1>h. \A p \in Task : handle[p].pc = "idle" /\ handle[p].credits = 0 /\ handle[p].need = 0
    BY <1>1 DEF NoHandle
  <1>b. BufType /\ \A b \in Block : BufOK(bh[b], use[b], freed[b], running.tid, committing.tid, kjournald, j.commit_sequence)
    BY <1>1, <1>c, <1>j, CleanBufOK DEF BufType
  <1>2. Types
    <2>1. RunType /\ CommitType
      <3>1. << >> \in Seq([b : Block, pos : Int])
        BY SMT
      <3> QED BY <1>1, <1>c, <3>1 DEF RunType, CommitType, NoTrans, NoCommit
    <2>2. HandleType
      BY <1>1, <1>c DEF HandleType, HSet, NoHandle, Pcs
    <2>3. ListType /\ StageType /\ JType
      BY <1>1, <1>j DEF ListType, StageType, JType
    <2>4. FsType
      <3>1. use \in Uses
        BY <1>1 DEF Uses
      <3>2. stable.tid = 1 /\ stable.use = use
        BY <1>1 DEF FileSystem
      <3> QED BY <1>1, <1>c, <3>1, <3>2 DEF FsType
    <2>5. ScanType
      BY <1>1, <1>c DEF ScanType
    <2> QED BY <1>b, <2>1, <2>2, <2>3, <2>4, <2>5 DEF Types
  <1>3. Down
    BY <1>1 DEF Down
  <1>4. TidInv
    BY <1>j, <1>r, SMT DEF TidInv
  <1>5. StageInv
    BY <1>1, <1>r DEF StageInv
  <1>6. Cardinality({}) = 0
    BY FS_EmptySet
  <1>7. HandleInv
    <2>1. OpenTasks = {}
      BY <1>h DEF OpenTasks, Open
    <2> QED BY <1>h, <1>r, <1>6, <2>1 DEF HandleInv, Open
  <1>8. BufInv /\ ShadowInv
    <2>1. BufInv
      BY <1>b DEF BufInv
    <2>2. \A b \in Block : bh[b].jlist # "Shadow"
      BY <1>1, <1>b DEF BufOK
    <2> QED BY <1>r, <2>1, <2>2 DEF ShadowInv
  <1>9. CreditInv
    <2>1. Mine = {} /\ Tokens = {}
      BY <1>h, <1>r DEF Mine, Tokens, CreditsOf, Open
    <2>2. Cardinality(Mine) + Cardinality(Tokens) <= running.credits
      BY <1>r, <1>6, <2>1, SMT
    <2> QED BY <1>1, <1>c, <1>h, <1>r, <2>2 DEF CreditInv
  <1>10. RingInv
    <2>1. Wrap(1, 0) = 1
      BY <1>c, WrapIs, SMT
    <2> QED BY <1>1, <1>c, <1>j, <1>r, <2>1 DEF RingInv
  <1>11. TailInv /\ CpInv
    <2>1. FirstTid = 2
      BY <1>1, <1>j, <1>r DEF FirstTid
    <2> QED BY <1>1, <1>c, <1>j, <2>1 DEF TailInv, CpInv
  <1>12. SpaceInv
    <2>1. NeedC = 0 /\ NeedR = 0
      BY <1>1, <1>r, SMT DEF NeedC, NeedR
    <2>2. Waiters = {}
      BY <1>h DEF Waiters
    <2>3. Cardinality(Task) \in Nat
      BY TaskSets
    <2>4. Slack = Cardinality(Task)
      BY <1>6, <2>2, <2>3, SMT DEF Slack
    <2>5. Cardinality(Task) + 6 <= Reserved /\ Reserved <= LogLen /\ Reserved \in Nat
      BY JournalAssumption, SpaceAssumption, SMT
    <2>6. j.free >= 1 + NeedC + NeedR + Slack
      BY <1>c, <1>j, <2>1, <2>3, <2>4, <2>5, SMT
    <2> QED BY <2>2, <2>6 DEF SpaceInv
  <1>13. RecordInv /\ DueInv
    BY <1>1, <1>h DEF RecordInv, DueInv
  <1> QED BY <1>2, <1>3, <1>4, <1>5, <1>7, <1>8, <1>9, <1>10, <1>11, <1>12, <1>13 DEF IInv

\* Every step keeps the inductive invariant.
LEMMA NextInv ==
  ASSUME IInv, Next
  PROVE  IInv'
  <1>1. Types'
    BY Ids, HandleTypes, ListTypes, FsTypes, ScanTypes, StageTypes, BufStep, Zenon DEF Types, Kinds
  <1>2. TidInv' /\ BufInv' /\ ShadowInv' /\ CpInv'
    BY Ids, BufStep
  <1> QED BY <1>1, <1>2, DownStep, StageStep, HandleStep, CreditStep, RingStep, TailStep, SpaceStep, RecordStep,
             DueStep, Zenon DEF IInv

\* So does a step that changes nothing.
LEMMA Stutter ==
  ASSUME IInv, UNCHANGED vars
  PROVE  IInv'
  <1> USE Zenon
  <1>1. UNCHANGED <<sb, logio, bh, j, running, committing, cplist, revoke, use, freed, handle, kjournald, mode, info,
                    stable, pending>>
    BY DEF vars, memory, device, history
  <1>2. Types'
    BY <1>1 DEF IInv, Types, RunType, CommitType, JType, HandleType, ListType, FsType, ScanType, StageType, BufType
  <1>3. Down' /\ TidInv' /\ StageInv'
    BY <1>1 DEF IInv, Down, TidInv, StageInv
  <1>4. HandleInv' /\ BufInv' /\ ShadowInv' /\ CpInv'
    BY <1>1 DEF IInv, HandleInv, OpenTasks, BufInv, ShadowInv, CpInv
  <1>5. CreditInv'
    BY <1>1 DEF IInv, CreditInv, Mine, Tokens, Logged
  <1>6. RingInv'
    BY <1>1 DEF IInv, RingInv, Dist
  <1>7. TailInv'
    BY <1>1 DEF IInv, TailInv, FirstTid, Oldest, NextTid
  <1>8. SpaceInv'
    BY <1>1 DEF IInv, SpaceInv, NeedC, NeedR, Slack, Granted, Waiters
  <1>9. RecordInv' /\ DueInv'
    BY <1>1 DEF IInv, RecordInv, DueInv
  <1> QED BY <1>2, <1>3, <1>4, <1>5, <1>6, <1>7, <1>8, <1>9 DEF IInv

\* The inductive invariant holds of every behaviour of the journal: commits, checkpoints, crashes and
\* mounts included.
THEOREM Invariant == Spec => []IInv
  <1>1. Init => IInv
    BY InitInv
  <1>2. IInv /\ [Next]_vars => IInv'
    BY NextInv, Stutter
  <1> QED BY <1>1, <1>2, PTL DEF Spec

-----------------------------------------------------------------------------
(* The properties. *)

\* Log_wait_commit lets a task go only when its transaction is permanent: a
\* transaction that the log does not hold yet is the running or the committing
\* one, and both are newer than j_commit_sequence.
THEOREM SyncIsDurable == Spec => []SyncedIsDurable
  <1>1. ASSUME IInv PROVE SyncedIsDurable
    <2>0. TidType /\ TidInv /\ DueInv /\ \A p \in Task : handle[p].tid \in Nat
      BY <1>1, BufFacts, Zenon DEF IInv, HandleType, HSet
    <2>1. ASSUME NEW p \in Task, At(p, "wait") \/ At(p, "fwait"), j.commit_sequence >= handle[p].tid
          PROVE  handle[p].tid <= stable.tid
      <3>1. Due(handle[p].tid, running.tid, committing.tid, j.transaction_sequence, stable.tid)
        BY <2>0, <2>1, Zenon DEF DueInv, At
      <3> QED BY <2>0, <2>1, <3>1 DEF Due, TidType, TidInv
    <2> QED BY <2>1, Zenon DEF SyncedIsDurable
  <1> QED BY <1>1, Invariant, PTL

\* Journal_next_log_block never finds the log full, and j_free is the distance
\* from the head of the log to its tail: whatever the commits under way still
\* have to write, they have been granted.
THEOREM LogIsNeverFull == Spec => []LogNeverFull
  <1>1. ASSUME IInv PROVE LogNeverFull
    <2>1. RingInv /\ j.free >= 1
      BY <1>1, RingFacts
    <2> QED BY <2>1, Zenon DEF RingInv, LogNeverFull
  <1> QED BY <1>1, Invariant, PTL

\* A task in log_wait_for_space always has something to wait for: when nothing
\* is committing and no buffer is left to checkpoint, the tail of the log is its
\* head, and an empty log has room for two transactions.
THEOREM SpaceCanBeReclaimed == Spec => []SpaceIsReclaimable
  <1>1. ASSUME IInv PROVE SpaceIsReclaimable
    <2>0. /\ ListType /\ TailInv /\ CpInv /\ CreditInv /\ HandleType
      BY <1>1, RingFacts, BufFacts, Zenon DEF IInv
    <2>1. ASSUME NEW p \in Task, log_space_left < handle[p].need, TailIsOldest, committing.tid = 0, cplist = {}
          PROVE  FALSE
      <3> DEFINE e == (LogLen - Reserved) \div 8
                 left == LogLen - Reserved
      <3>1. FirstTid = NextTid
        BY <2>1, Zenon DEF FirstTid, NextTid
      <3>2. j.free = LogLen
        BY <2>0, <2>1, <3>1, Zenon DEF TailInv, TailIsOldest
      <3>3. /\ 2 * MaxBuffers <= left - e /\ left \in Nat /\ 2 * MaxBuffers \in Nat /\ 2 <= 2 * MaxBuffers
        BY JournalAssumption, SpaceAssumption
      <3>4. log_space_left = IF left <= 0 THEN 0 ELSE left - e
        BY <3>2, Zenon DEF log_space_left
      <3>5. e \in Nat
        <4> HIDE DEF left
        <4>1. e = left \div 8
          BY DEF left
        <4> QED BY <3>3, <4>1
      <3>6. handle[p].need \in Nat /\ handle[p].need <= 2 * MaxBuffers
        BY <2>0, Zenon DEF CreditInv, HandleType, HSet
      <3> HIDE DEF e, left
      <3> QED BY <2>1, <3>3, <3>4, <3>5, <3>6
    <2>2. ASSUME cplist # {} PROVE \E b \in Block : bh[b].cp = Oldest.tid
      <3>1. Oldest \in cplist
        BY <2>0, <2>2, OldestIs, Zenon
      <3> QED BY <2>0, <3>1, Zenon DEF CpInv
    <2> QED BY <2>1, <2>2, Zenon DEF SpaceIsReclaimable
  <1> QED BY <1>1, Invariant, PTL

\* The J_ASSERTs of journal_commit_transaction.
LEMMA CommitAssertsHold ==
  ASSUME IInv
  PROVE  CommitAsserts
  <1> USE Zenon
  <1>0. /\ TidType /\ TidInv /\ StageInv /\ CreditInv
        /\ \A b \in Block :
             /\ Buffer(bh[b]) /\ freed[b] \in Nat
             /\ BufOK(bh[b], use[b], freed[b], running.tid, committing.tid, kjournald, j.commit_sequence)
    BY BufFacts DEF IInv
  <1>1. ASSUME K("sleep"), j.commit_sequence # j.commit_request
        PROVE  running.tid # 0 /\ committing.tid = 0 /\ ~running.locked
    BY <1>0, <1>1 DEF StageInv, TidInv, K
  <1>2. running.credits <= MaxBuffers
    BY <1>0 DEF CreditInv
  <1>3. ASSUME NEW b \in Block, committing.tid # 0, bh[b].trans = committing.tid
        PROVE  /\ bh[b].jlist \in {"Metadata", "Shadow"} => bh[b].jdirty
               /\ K("record") => /\ bh[b].jlist = "Forget" /\ bh[b].cp # committing.tid
                                 /\ bh[b].jdirty \/ (~bh[b].dirty /\ bh[b].next = 0)
    <2>1. bh[b].jlist \in {"Metadata", "Shadow"} => bh[b].jdirty
      BY <1>0 DEF BufOK
    <2>2. ASSUME K("record") PROVE bh[b].jlist = "Forget"
      BY <1>0, <1>3, <2>2 DEF BufOK, Buffer, Lists, K
    <2>3. bh[b].cp # committing.tid
      <3>1. bh[b].cp \in Nat /\ bh[b].cp <= j.commit_sequence /\ j.commit_sequence < committing.tid
        BY <1>0, <1>3 DEF BufOK, Buffer, TidInv
      <3> QED BY <1>0, <3>1, SMT DEF TidType
    <2>4. ASSUME bh[b].jlist = "Forget" PROVE bh[b].jdirty \/ (~bh[b].dirty /\ bh[b].next = 0)
      BY <1>0, <1>3, <2>4 DEF BufOK
    <2> QED BY <2>1, <2>2, <2>3, <2>4, SMT
  <1> QED BY <1>1, <1>2, <1>3 DEF CommitAsserts

\* The J_ASSERTs of do_get_write_access, journal_get_create_access,
\* journal_dirty_metadata and journal_forget.
LEMMA HandleAssertsHold ==
  ASSUME IInv
  PROVE  HandleAsserts
  <1> USE Zenon
  <1>0. /\ TidType /\ TidInv /\ HandleInv
        /\ \A b \in Block :
             BufOK(bh[b], use[b], freed[b], running.tid, committing.tid, kjournald, j.commit_sequence)
    BY BufFacts
  <1>1. running.tid # 0 => running.tid # committing.tid
    BY <1>0, SMT DEF TidInv, TidType
  <1>2. ASSUME NEW p \in Task, At(p, "open") \/ At(p, "access")
        PROVE  handle[p].tid = running.tid /\ running.tid # 0
    BY <1>0, <1>2 DEF HandleInv, Open, At
  <1>3. ASSUME NEW p \in Task, NEW b \in Block, At(p, "open") \/ At(p, "access")
        PROVE  /\ bh[b].trans \in {0, handle[p].tid, committing.tid} /\ bh[b].next \in {0, handle[p].tid}
               /\ bh[b].trans = handle[p].tid => bh[b].frozen = 0
    BY <1>0, <1>1, <1>2, <1>3 DEF BufOK
  <1>4. ASSUME NEW p \in Task, NEW b \in Block, At(p, "access"), handle[p].b = b, bh[b].trans # handle[p].tid
        PROVE  bh[b].trans # 0 /\ bh[b].next = handle[p].tid
    <2>1. running.tid \in {bh[b].trans, bh[b].next}
      BY <1>0, <1>4 DEF HandleInv, At
    <2> QED BY <1>0, <1>2, <1>4, <2>1 DEF BufOK
  <1>5. ASSUME NEW p \in Task, NEW b \in Block, At(p, "open"), Allocatable(b)
        PROVE  bh[b].next = 0 /\ (bh[b].trans \in {0, handle[p].tid} \/ bh[b].jlist = "Forget")
    BY <1>0, <1>2, <1>5 DEF BufOK, Allocatable
  <1> QED BY <1>3, <1>4, <1>5 DEF HandleAsserts

\* The J_ASSERTs of journal_flush, and of log_do_checkpoint.
LEMMA LogAssertsHold ==
  ASSUME IInv
  PROVE  FlushAsserts /\ CheckpointAsserts
  <1> USE Zenon
  <1>0. /\ ListType /\ TailInv /\ CpInv /\ RingInv /\ HandleInv /\ j.tail \in 1 .. LogLen /\ LogLen \in Nat
        /\ \A b \in Block :
             BufOK(bh[b], use[b], freed[b], running.tid, committing.tid, kjournald, j.commit_sequence)
    BY RingFacts, BufFacts DEF IInv
  <1>1. ASSUME NEW p \in Task, At(p, "fckpt"), cplist = {}, TailIsOldest
        PROVE  /\ running.tid = 0 /\ committing.tid = 0
               /\ j.head = j.tail /\ j.tail_sequence = j.transaction_sequence
    <2>1. running.tid = 0 /\ committing.tid = 0
      BY <1>0, <1>1 DEF HandleInv, At
    <2>2. j.tail_sequence = j.transaction_sequence /\ NextTid = j.transaction_sequence
      BY <1>1, <2>1 DEF TailIsOldest, FirstTid, NextTid
    <2>3. j.free = LogLen
      BY <1>0, <2>2 DEF TailInv
    <2>4. j.head = Wrap(j.tail, 0)
      <3>1. LogLen - j.free = 0
        BY <1>0, <2>3, SMT
      <3> QED BY <1>0, <3>1 DEF RingInv
    <2>5. Wrap(j.tail, 0) = j.tail
      <3>1. 0 \in 0 .. LogLen - 1 /\ j.tail + 0 <= LogLen /\ j.tail + 0 = j.tail
        BY <1>0, SMT
      <3> QED BY <1>0, <3>1, WrapIs, SMT
    <2> QED BY <2>1, <2>2, <2>4, <2>5
  <1>2. ASSUME NEW p \in Task, cplist # {}, ToFlush \cup ToDrop = {}
        PROVE  \E b \in Block : bh[b].cp = Oldest.tid /\ (bh[b].locked \/ bh[b].trans # 0)
    <2>1. Oldest \in cplist
      BY <1>0, <1>2, OldestIs
    <2>2. PICK b \in Block : bh[b].cp = Oldest.tid
      BY <1>0, <2>1 DEF CpInv
    <2>3. ASSUME ~bh[b].locked, bh[b].trans = 0 PROVE b \in ToFlush \cup ToDrop
      <3>1. bh[b].jlist = "None"
        BY <1>0, <2>3 DEF BufOK
      <3> QED BY <2>2, <2>3, <3>1 DEF ToFlush, ToDrop, Written
    <2> QED BY <1>2, <2>2, <2>3
  <1> QED BY <1>1, <1>2 DEF FlushAsserts, CheckpointAsserts

\* No J_ASSERT of the journal fails, wherever the code is about to evaluate it.
THEOREM JAssertsHold == Spec => []JAsserts
  <1>1. IInv => JAsserts
    BY CommitAssertsHold, HandleAssertsHold, LogAssertsHold, Zenon DEF JAsserts
  <1> QED BY <1>1, Invariant, PTL
=============================================================================
