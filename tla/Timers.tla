------------------------------- MODULE Timers -------------------------------
(***************************************************************************)
(* The kernel's timers (kernel/timer.c, SMP build): a wheel of NOOF_TVECS  *)
(* vectors of lists, turned by run_timer_list from the timer bottom half,  *)
(* while other CPUs and the handlers add, modify and delete timers.        *)
(*                                                                         *)
(* jiffies and expires are words that wrap.  The vectors cover the word    *)
(* exactly, as 8 + 4 * 6 bits cover 32.  One step is one critical section  *)
(* of timerlist_lock, or one iteration inside run_timer_list's, during     *)
(* which only the clock and a spinning del_timer_sync move.                *)
(***************************************************************************)
EXTENDS Integers, Sequences, FiniteSets, Functions

CONSTANTS
  Timer,         \* the timers
  NoTimer,       \* no timer is running, or being deleted
  Deleter,       \* the CPUs that call del_timer_sync
  TVR_BITS, TVN_BITS, NOOF_TVECS,
  Delays,        \* expiry times, relative to jiffies, that callers ask for
  MaxLag         \* bound: ticks by which the bottom half may lag

TVR_SIZE == 2^TVR_BITS
TVN_SIZE == 2^TVN_BITS
Span(n)  == 2^(TVR_BITS + (n - 1) * TVN_BITS)    \* ticks that vectors 1 to n cover
WORD     == Span(NOOF_TVECS)

\* Every expiry time is less than half a word from the wheel's time, before and
\* after a tick; see internal_add_timer's test for times in the past.
ASSUME TimerAssumption ==
  /\ NoTimer \notin Timer
  /\ TVR_BITS \in Nat \ {0} /\ TVN_BITS \in Nat \ {0}
  /\ NOOF_TVECS \in Nat \ {0, 1}
  /\ MaxLag \in Nat /\ MaxLag < WORD \div 2
  /\ \A d \in Delays : d \in Int /\ d - 1 > -(WORD \div 2) /\ d + MaxLag < WORD \div 2

\* What powers of two are, whatever the numbers of bits.
ASSUME SizeAssumption ==
  /\ TVR_SIZE \in Nat /\ TVR_SIZE > 1 /\ TVN_SIZE \in Nat /\ TVN_SIZE > 1
  /\ Span(1) = TVR_SIZE
  /\ \A n \in 1 .. NOOF_TVECS : Span(n) \in Nat \ {0}
  /\ \A n \in 2 .. NOOF_TVECS : Span(n) = TVN_SIZE * Span(n - 1)

VARIABLES
  jiffies, timer_jiffies,
  lists,           \* the timers on each list: the wheel's, and "queued"
  index,           \* tv->index of each vector
  expires,         \* timer->expires
  pending,         \* the timers with list.next # NULL
  running_timer,   \* the timer whose handler runs
  bh,              \* TIMER_BH is marked
  pc,              \* where run_timer_list is
  tvec,            \* n of run_timer_list: the vector it cascades
  deleting,        \* the timer each deleter works on
  dpc              \* where each deleter is

wheelvars == <<lists, pending, expires>>
delvars   == <<deleting, dpc>>
vars      == <<jiffies, timer_jiffies, wheelvars, index, running_timer, bh,
               pc, tvec, delvars>>

Queued == <<0, 0>>                       \* the list head on the stack
Tv1    == {1} \X (0 .. TVR_SIZE - 1)
Heads  == {Queued} \cup Tv1 \cup ((2 .. NOOF_TVECS) \X (0 .. TVN_SIZE - 1))

\* The difference of two words, as a signed word.
Signed(x) == LET w == x % WORD IN IF w < WORD \div 2 THEN w ELSE w - WORD

Init ==
  /\ jiffies = 0 /\ timer_jiffies = 0
  /\ lists = [h \in Heads |-> <<>>]
  /\ index = [n \in 1 .. NOOF_TVECS |-> 0]
  /\ expires = [t \in Timer |-> 0]
  /\ pending = {}
  /\ running_timer = NoTimer
  /\ bh = FALSE
  /\ pc = "idle" /\ tvec = 1
  /\ deleting = [c \in Deleter |-> NoTimer]
  /\ dpc = [c \in Deleter |-> "idle"]

-----------------------------------------------------------------------------
\* Who holds timerlist_lock follows from where run_timer_list is; all other
\* critical sections are single steps.
Unlocked == pc \in {"idle", "fn"}

\* run_timer_list_running # NULL
InTick == pc \in {"repeat", "fn"}

\* The list of vector n a timer expiring at e belongs to.
SlotOf(e, n) ==
  IF n = 1 THEN <<1, e % TVR_SIZE>>
  ELSE <<n, (e \div Span(n - 1)) % TVN_SIZE>>

\* Mutant: the ranges of the vectors one too long.
PlaceOffByOne(e, now, cur) ==
  LET idx    == (e - now) % WORD
      levels == {n \in 1 .. NOOF_TVECS - 1 : idx <= Span(n)}
  IN IF levels # {} THEN SlotOf(e, CHOOSE n \in levels : \A m \in levels : n <= m)
     ELSE IF Signed(idx) < 0 THEN <<1, cur>>
     ELSE SlotOf(e, NOOF_TVECS)

\* internal_add_timer's choice of the list when the wheel stands at time now
\* with tv1.index = cur.
Place(e, now, cur) ==
  LET idx    == (e - now) % WORD
      levels == {n \in 1 .. NOOF_TVECS - 1 : idx < Span(n)}
  IN IF levels # {} THEN SlotOf(e, CHOOSE n \in levels : \A m \in levels : n <= m)
     ELSE IF Signed(idx) < 0 THEN <<1, cur>>
     ELSE SlotOf(e, NOOF_TVECS)

list_add_tail(ls, h, t) == [ls EXCEPT ![h] = Append(@, t)]

internal_add_timer(ls, t, e) ==
  list_add_tail(ls, IF InTick THEN Queued ELSE Place(e, timer_jiffies, index[1]), t)

\* list_del of the entry at position i.
list_del(s, i) == SubSeq(s, 1, i - 1) \o SubSeq(s, i + 1, Len(s))

\* The timer may be on a list; it is there once (PendingInv).
detach_timer(ls, t) ==
  [h \in Heads |-> LET at == {i \in 1 .. Len(ls[h]) : ls[h][i] = t}
                   IN  IF at = {} THEN ls[h] ELSE list_del(ls[h], CHOOSE i \in at : TRUE)]

-----------------------------------------------------------------------------
(* The clock interrupt. *)

do_timer ==
  /\ Signed(jiffies - timer_jiffies) < MaxLag
  /\ jiffies' = (jiffies + 1) % WORD
  /\ bh' = TRUE
  /\ UNCHANGED <<timer_jiffies, wheelvars, index, running_timer, pc, tvec, delvars>>

(* Callers on any CPU, and handlers. *)

\* While a timer is being deleted synchronously only its handler restarts it.
MayStart(t) ==
  \/ \A c \in Deleter : deleting[c] # t
  \/ pc = "fn" /\ running_timer = t

\* The caller sets expires first.  Adding a pending timer is refused ("bug:
\* kernel timer added twice") and changes nothing.
add_timer(t, d) ==
  /\ Unlocked /\ MayStart(t)
  /\ t \notin pending
  /\ expires' = [expires EXCEPT ![t] = (jiffies + d) % WORD]
  /\ lists' = internal_add_timer(lists, t, expires'[t])
  /\ pending' = pending \cup {t}
  /\ UNCHANGED <<jiffies, timer_jiffies, index, running_timer, bh, pc, tvec, delvars>>

\* Mutant: the timer is not taken off its old list.
mod_timerNoDetach(t, d) ==
  /\ Unlocked /\ MayStart(t)
  /\ expires' = [expires EXCEPT ![t] = (jiffies + d) % WORD]
  /\ lists' = internal_add_timer(lists, t, expires'[t])
  /\ pending' = pending \cup {t}
  /\ UNCHANGED <<jiffies, timer_jiffies, index, running_timer, bh, pc, tvec, delvars>>

mod_timer(t, d) ==
  /\ Unlocked /\ MayStart(t)
  /\ expires' = [expires EXCEPT ![t] = (jiffies + d) % WORD]
  /\ lists' = internal_add_timer(detach_timer(lists, t), t, expires'[t])
  /\ pending' = pending \cup {t}
  /\ UNCHANGED <<jiffies, timer_jiffies, index, running_timer, bh, pc, tvec, delvars>>

del_timer(t) ==
  /\ Unlocked
  /\ lists' = detach_timer(lists, t)
  /\ pending' = pending \ {t}
  /\ UNCHANGED <<jiffies, timer_jiffies, expires, index, running_timer, bh, pc,
                 tvec, delvars>>

-----------------------------------------------------------------------------
(* del_timer_sync *)

DelSyncCall(c, t) ==
  /\ dpc[c] = "idle"
  /\ deleting' = [deleting EXCEPT ![c] = t]
  /\ dpc' = [dpc EXCEPT ![c] = "lock"]
  /\ UNCHANGED <<jiffies, timer_jiffies, wheelvars, index, running_timer, bh, pc, tvec>>

\* One round: detach, and look whether the handler runs.
DelSyncRound(c) ==
  /\ dpc[c] = "lock" /\ Unlocked
  /\ lists' = detach_timer(lists, deleting[c])
  /\ pending' = pending \ {deleting[c]}
  /\ dpc' = [dpc EXCEPT ![c] = IF running_timer = deleting[c] THEN "spin" ELSE "done"]
  /\ UNCHANGED <<jiffies, timer_jiffies, expires, index, running_timer, bh, pc,
                 tvec, deleting>>

\* Mutant: returns once the handler is done, without another round.
DelSyncSpinOnce(c) ==
  /\ dpc[c] = "spin" /\ running_timer # deleting[c]
  /\ dpc' = [dpc EXCEPT ![c] = "done"]
  /\ UNCHANGED <<jiffies, timer_jiffies, wheelvars, index, running_timer, bh, pc,
                 tvec, deleting>>

\* timer_synchronize sees, without the lock, that it no longer runs.
DelSyncSpin(c) ==
  /\ dpc[c] = "spin" /\ running_timer # deleting[c]
  /\ dpc' = [dpc EXCEPT ![c] = "lock"]
  /\ UNCHANGED <<jiffies, timer_jiffies, wheelvars, index, running_timer, bh, pc,
                 tvec, deleting>>

\* The caller has disposed of the timer, or allows it to be used again.
DelSyncReturn(c) ==
  /\ dpc[c] = "done"
  /\ dpc' = [dpc EXCEPT ![c] = "idle"]
  /\ deleting' = [deleting EXCEPT ![c] = NoTimer]
  /\ UNCHANGED <<jiffies, timer_jiffies, wheelvars, index, running_timer, bh, pc, tvec>>

-----------------------------------------------------------------------------
(* run_timer_list *)

\* The bottom half starts: its mark is cleared before it runs.
BhStart ==
  /\ pc = "idle" /\ bh
  /\ bh' = FALSE
  /\ pc' = "loop"
  /\ UNCHANGED <<jiffies, timer_jiffies, wheelvars, index, running_timer, tvec, delvars>>

\* The timers queued during the last tick are in the wheel, and it is not ahead of
\* the clock.  When tv1 has come full circle tv2 is cascaded first.
TickBegin ==
  /\ pc = "loop" /\ lists[Queued] = <<>>
  /\ Signed(jiffies - timer_jiffies) >= 0
  /\ IF index[1] = 0 THEN pc' = "cascade" /\ tvec' = 2
                     ELSE pc' = "repeat" /\ UNCHANGED tvec
  /\ UNCHANGED <<jiffies, timer_jiffies, wheelvars, index, running_timer, bh, delvars>>

\* cascade_timers: an iteration of its loop re-adds a timer of the vector's
\* current list.
Cascade ==
  LET head == <<tvec, index[tvec]>>
      t    == Head(lists[head])
  IN /\ pc = "cascade" /\ lists[head] # <<>>
     /\ lists' = internal_add_timer([lists EXCEPT ![head] = Tail(@)], t, expires[t])
     /\ UNCHANGED <<jiffies, timer_jiffies, expires, pending, index, running_timer, bh,
                    pc, tvec, delvars>>

\* Mutant: only tv2 is cascaded.
CascadeEndOne ==
  /\ pc = "cascade" /\ lists[<<tvec, index[tvec]>>] = <<>>
  /\ index' = [index EXCEPT ![tvec] = (@ + 1) % TVN_SIZE]
  /\ pc' = "repeat" /\ tvec' = 1
  /\ UNCHANGED <<jiffies, timer_jiffies, wheelvars, running_timer, bh, delvars>>

\* And its end.  The next vector follows if this one was at its list 0.
CascadeEnd ==
  /\ pc = "cascade" /\ lists[<<tvec, index[tvec]>>] = <<>>
  /\ index' = [index EXCEPT ![tvec] = (@ + 1) % TVN_SIZE]
  /\ IF index'[tvec] = 1 /\ tvec < NOOF_TVECS
     THEN tvec' = tvec + 1 /\ UNCHANGED pc
     ELSE tvec' = 1 /\ pc' = "repeat"
  /\ UNCHANGED <<jiffies, timer_jiffies, wheelvars, running_timer, bh, delvars>>

Current == lists[<<1, index[1]>>]

\* Detach the first timer that is due, and call its handler unlocked.
TickRun ==
  /\ pc = "repeat" /\ Current # <<>>
  /\ lists' = detach_timer(lists, Head(Current))
  /\ pending' = pending \ {Head(Current)}
  /\ running_timer' = Head(Current)
  /\ pc' = "fn"
  /\ UNCHANGED <<jiffies, timer_jiffies, expires, index, bh, tvec, delvars>>

\* fn(data) returns.
FnReturn ==
  /\ pc = "fn"
  /\ running_timer' = NoTimer
  /\ pc' = "repeat"
  /\ UNCHANGED <<jiffies, timer_jiffies, wheelvars, index, bh, tvec, delvars>>

TickEnd ==
  /\ pc = "repeat" /\ Current = <<>>
  /\ timer_jiffies' = (timer_jiffies + 1) % WORD
  /\ index' = [index EXCEPT ![1] = (@ + 1) % TVR_SIZE]
  /\ pc' = "loop"
  /\ UNCHANGED <<jiffies, wheelvars, running_timer, bh, tvec, delvars>>

\* Timers added during the tick are put in the wheel once it has moved on.
TickRequeue ==
  LET t == Head(lists[Queued])
  IN /\ pc = "loop" /\ lists[Queued] # <<>>
     /\ lists' = internal_add_timer([lists EXCEPT ![Queued] = Tail(@)], t, expires[t])
     /\ UNCHANGED <<jiffies, timer_jiffies, expires, pending, index, running_timer, bh,
                    pc, tvec, delvars>>

BhEnd ==
  /\ pc = "loop" /\ lists[Queued] = <<>>
  /\ Signed(jiffies - timer_jiffies) < 0
  /\ pc' = "idle"
  /\ UNCHANGED <<jiffies, timer_jiffies, wheelvars, index, running_timer, bh, tvec, delvars>>

-----------------------------------------------------------------------------
run_timer_list ==
  \/ BhStart \/ TickBegin \/ Cascade \/ CascadeEnd \/ TickRun \/ FnReturn
  \/ TickEnd \/ TickRequeue \/ BhEnd

DelSyncStep(c) == DelSyncRound(c) \/ DelSyncSpin(c) \/ DelSyncReturn(c)

Next ==
  \/ do_timer
  \/ run_timer_list
  \/ \E t \in Timer :
       \/ \E d \in Delays : add_timer(t, d) \/ mod_timer(t, d)
       \/ del_timer(t)
       \/ \E c \in Deleter : DelSyncCall(c, t)
  \/ \E c \in Deleter : DelSyncStep(c)

Spec == Init /\ [][Next]_vars

-----------------------------------------------------------------------------
\* The lists on which a timer is.
On(t) == {h \in Heads : \E i \in DOMAIN lists[h] : lists[h][i] = t}

\* timer_pending tells the truth: a timer is pending exactly when it is on a
\* list, on one list, and once, while lists are cascaded and requeued too.
PendingInv ==
  /\ \A t \in Timer :
       /\ t \in pending <=> On(t) # {}
       /\ \A h, k \in On(t) : h = k
  /\ \A h \in Heads : IsInjective(lists[h])

\* Handlers never run before their time: when run_timer_list detaches a timer
\* to call its handler, timer->expires is not after timer_jiffies.
NeverEarly ==
  [][\A t \in Timer :
       running_timer' = t /\ running_timer # t
         => Signed(timer_jiffies - expires[t]) >= 0]_vars

\* Nor late: no timer whose time is past stays behind in the wheel.  Only those
\* of the current list, which this tick will run, and those added during the
\* tick may be past.
NeverLate ==
  \A t \in pending :
    Signed(expires[t] - timer_jiffies) < 0
      => On(t) \subseteq {Queued, <<1, index[1]>>}

\* What the comment of del_timer_sync promises: "Upon exit the timer is not
\* queued and handler is not running on any CPU", even if the handler restarts
\* the timer every time.
DelSyncInv ==
  \A c \in Deleter :
    dpc[c] = "done" => deleting[c] \notin pending /\ running_timer # deleting[c]

=============================================================================
