---------------------------- MODULE TimerProofs ----------------------------
(***************************************************************************)
(* Theorems about Timers, for any timers, deleters, delays, lag and        *)
(* dimensions of the wheel: timer_pending tells the truth, del_timer_sync  *)
(* keeps its promise, no handler runs early and no timer is left behind.   *)
(*                                                                         *)
(* The first two rest on the lists: each pending timer is in one place,    *)
(* and what run_timer_list finds on a list is pending.  The others rest    *)
(* on where each timer is.  On vector n it is due after the vector is      *)
(* cascaded next and before it comes full circle (RightN); the vector's    *)
(* index is the list it will be cascaded from (IndexInv); and since that   *)
(* list alone holds what is due in the coming round, what stays behind     *)
(* has a full round to go (PlacedCascaded).                                *)
(***************************************************************************)
EXTENDS Timers, FiniteSetTheorems, TLAPS

\* The types.  A handler runs, as running_timer, exactly while pc is "fn".
Types ==
  /\ jiffies \in Int /\ timer_jiffies \in Int
  /\ index \in [1 .. NOOF_TVECS -> Nat]
  /\ index[1] < TVR_SIZE /\ \A n \in 2 .. NOOF_TVECS : index[n] < TVN_SIZE
  /\ expires \in [Timer -> Int]
  /\ pc \in {"idle", "loop", "cascade", "repeat", "fn"}
  /\ tvec \in 1 .. NOOF_TVECS /\ (pc = "cascade" => tvec # 1)
  /\ running_timer \in IF pc = "fn" THEN Timer ELSE {NoTimer}
  /\ dpc \in [Deleter -> {"idle", "lock", "spin", "done"}]
  /\ deleting \in [Deleter -> Timer \cup {NoTimer}]
  /\ \A c \in Deleter : dpc[c] # "idle" => deleting[c] \in Timer

\* The timers of P are on the lists ls, each in one place, and no others.
Linked(ls, P) ==
  /\ \A t \in P : \E h \in Heads : \E i \in 1 .. Len(ls[h]) : ls[h][i] = t
  /\ \A h \in Heads : \A i \in 1 .. Len(ls[h]) : ls[h][i] \in P
  /\ \A h, k \in Heads : \A i \in 1 .. Len(ls[h]), j \in 1 .. Len(ls[k]) :
       ls[h][i] = ls[k][j] => h = k /\ i = j

\* t is on list h.
OnList(ls, h, t) == \E i \in 1 .. Len(ls[h]) : ls[h][i] = t

\* The lists new are ls without x.
Fewer(new, ls, x) == \A h \in Heads, t \in Timer : OnList(new, h, t) => OnList(ls, h, t) /\ t # x

\* The pending timers are the linked ones.
WheelInv == lists \in [Heads -> Seq(Timer)] /\ pending \in SUBSET Timer /\ Linked(lists, pending)

-----------------------------------------------------------------------------
(* Whole numbers. *)

\* A set of numbers that is not empty has a least one: its intervals 1 .. k are
\* finite sets, of which strict inclusion is a well-founded order.
LEMMA LeastNumber ==
  ASSUME NEW K \in SUBSET Nat, K # {}
  PROVE  \E k \in K : \A j \in K : k <= j
  <1> DEFINE T == {1 .. k : k \in K}
             R == StrictSubsetOrdering(Nat)
             S == FiniteSubsetsOf(Nat)
  <1>1. T \subseteq S /\ T # {}
    <2>1. ASSUME NEW k \in K PROVE 1 .. k \in S
      BY FS_Interval DEF FiniteSubsetsOf
    <2> QED BY <2>1, Zenon
  <1>2. IsWellFoundedOn(R, S)
    BY FS_StrictSubsetOrderingWellFounded
  <1> HIDE DEF R, S, T
  <1>3. PICK x \in T : \A y \in T : ~ (<<y, x>> \in R)
    BY <1>1, <1>2, WFMin
  <1>4. PICK k \in K : x = 1 .. k
    BY DEF T
  <1>5. ASSUME NEW j \in K, ~(k <= j) PROVE FALSE
    <2>1. 1 .. j \in T
      BY DEF T
    <2>2. 1 .. j \subseteq 1 .. k /\ k \in 1 .. k /\ k \notin 1 .. j
      BY <1>5
    <2>3. <<1 .. j, 1 .. k>> \in R
      BY <2>2 DEF R, StrictSubsetOrdering
    <2> QED BY <1>3, <1>4, <2>1, <2>3
  <1> QED BY <1>5

\* What div and mod compute.
LEMMA DivMod ==
  ASSUME NEW a \in Int, NEW b \in Nat \ {0}
  PROVE  /\ a \div b \in Int /\ a % b \in 0 .. b - 1
         /\ a = b * (a \div b) + (a % b)
  OBVIOUS

\* Only the multiple 0 of b is smaller than b.
LEMMA NoMultiple ==
  ASSUME NEW b \in Nat \ {0}, NEW k \in Int, -b < b * k, b * k < b
  PROVE  k = 0
  OBVIOUS

\* Quotient and remainder are unique.
LEMMA Unique ==
  ASSUME NEW a \in Int, NEW b \in Nat \ {0}, NEW q \in Int, NEW r \in 0 .. b - 1, a = b * q + r
  PROVE  a \div b = q /\ a % b = r
  <1>1. a = b * (a \div b) + (a % b) /\ a \div b \in Int /\ a % b \in 0 .. b - 1
    BY DivMod, Zenon
  <1> DEFINE k == (a \div b) - q
  <1>2. b * k = r - (a % b)
    BY <1>1
  <1>3. k = 0
    BY <1>1, <1>2, NoMultiple
  <1> QED BY <1>1, <1>2, <1>3

\* A multiple of b changes the quotient only.
LEMMA AddMultiple ==
  ASSUME NEW a \in Int, NEW b \in Nat \ {0}, NEW k \in Int
  PROVE  (a + b * k) % b = a % b /\ (a + b * k) \div b = (a \div b) + k
  <1>1. a = b * (a \div b) + (a % b) /\ a \div b \in Int /\ a % b \in 0 .. b - 1
    BY DivMod
  <1>2. a + b * k = b * ((a \div b) + k) + (a % b) /\ (a \div b) + k \in Int /\ a + b * k \in Int
    BY <1>1
  <1> QED BY <1>1, <1>2, Unique, Zenon

\* Less than once round the circle, only no step leads back.
LEMMA SameOnCircle ==
  ASSUME NEW n \in Nat \ {0}, NEW q \in Int, NEW r \in 0 .. n - 1
  PROVE  (q + r) % n = q % n => r = 0
  <1>1. PICK d \in Int, m \in 0 .. n - 1 : m = q % n /\ q = n * d + m
    BY DivMod, Zenon
  <1>2. CASE m + r < n
    <2>1. q + r = n * d + (m + r) /\ q + r \in Int /\ m + r \in 0 .. n - 1
      BY <1>1, <1>2
    <2>2. (q + r) % n = m + r
      BY <2>1, Unique, Zenon
    <2> QED BY <1>1, <2>2
  <1>3. CASE ~(m + r < n)
    <2>1. q + r = n * (d + 1) + (m + r - n) /\ q + r \in Int /\ d + 1 \in Int /\ m + r - n \in 0 .. n - 1
      BY <1>1, <1>3
    <2>2. (q + r) % n = m + r - n
      BY <2>1, Unique, Zenon
    <2> QED BY <1>1, <2>2
  <1> QED BY <1>2, <1>3

\* The distance from now to e, forward on the circle of a word.
LEMMA Distance ==
  ASSUME NEW w \in Nat \ {0}, NEW e \in Int, NEW now \in Int
  PROVE  /\ (e - now) % w \in 0 .. w - 1
         /\ \E k \in Int : e = now + ((e - now) % w) + w * k
  <1>0. PICK x \in Int : x = e - now
    OBVIOUS
  <1>1. x = w * (x \div w) + (x % w) /\ x \div w \in Int /\ x % w \in 0 .. w - 1
    BY DivMod
  <1>2. e = now + (x % w) + w * (x \div w)
    BY <1>0, <1>1
  <1> QED BY <1>0, <1>1, <1>2, Zenon

\* No other number in that range leads from now to e.
LEMMA DistanceIs ==
  ASSUME NEW w \in Nat \ {0}, NEW e \in Int, NEW now \in Int, NEW a \in 0 .. w - 1, NEW k \in Int,
         e = now + a + w * k
  PROVE  (e - now) % w = a
  <1>1. e - now \in Int /\ e - now = w * k + a
    OBVIOUS
  <1> QED BY <1>1, Unique

\* A tick takes one off it.
LEMMA DistanceTick ==
  ASSUME NEW w \in Nat \ {0, 1}, NEW e \in Int, NEW now \in 0 .. w - 1
  PROVE  (e - ((now + 1) % w)) % w = IF (e - now) % w = 0 THEN w - 1 ELSE ((e - now) % w) - 1
  <1> DEFINE a == (e - now) % w
             b == IF a = 0 THEN w - 1 ELSE a - 1
             next == (now + 1) % w
  <1>1. a \in 0 .. w - 1 /\ \E k \in Int : e = now + a + w * k
    <2>1. now \in Int /\ w \in Nat \ {0}
      OBVIOUS
    <2> QED BY <2>1, Distance, Zenon
  <1>2. PICK k \in Int : e = now + a + w * k
    BY <1>1, Zenon
  <1>3. next = IF now + 1 = w THEN 0 ELSE now + 1
    <2>1. CASE now + 1 = w
      <3>1. now + 1 = w * 1 + 0 /\ now + 1 \in Int /\ 0 \in 0 .. w - 1
        BY <2>1
      <3> QED BY <2>1, <3>1, Unique
    <2>2. CASE now + 1 # w
      <3>1. now + 1 = w * 0 + (now + 1) /\ now + 1 \in 0 .. w - 1
        BY <2>2
      <3> QED BY <2>2, <3>1, Unique
    <2> QED BY <2>1, <2>2
  <1> HIDE DEF a, next
  <1>4. b \in 0 .. w - 1 /\ next \in Int
    BY <1>1, <1>3
  <1>5. \E j \in Int : e = next + b + w * j
    <2>1. CASE now + 1 = w /\ a = 0
      <3>1. e = next + b + w * k
        BY <1>2, <1>3, <2>1
      <3> QED BY <3>1
    <2>2. CASE now + 1 = w /\ a # 0
      <3>1. e = next + b + w * (k + 1)
        BY <1>1, <1>2, <1>3, <2>2
      <3> QED BY <3>1
    <2>3. CASE now + 1 # w /\ a = 0
      <3>1. e = next + b + w * (k - 1)
        BY <1>1, <1>2, <1>3, <2>3
      <3> QED BY <3>1
    <2>4. CASE now + 1 # w /\ a # 0
      <3>1. e = next + b + w * k
        BY <1>1, <1>2, <1>3, <2>4
      <3> QED BY <3>1
    <2> QED BY <2>1, <2>2, <2>3, <2>4
  <1>6. (e - next) % w = b
    <2> HIDE DEF b
    <2> QED BY <1>4, <1>5, DistanceIs
  <1> QED BY <1>6 DEF a, next

\* A slot of a vector depends on the expiry time modulo a word only.
LEMMA SameSlot ==
  ASSUME NEW b \in Nat \ {0}, NEW n \in Nat \ {0}, NEW x \in Int, NEW k \in Int
  PROVE  ((x + b * (n * k)) \div b) % n = (x \div b) % n
  <1>1. PICK y \in Int : y = n * k
    OBVIOUS
  <1>2. (x + b * y) \div b = (x \div b) + y /\ x \div b \in Int
    BY AddMultiple, DivMod, Zenon
  <1>3. PICK z \in Int : z = x \div b
    BY <1>2
  <1>4. (z + n * k) % n = z % n
    BY AddMultiple, Zenon
  <1> QED BY <1>1, <1>2, <1>3, <1>4, Zenon

\* The two as witnesses.
LEMMA Divided ==
  ASSUME NEW a \in Int, NEW b \in Nat \ {0}
  PROVE  \E q \in Int, r \in 0 .. b - 1 : q = a \div b /\ r = a % b /\ a = b * q + r
  BY DivMod, Zenon

\* The timers that are not on the list a vector is cascaded from are b ticks
\* away, or more.
LEMMA CascadedNot ==
  ASSUME NEW b \in Nat \ {0}, NEW n \in Nat \ {0}, NEW q \in Int, NEW a \in Nat
  PROVE  ((b * q + a) \div b) % n # q % n => b <= a
  <1>1. CASE a < b
    <2>1. b * q + a \in Int /\ a \in 0 .. b - 1
      BY <1>1
    <2>2. (b * q + a) \div b = q
      BY <2>1, Unique, Zenon
    <2> QED BY <2>2, Zenon
  <1>2. CASE ~(a < b)
    <2>1. b <= a
      BY <1>2
    <2> QED BY <2>1, Zenon
  <1> QED BY <1>1, <1>2, Zenon

\* The next vector is cascaded when this one is at its list 0.
LEMMA NextVector ==
  ASSUME NEW b \in Nat \ {0}, NEW n \in Nat \ {0, 1}, NEW q \in Int
  PROVE  ((q % n) + 1) % n = 1 <=> (b * q) % (n * b) = 0
  <1>2. PICK p \in Int, m \in 0 .. n - 1 : p = q \div n /\ m = q % n /\ q = n * p + m
    <2>1. n \in Nat \ {0}
      OBVIOUS
    <2> QED BY <2>1, Divided, Zenon
  <1>3. PICK s \in Nat \ {0} : s = n * b
    OBVIOUS
  <1>4. b * q = s * p + b * m
    <2>1. q = n * p + m
      BY <1>2
    <2>2. b * (n * p + m) = (n * b) * p + b * m
      OBVIOUS
    <2> QED BY <1>3, <2>1, <2>2, Zenon
  <1>5. b * m \in 0 .. s - 1
    <2>1. b * m >= 0 /\ b * m \in Int
      OBVIOUS
    <2>2. b * m <= b * (n - 1)
      OBVIOUS
    <2> QED BY <1>3, <2>1, <2>2
  <1>6. (b * q) % s = b * m
    <2>1. b * q \in Int
      OBVIOUS
    <2> QED BY <1>4, <1>5, <2>1, Unique, Zenon
  <1>7. b * m = 0 <=> m = 0
    OBVIOUS
  <1>8. (m + 1) % n = 1 <=> m = 0
    <2>1. CASE m = n - 1
      <3>1. m + 1 = n * 1 + 0 /\ m + 1 \in Int /\ 0 \in 0 .. n - 1
        BY <2>1
      <3> QED BY <2>1, <3>1, Unique
    <2>2. CASE m # n - 1
      <3>1. m + 1 = n * 0 + (m + 1) /\ m + 1 \in 0 .. n - 1
        BY <2>2
      <3> QED BY <3>1, Unique
    <2> QED BY <2>1, <2>2
  <1> QED BY <1>2, <1>3, <1>6, <1>7, <1>8, Zenon

\* The ticks from now until a vector whose lists span b ticks is cascaded: none
\* if it is due and has not been yet.
Until(b, now, due) == IF due /\ now % b = 0 THEN 0 ELSE b - (now % b)

\* At most b ticks.
LEMMA UntilRange ==
  ASSUME NEW b \in Nat \ {0}, NEW now \in Int, NEW due
  PROVE  Until(b, now, due) \in 0 .. b
  <1>1. now % b \in 0 .. b - 1
    BY DivMod
  <1> QED BY <1>1 DEF Until

\* The next number on a circle.
LEMMA Successor ==
  ASSUME NEW w \in Nat \ {0}, NEW now \in 0 .. w - 1
  PROVE  (now + 1) % w = IF now + 1 = w THEN 0 ELSE now + 1
  <1>1. CASE now + 1 = w
    <2>1. now + 1 = w * 1 + 0 /\ now + 1 \in Int /\ 0 \in 0 .. w - 1
      BY <1>1
    <2> QED BY <1>1, <2>1, Unique
  <1>2. CASE now + 1 # w
    <2>1. now + 1 = w * 0 + (now + 1) /\ now + 1 \in 0 .. w - 1
      BY <1>2
    <2> QED BY <1>2, <2>1, Unique
  <1> QED BY <1>1, <1>2

\* The same after many turns.
LEMMA SuccessorMod ==
  ASSUME NEW x \in Int, NEW b \in Nat \ {0}
  PROVE  ((x % b) + 1) % b = (x + 1) % b
  <1>1. PICK q \in Int, r \in 0 .. b - 1 : q = x \div b /\ r = x % b /\ x = b * q + r
    BY Divided, Zenon
  <1>2. ((r + 1) + b * q) % b = (r + 1) % b
    <2>1. r + 1 \in Int
      OBVIOUS
    <2> QED BY <2>1, AddMultiple, Zenon
  <1>3. (r + 1) + b * q = x + 1
    BY <1>1
  <1> QED BY <1>1, <1>2, <1>3, Zenon

\* A tick takes one off it.
LEMMA UntilNext ==
  ASSUME NEW b \in Nat \ {0}, NEW now \in Int, NEW next \in Int
  PROVE  next % b = (now + 1) % b => Until(b, next, TRUE) = Until(b, now, FALSE) - 1
  <1>1. PICK q \in Int, r \in 0 .. b - 1 : q = now \div b /\ r = now % b /\ now = b * q + r
    BY Divided, Zenon
  <1>2. (now + 1) % b = IF r + 1 = b THEN 0 ELSE r + 1
    <2>1. ((now % b) + 1) % b = (now + 1) % b
      BY SuccessorMod, Zenon
    <2>2. (r + 1) % b = IF r + 1 = b THEN 0 ELSE r + 1
      BY Successor, Zenon
    <2> QED BY <1>1, <2>1, <2>2, Zenon
  <1>3. PICK y \in Int : y = IF r + 1 = b THEN 0 ELSE r + 1
    OBVIOUS
  <1>4. Until(b, now, FALSE) = b - r
    BY <1>1, Zenon DEF Until
  <1>5. next % b = y => Until(b, next, TRUE) = IF y = 0 THEN 0 ELSE b - y
    BY Zenon DEF Until
  <1>6. (IF y = 0 THEN 0 ELSE b - y) = (b - r) - 1
    BY <1>3
  <1> QED BY <1>2, <1>3, <1>4, <1>5, <1>6, Zenon

\* And leaves alone which list will be cascaded.
LEMMA UntilTick ==
  ASSUME NEW b \in Nat \ {0}, NEW n \in Nat \ {0}, NEW now \in Int, NEW k \in Int
  PROVE  LET next == (now + 1) + b * (n * k)
         IN /\ Until(b, next, TRUE) = Until(b, now, FALSE) - 1
            /\ ((next + Until(b, next, TRUE)) \div b) % n = ((now + Until(b, now, FALSE)) \div b) % n
  <1>0. PICK next \in Int : next = (now + 1) + b * (n * k)
    OBVIOUS
  <1>1. next % b = (now + 1) % b
    <2>1. PICK y \in Int : y = n * k
      OBVIOUS
    <2>2. PICK x \in Int : x = now + 1
      OBVIOUS
    <2>3. (x + b * y) % b = x % b
      BY AddMultiple, Zenon
    <2> QED BY <1>0, <2>1, <2>2, <2>3, Zenon
  <1>2. Until(b, next, TRUE) = Until(b, now, FALSE) - 1
    BY <1>1, UntilNext, Zenon
  <1>3. PICK u \in 0 .. b : u = Until(b, now, FALSE)
    BY UntilRange, Zenon
  <1>4. PICK x \in Int : x = now + u
    OBVIOUS
  <1>5. next + (u - 1) = x + b * (n * k)
    BY <1>0, <1>4
  <1>6. ((x + b * (n * k)) \div b) % n = (x \div b) % n
    BY SameSlot, Zenon
  <1> QED BY <1>0, <1>2, <1>3, <1>4, <1>5, <1>6, Zenon

\* When a multiple of b comes.
LEMMA MultipleOf ==
  ASSUME NEW b \in Nat \ {0}, NEW k \in Nat \ {0}, NEW now \in Int
  PROVE  now % (b * k) = 0 => now % b = 0
  <1>1. PICK s \in Nat \ {0} : s = b * k
    OBVIOUS
  <1>2. PICK q \in Int, r \in 0 .. s - 1 : q = now \div s /\ r = now % s /\ now = s * q + r
    BY Divided, Zenon
  <1>3. CASE r = 0
    <2>1. PICK y \in Int : y = k * q
      OBVIOUS
    <2>2. now = 0 + b * y
      <3>1. now = (b * k) * q + 0
        BY <1>1, <1>2, <1>3, Zenon
      <3>2. (b * k) * q + 0 = 0 + b * (k * q)
        OBVIOUS
      <3> QED BY <2>1, <3>1, <3>2, Zenon
    <2>3. (0 + b * y) % b = 0 % b
      <3>1. 0 \in Int
        OBVIOUS
      <3> QED BY <3>1, AddMultiple, Zenon
    <2>4. 0 % b = 0
      <3>1. 0 = b * 0 + 0 /\ 0 \in 0 .. b - 1 /\ 0 \in Int
        OBVIOUS
      <3> QED BY <3>1, Unique
    <2> QED BY <2>2, <2>3, <2>4, Zenon
  <1>4. CASE r # 0
    BY <1>1, <1>2, <1>4, Zenon
  <1> QED BY <1>3, <1>4

-----------------------------------------------------------------------------
(* The sizes of the vectors. *)

\* The range of a vector is a multiple of those of the vectors before it.
LEMMA Divides ==
  ASSUME NEW n \in 1 .. NOOF_TVECS, NEW m \in 1 .. n
  PROVE  \E k \in Nat \ {0} : Span(n) = Span(m) * k
  <1> DEFINE Good(i) == \E k \in Nat \ {0} : Span(n) = Span(n - i) * k
             Bad     == {i \in 0 .. n - 1 : ~Good(i)}
  <1>1. ASSUME NEW i \in Bad, \A j \in Bad : i <= j PROVE FALSE
    <2>1. i # 0
      <3>1. Span(n) = Span(n - 0) * 1
        BY SizeAssumption
      <3> QED BY <3>1
    <2>2. i - 1 \in 0 .. n - 1 /\ ~(i <= i - 1) /\ i \in 0 .. n - 1
      BY <2>1
    <2>3. Good(i - 1)
      BY <1>1, <2>2
    <2>4. PICK k \in Nat \ {0} : Span(n) = Span(n - (i - 1)) * k
      BY <2>3
    <2>5. PICK l \in 2 .. NOOF_TVECS : l = n - (i - 1) /\ l - 1 = n - i
      BY <2>2, TimerAssumption
    <2>6. Span(l) = TVN_SIZE * Span(l - 1)
      BY SizeAssumption
    <2>7. PICK b \in Nat \ {0} : b = Span(l - 1)
      <3>1. l - 1 \in 1 .. NOOF_TVECS
        BY TimerAssumption
      <3> QED BY <3>1, SizeAssumption
    <2>8. PICK v \in Nat \ {0} : v = TVN_SIZE
      BY SizeAssumption
    <2>9. (v * b) * k = b * (v * k) /\ v * k \in Nat \ {0}
      OBVIOUS
    <2>10. Span(n) = Span(n - i) * (v * k)
      BY <2>4, <2>5, <2>6, <2>7, <2>8, <2>9, Zenon
    <2>11. Good(i)
      BY <2>9, <2>10, Zenon
    <2> QED BY <2>11
  <1>2. Bad = {}
    <2>1. Bad \in SUBSET Nat
      OBVIOUS
    <2> HIDE DEF Bad
    <2> QED BY <1>1, <2>1, LeastNumber
  <1>3. n - m \in 0 .. n - 1 /\ n - (n - m) = m
    OBVIOUS
  <1>4. Good(n - m)
    BY <1>2, <1>3, Zenon
  <1> QED BY <1>3, <1>4

\* The words from here on are negative.
Half == WORD \div 2

\* Every vector but the last covers at most half a word.
LEMMA Sizes ==
  /\ WORD \in Nat \ {0, 1} /\ Half \in Nat /\ 1 < Half /\ Half < WORD
  /\ \A n \in 1 .. NOOF_TVECS - 1 : Span(n) \in Nat \ {0} /\ Span(n) <= Half /\ Span(n) < WORD
  <1>1. ASSUME NEW x \in Nat \ {0}, NEW v \in Nat, v > 1, NEW k \in Nat \ {0}, NEW w \in Nat, w = (v * x) * k
        PROVE  2 * x <= w
    <2>1. PICK y \in Nat \ {0} : y = v * k
      BY <1>1
    <2>2. y >= 2
      BY <1>1, <2>1
    <2>3. w = y * x
      BY <1>1, <2>1
    <2>4. y * x >= 2 * x
      BY <2>2
    <2> QED BY <2>3, <2>4
  <1>2. WORD \in Nat \ {0}
    <2>1. NOOF_TVECS \in 1 .. NOOF_TVECS
      BY TimerAssumption
    <2> QED BY <2>1, SizeAssumption DEF WORD
  <1>3. ASSUME NEW n \in 1 .. NOOF_TVECS - 1 PROVE Span(n) \in Nat \ {0} /\ 2 * Span(n) <= WORD
    <2>1. PICK l \in 2 .. NOOF_TVECS : l = n + 1 /\ l - 1 = n
      BY TimerAssumption
    <2>2. NOOF_TVECS \in 1 .. NOOF_TVECS /\ l \in 1 .. NOOF_TVECS /\ n \in 1 .. NOOF_TVECS
      BY TimerAssumption
    <2>3. PICK k \in Nat \ {0} : WORD = Span(l) * k
      BY <2>2, Divides DEF WORD
    <2>4. Span(l) = TVN_SIZE * Span(n) /\ Span(n) \in Nat \ {0} /\ TVN_SIZE \in Nat /\ TVN_SIZE > 1
      BY <2>1, <2>2, SizeAssumption
    <2>5. PICK x \in Nat \ {0}, v \in Nat, w \in Nat : x = Span(n) /\ v = TVN_SIZE /\ w = WORD
      BY <1>2, <2>4, Zenon
    <2>6. v > 1 /\ w = (v * x) * k
      BY <2>3, <2>4, <2>5, Zenon
    <2>7. 2 * x <= w
      BY <1>1, <2>6
    <2> QED BY <2>4, <2>5, <2>7, Zenon
  <1>4. Span(1) \in Nat /\ Span(1) > 1 /\ 2 * Span(1) <= WORD
    <2>1. 1 \in 1 .. NOOF_TVECS - 1
      BY TimerAssumption
    <2> QED BY <1>3, <2>1, SizeAssumption
  <1>5. Half \in Nat /\ 2 * Half <= WORD /\ WORD <= 2 * Half + 1
    BY <1>2 DEF Half
  <1> QED BY <1>2, <1>3, <1>4, <1>5

\* A word is a whole number of turns of every vector.
LEMMA WordIs ==
  ASSUME NEW n \in 2 .. NOOF_TVECS
  PROVE  /\ n - 1 \in 1 .. NOOF_TVECS - 1 /\ Span(n - 1) \in Nat \ {0} /\ TVN_SIZE \in Nat \ {0, 1}
         /\ Span(n) = TVN_SIZE * Span(n - 1)
         /\ \E j \in Nat \ {0} : WORD = Span(n - 1) * (TVN_SIZE * j)
  <1>1. n \in 1 .. NOOF_TVECS /\ NOOF_TVECS \in 1 .. NOOF_TVECS /\ n - 1 \in 1 .. NOOF_TVECS - 1
    BY TimerAssumption
  <1>2. PICK j \in Nat \ {0} : WORD = Span(n) * j
    BY <1>1, Divides DEF WORD
  <1>3. Span(n) = TVN_SIZE * Span(n - 1) /\ Span(n - 1) \in Nat \ {0} /\ TVN_SIZE \in Nat \ {0, 1}
    BY <1>1, Sizes, SizeAssumption
  <1>4. PICK x \in Nat \ {0}, v \in Nat : x = Span(n - 1) /\ v = TVN_SIZE
    BY <1>3
  <1>5. (v * x) * j = x * (v * j)
    OBVIOUS
  <1>6. WORD = x * (v * j)
    BY <1>2, <1>3, <1>4, <1>5, Zenon
  <1> QED BY <1>1, <1>3, <1>4, <1>6, Zenon

\* tv1 divides the word too.
LEMMA WordIsTv1 ==
  /\ TVR_SIZE \in Nat \ {0} /\ TVR_SIZE <= Half
  /\ \E j \in Nat \ {0} : WORD = TVR_SIZE * j
  <1>1. 1 \in 1 .. NOOF_TVECS - 1 /\ NOOF_TVECS \in 1 .. NOOF_TVECS /\ 1 \in 1 .. NOOF_TVECS
    BY TimerAssumption
  <1>2. \E j \in Nat \ {0} : WORD = Span(1) * j
    BY <1>1, Divides DEF WORD
  <1> QED BY <1>1, <1>2, Sizes, SizeAssumption

-----------------------------------------------------------------------------
(* Where a timer belongs. *)

\* The ticks from now until e.
Ahead(e, now) == (e - now) % WORD

\* A timer on list s of tv1 is past and the list is the current one, or it
\* expires before tv1 comes full circle.
Right1(s, e, now) ==
  \/ s = now % TVR_SIZE /\ Ahead(e, now) > WORD - Half
  \/ Ahead(e, now) < TVR_SIZE /\ s = e % TVR_SIZE

\* One on list s of vector n expires after the vector is next cascaded, in u
\* ticks, and before it comes full circle.
RightN(n, s, e, now, u) ==
  /\ u <= Ahead(e, now) /\ Ahead(e, now) < u + Span(n) /\ Ahead(e, now) < Half
  /\ s = (e \div Span(n - 1)) % TVN_SIZE

\* Less than half a word ahead, or less than that, by slack, behind.
Near(e, now, slack) == Ahead(e, now) < Half \/ Ahead(e, now) > (WORD - Half) + slack

\* It is a distance on the circle of words.
LEMMA AheadIs ==
  ASSUME NEW e \in Int, NEW now \in Int
  PROVE  Ahead(e, now) \in 0 .. WORD - 1 /\ \E k \in Int : e = now + Ahead(e, now) + WORD * k
  <1>1. PICK w \in Nat \ {0} : w = WORD
    BY Sizes
  <1>2. (e - now) % w \in 0 .. w - 1 /\ \E k \in Int : e = now + ((e - now) % w) + w * k
    BY Distance, Zenon
  <1> QED BY <1>1, <1>2, Zenon DEF Ahead

\* A difference of less than half a word is read back as it is.
LEMMA SignedIs ==
  ASSUME NEW x \in Int, NEW z \in Int, -Half < z, z < Half, NEW k \in Int, x = z + WORD * k
  PROVE  Signed(x) = z
  <1>1. PICK w \in Nat \ {0}, h \in Nat : w = WORD /\ h = Half /\ 2 * h <= w
    <2>1. 2 * (WORD \div 2) <= WORD
      BY Sizes
    <2> QED BY <2>1, Sizes DEF Half
  <1>2. CASE z >= 0
    <2>1. x = w * k + z /\ z \in 0 .. w - 1
      BY <1>1, <1>2
    <2>2. x % w = z
      BY <2>1, Unique, Zenon
    <2> QED BY <1>1, <2>2 DEF Signed, Half
  <1>3. CASE z < 0
    <2>1. x = w * (k - 1) + (z + w) /\ z + w \in 0 .. w - 1 /\ k - 1 \in Int
      BY <1>1, <1>3
    <2>2. x % w = z + w
      BY <2>1, Unique, Zenon
    <2>3. ~(z + w < h) /\ (z + w) - w = z
      BY <1>1
    <2> QED BY <1>1, <2>2, <2>3, Zenon DEF Signed, Half
  <1> QED BY <1>2, <1>3

\* What Signed returns is congruent to x, and negative in the upper half.
LEMMA SignedOf ==
  ASSUME NEW x \in Int
  PROVE  /\ Signed(x) \in Int /\ Signed(x) < Half
         /\ Signed(x) < 0 <=> ~(x % WORD < Half)
         /\ \E k \in Int : x = Signed(x) + WORD * k
  <1>1. PICK w \in Nat \ {0}, h \in Nat : w = WORD /\ h = Half /\ h < w
    BY Sizes
  <1>2. PICK q \in Int, r \in 0 .. w - 1 : q = x \div w /\ r = x % w /\ x = w * q + r
    BY Divided, Zenon
  <1>3. Signed(x) = IF r < h THEN r ELSE r - w
    BY <1>1, <1>2, Zenon DEF Signed, Half
  <1>4. x = r + w * q /\ x = (r - w) + w * (q + 1)
    <2>1. x = w * q + r
      BY <1>2
    <2> QED BY <2>1
  <1>5. \E k \in Int : x = Signed(x) + w * k
    <2>1. CASE r < h
      BY <1>3, <1>4, <2>1, Zenon
    <2>2. CASE ~(r < h)
      <3>1. q + 1 \in Int
        OBVIOUS
      <3> QED BY <1>3, <1>4, <2>2, <3>1, Zenon
    <2> QED BY <2>1, <2>2
  <1>6. (IF r < h THEN r ELSE r - w) \in Int /\ (IF r < h THEN r ELSE r - w) < h
    BY <1>1
  <1>7. (IF r < h THEN r ELSE r - w) < 0 <=> ~(r < h)
    OBVIOUS
  <1> QED BY <1>1, <1>2, <1>3, <1>5, <1>6, <1>7, Zenon

\* internal_add_timer puts a timer in the lowest vector whose range it is in.
LEMMA PlaceIsRight ==
  ASSUME NEW e \in Int, NEW now \in Int, NEW cur, cur = now % TVR_SIZE, Near(e, now, 0)
  PROVE  \E n \in 1 .. NOOF_TVECS : \E s :
           /\ Place(e, now, cur) = <<n, s>>
           /\ n = 1 => Right1(s, e, now)
           /\ n # 1 => /\ Span(n - 1) <= Ahead(e, now) /\ Ahead(e, now) < Span(n) /\ Ahead(e, now) < Half
                       /\ s = (e \div Span(n - 1)) % TVN_SIZE
  <1> DEFINE levels == {n \in 1 .. NOOF_TVECS - 1 : Ahead(e, now) < Span(n)}
             low    == CHOOSE n \in levels : \A m \in levels : n <= m
  <1>0. NOOF_TVECS \in Nat \ {0, 1} /\ 1 \in 1 .. NOOF_TVECS - 1 /\ Span(1) = TVR_SIZE
    BY TimerAssumption, SizeAssumption
  <1>1. PICK a \in 0 .. WORD - 1 : a = Ahead(e, now)
    BY AheadIs, Zenon
  <1>2. Place(e, now, cur) =
          IF levels # {} THEN SlotOf(e, low)
          ELSE IF Signed(a) < 0 THEN <<1, cur>>
          ELSE SlotOf(e, NOOF_TVECS)
    BY <1>1 DEF Place, Ahead
  <1>3. Signed(a) < 0 <=> ~(a < Half)
    <2>1. WORD \in Nat \ {0} /\ a \in Int /\ a = WORD * 0 + a
      BY Sizes
    <2>2. a % WORD = a
      BY <2>1, Unique
    <2> QED BY <2>1, <2>2, SignedOf, Zenon
  <1>4. CASE levels # {}
    <2>1. PICK n \in levels : low = n /\ \A m \in levels : n <= m
      <3>1. \E k \in levels : \A m \in levels : k <= m
        <4>1. levels \in SUBSET Nat
          BY <1>0
        <4> HIDE DEF levels
        <4> QED BY <1>4, <4>1, LeastNumber
      <3> QED BY <3>1, Zenon
    <2>2. Place(e, now, cur) = SlotOf(e, n)
      BY <1>2, <1>4, <2>1, Zenon
    <2>3. n \in 1 .. NOOF_TVECS - 1 /\ n \in 1 .. NOOF_TVECS /\ a < Span(n)
      BY <1>0, <1>1, <2>1
    <2>4. \A m \in 1 .. NOOF_TVECS - 1 : Ahead(e, now) < Span(m) => n <= m
      BY <2>1
    <2>5. CASE n = 1
      BY <1>0, <1>1, <2>2, <2>3, <2>5, Zenon DEF SlotOf, Right1
    <2>6. CASE n # 1
      <3>1. n - 1 \in 1 .. NOOF_TVECS - 1 /\ ~(n <= n - 1)
        BY <1>0, <2>3, <2>6
      <3>2. ~(a < Span(n - 1))
        BY <1>1, <2>4, <3>1, Zenon
      <3>3. Span(n - 1) <= a /\ a < Half
        BY <2>3, <3>1, <3>2, Sizes
      <3> QED BY <1>1, <2>2, <2>3, <2>6, <3>3, Zenon DEF SlotOf
    <2> QED BY <2>5, <2>6
  <1>5. CASE levels = {} /\ ~(a < Half)
    <2>1. Place(e, now, cur) = <<1, cur>>
      BY <1>2, <1>3, <1>5, Zenon
    <2>2. a > WORD - Half
      BY <1>1, <1>5, Sizes DEF Near
    <2>3. Right1(cur, e, now)
      BY <1>1, <2>2, Zenon DEF Right1
    <2>4. 1 \in 1 .. NOOF_TVECS
      BY <1>0
    <2> QED BY <2>1, <2>3, <2>4, Zenon
  <1>6. CASE levels = {} /\ a < Half
    <2>1. Place(e, now, cur) = SlotOf(e, NOOF_TVECS)
      BY <1>2, <1>3, <1>6, Zenon
    <2>2. \A m \in 1 .. NOOF_TVECS - 1 : ~(Ahead(e, now) < Span(m))
      BY <1>6
    <2>3. NOOF_TVECS - 1 \in 1 .. NOOF_TVECS - 1 /\ NOOF_TVECS \in 1 .. NOOF_TVECS /\ NOOF_TVECS # 1
      BY <1>0
    <2>4. ~(a < Span(NOOF_TVECS - 1))
      BY <1>1, <2>2, <2>3, Zenon
    <2>5. Span(NOOF_TVECS - 1) <= a
      BY <2>3, <2>4, Sizes
    <2>6. a < WORD
      BY Sizes
    <2>7. a < Span(NOOF_TVECS)
      BY <2>6, Zenon DEF WORD
    <2> QED BY <1>1, <1>6, <2>1, <2>3, <2>5, <2>7, Zenon DEF SlotOf
  <1> QED BY <1>4, <1>5, <1>6, Zenon

\* A list of the wheel is determined by the time that is left.
LEMMA SlotIs ==
  ASSUME NEW n \in 2 .. NOOF_TVECS, NEW e \in Int, NEW now \in Int
  PROVE  (e \div Span(n - 1)) % TVN_SIZE = ((now + Ahead(e, now)) \div Span(n - 1)) % TVN_SIZE
  <1>1. PICK b \in Nat \ {0}, v \in Nat \ {0}, j \in Nat \ {0} :
          b = Span(n - 1) /\ v = TVN_SIZE /\ WORD = b * (v * j)
    BY WordIs
  <1>2. PICK a \in 0 .. WORD - 1 : a = Ahead(e, now) /\ \E k \in Int : e = now + a + WORD * k
    BY AheadIs, Zenon
  <1>3. PICK k \in Int : e = now + a + WORD * k
    BY <1>2
  <1>4. PICK x \in Int, i \in Int : x = now + a /\ i = j * k
    BY Sizes
  <1>5. (b * (v * j)) * k = b * (v * i)
    <2>1. \A x1, x2, x3, x4 \in Int : (x1 * (x2 * x3)) * x4 = x1 * (x2 * (x3 * x4))
      OBVIOUS
    <2> QED BY <1>4, <2>1
  <1>6. ((x + b * (v * i)) \div b) % v = (x \div b) % v
    BY SameSlot, Zenon
  <1> QED BY <1>1, <1>2, <1>3, <1>4, <1>5, <1>6, Zenon

\* The same for tv1.
LEMMA ListIs ==
  ASSUME NEW e \in Int, NEW now \in Int
  PROVE  e % TVR_SIZE = (now + Ahead(e, now)) % TVR_SIZE
  <1>1. PICK b \in Nat \ {0}, j \in Nat \ {0} : b = TVR_SIZE /\ WORD = b * j
    BY WordIsTv1
  <1>2. PICK a \in 0 .. WORD - 1 : a = Ahead(e, now) /\ \E k \in Int : e = now + a + WORD * k
    BY AheadIs, Zenon
  <1>3. PICK k \in Int : e = now + a + WORD * k
    BY <1>2
  <1>4. PICK x \in Int, i \in Int : x = now + a /\ i = j * k
    BY Sizes
  <1>5. (b * j) * k = b * i
    <2>1. \A x1, x2, x3 \in Int : (x1 * x2) * x3 = x1 * (x2 * x3)
      OBVIOUS
    <2> QED BY <1>4, <2>1
  <1>6. (x + b * i) % b = x % b
    BY AddMultiple, Zenon
  <1> QED BY <1>1, <1>2, <1>3, <1>4, <1>5, <1>6, Zenon

\* jiffies + 1, a word.
LEMMA NextWord ==
  ASSUME NEW now \in 0 .. WORD - 1
  PROVE  (now + 1) % WORD \in 0 .. WORD - 1 /\ \E k \in Int : (now + 1) % WORD = (now + 1) + WORD * k
  <1>1. PICK w \in Nat \ {0} : w = WORD
    BY Sizes
  <1>2. PICK y \in Int : y = (now + 1) % w /\ y = IF now + 1 = w THEN 0 ELSE now + 1
    <2>1. now \in 0 .. w - 1
      BY <1>1
    <2>2. (now + 1) % w = IF now + 1 = w THEN 0 ELSE now + 1
      BY <2>1, Successor, Zenon
    <2>3. (IF now + 1 = w THEN 0 ELSE now + 1) \in Int
      BY <2>1
    <2> QED BY <2>2, <2>3, Zenon
  <1>3. y \in 0 .. w - 1 /\ \E k \in Int : y = (now + 1) + w * k
    <2>1. CASE now + 1 = w
      <3>1. y = (now + 1) + w * (-1)
        BY <1>1, <1>2, <2>1
      <3> QED BY <1>2, <2>1, <3>1
    <2>2. CASE now + 1 # w
      <3>1. y = (now + 1) + w * 0 /\ y \in 0 .. w - 1
        BY <1>1, <1>2, <2>2
      <3> QED BY <3>1
    <2> QED BY <2>1, <2>2
  <1> QED BY <1>1, <1>2, <1>3, Zenon

\* The ticks by which the wheel lags behind the clock.
LEMMA LagStep ==
  ASSUME NEW j \in 0 .. WORD - 1, NEW now \in 0 .. WORD - 1, Signed(j - now) \in -1 .. MaxLag
  PROVE  /\ Signed(j - now) < MaxLag => Signed(((j + 1) % WORD) - now) = Signed(j - now) + 1
         /\ Signed(j - now) >= 0 => Signed(j - ((now + 1) % WORD)) = Signed(j - now) - 1
  <1>0. j \in Int /\ now \in Int /\ WORD \in Int /\ MaxLag < Half /\ MaxLag \in Nat
    BY Sizes, TimerAssumption DEF Half
  <1>1. PICK lag \in -1 .. MaxLag : lag = Signed(j - now)
    OBVIOUS
  <1>2. PICK k \in Int : j - now = lag + WORD * k
    <2>1. PICK x \in Int : x = j - now
      BY <1>0
    <2>2. \E k \in Int : x = Signed(x) + WORD * k
      BY SignedOf, Zenon
    <2> QED BY <1>1, <2>1, <2>2, Zenon
  <1>3. ASSUME NEW z \in Int, -Half < z, z < Half, NEW x \in Int, NEW m \in Int, x = z + WORD * m
        PROVE  Signed(x) = z
    BY <1>3, SignedIs, Zenon
  <1>4. ASSUME lag < MaxLag PROVE Signed(((j + 1) % WORD) - now) = lag + 1
    <2>1. PICK y \in Int, m \in Int : y = (j + 1) % WORD /\ y = (j + 1) + WORD * m
      BY NextWord
    <2>2. y - now = (lag + 1) + WORD * (k + m) /\ k + m \in Int /\ y - now \in Int
      BY <1>0, <1>2, <2>1
    <2>3. lag + 1 \in Int /\ -Half < lag + 1 /\ lag + 1 < Half
      BY <1>0, <1>4, Sizes
    <2>4. Signed(y - now) = lag + 1
      BY <1>3, <2>2, <2>3, Zenon
    <2> QED BY <2>1, <2>4, Zenon
  <1>5. ASSUME lag >= 0 PROVE Signed(j - ((now + 1) % WORD)) = lag - 1
    <2>1. PICK y \in Int, m \in Int : y = (now + 1) % WORD /\ y = (now + 1) + WORD * m
      BY NextWord
    <2>2. j - y = (lag - 1) + WORD * (k - m) /\ k - m \in Int /\ j - y \in Int
      BY <1>0, <1>2, <2>1
    <2>3. lag - 1 \in Int /\ -Half < lag - 1 /\ lag - 1 < Half
      BY <1>0, <1>5, Sizes
    <2>4. Signed(j - y) = lag - 1
      BY <1>3, <2>2, <2>3, Zenon
    <2> QED BY <2>1, <2>4, Zenon
  <1> QED BY <1>1, <1>4, <1>5, Zenon

\* A caller's expiry time is near the wheel's.
LEMMA NearIs ==
  ASSUME NEW j \in 0 .. WORD - 1, NEW now \in 0 .. WORD - 1, Signed(j - now) \in -1 .. MaxLag, NEW d \in Delays
  PROVE  /\ Near((j + d) % WORD, now, 0)
         /\ Signed(j - now) >= 0 => Near((j + d) % WORD, now, 1)
  <1>0. j \in Int /\ now \in Int /\ WORD \in Nat \ {0} /\ d \in Int /\ -Half < d - 1 /\ d + MaxLag < Half /\ MaxLag \in Nat
        /\ Half \in Nat /\ Half < WORD
    BY Sizes, TimerAssumption DEF Half
  <1>1. PICK lag \in -1 .. MaxLag : lag = Signed(j - now)
    OBVIOUS
  <1>2. PICK k \in Int : j - now = lag + WORD * k
    <2>1. PICK x \in Int : x = j - now
      BY <1>0
    <2>2. \E k \in Int : x = Signed(x) + WORD * k
      BY SignedOf, Zenon
    <2> QED BY <1>1, <2>1, <2>2, Zenon
  <1>3. PICK e \in Int, m \in Int : e = (j + d) % WORD /\ e = (j + d) + WORD * m
    <2>1. PICK x \in Int, w \in Nat \ {0} : x = j + d /\ w = WORD
      BY <1>0
    <2>2. PICK q \in Int, r \in 0 .. w - 1 : q = x \div w /\ r = x % w /\ x = w * q + r
      BY Divided, Zenon
    <2>3. r \in Int /\ -q \in Int /\ r = x + w * (-q)
      <3>1. x = w * q + r
        BY <2>2
      <3> QED BY <3>1
    <2> QED BY <2>1, <2>2, <2>3, Zenon
  <1>4. e = now + (lag + d) + WORD * (k + m)
    BY <1>0, <1>2, <1>3
  <1>5. lag + d \in Int /\ -Half < lag + d /\ lag + d < Half /\ (lag >= 0 => -Half + 1 < lag + d)
    BY <1>0
  <1>6. PICK w \in Nat \ {0}, i \in Int : w = WORD /\ i = k + m
    BY <1>0
  <1>7. ASSUME NEW a \in 0 .. w - 1, NEW n \in Int, e = now + a + w * n PROVE Ahead(e, now) = a
    <2>1. (e - now) % w = a
      BY <1>0, <1>7, DistanceIs
    <2> QED BY <1>6, <2>1 DEF Ahead
  <1>8. CASE lag + d >= 0
    <2>1. lag + d \in 0 .. w - 1 /\ e = now + (lag + d) + w * i
      BY <1>0, <1>4, <1>5, <1>6, <1>8
    <2>2. Ahead(e, now) = lag + d
      BY <1>7, <2>1, Zenon
    <2> QED BY <1>3, <1>5, <2>2, Zenon DEF Near
  <1>9. CASE ~(lag + d >= 0)
    <2>1. (lag + d) + w \in 0 .. w - 1 /\ i - 1 \in Int /\ e = now + ((lag + d) + w) + w * (i - 1)
      BY <1>0, <1>4, <1>5, <1>6, <1>9
    <2>2. Ahead(e, now) = (lag + d) + w
      BY <1>7, <2>1, Zenon
    <2>3. (lag + d) + w > (WORD - Half) + 0 /\ (lag >= 0 => (lag + d) + w > (WORD - Half) + 1)
      BY <1>0, <1>5, <1>6
    <2> QED BY <1>1, <1>3, <2>2, <2>3, Zenon DEF Near
  <1> QED BY <1>8, <1>9

-----------------------------------------------------------------------------
(* The lists. *)

\* internal_add_timer chooses a list of the wheel.
LEMMA PlaceIsHead ==
  ASSUME NEW e \in Int, NEW now \in Int, NEW cur \in Nat, cur < TVR_SIZE
  PROVE  Place(e, now, cur) \in Heads
  <1> DEFINE levels == {n \in 1 .. NOOF_TVECS - 1 : (e - now) % WORD < Span(n)}
             low    == CHOOSE n \in levels : \A m \in levels : n <= m
  <1>1. ASSUME NEW n \in 1 .. NOOF_TVECS PROVE SlotOf(e, n) \in Heads
    <2>1. CASE n = 1
      BY <2>1, SizeAssumption DEF SlotOf, Heads, Tv1
    <2>2. CASE n # 1
      <3> DEFINE q == e \div Span(n - 1)
      <3>1. q \in Int
        <4>1. n - 1 \in 1 .. NOOF_TVECS
          BY <2>2, TimerAssumption
        <4> QED BY <4>1, SizeAssumption
      <3>2. q % TVN_SIZE \in 0 .. TVN_SIZE - 1
        BY <3>1, SizeAssumption
      <3> QED BY <2>2, <3>2 DEF SlotOf, Heads
    <2> QED BY <2>1, <2>2
  <1>2. CASE levels # {}
    <2>1. low \in levels
      <3>1. PICK k \in levels : \A m \in levels : k <= m
        <4>1. levels \in SUBSET Nat
          BY TimerAssumption
        <4> HIDE DEF levels
        <4> QED BY <1>2, <4>1, LeastNumber
      <3> QED BY <3>1
    <2>2. low \in 1 .. NOOF_TVECS
      <3> HIDE DEF low
      <3> QED BY <2>1, TimerAssumption
    <2>3. Place(e, now, cur) = SlotOf(e, low)
      BY <1>2 DEF Place
    <2> QED BY <1>1, <2>2, <2>3
  <1>3. <<1, cur>> \in Heads
    BY SizeAssumption DEF Heads, Tv1
  <1>4. SlotOf(e, NOOF_TVECS) \in Heads
    BY <1>1, TimerAssumption
  <1> QED BY <1>2, <1>3, <1>4 DEF Place

\* list_add of a timer that is on no list.
LEMMA Added ==
  ASSUME NEW ls \in [Heads -> Seq(Timer)], NEW P \in SUBSET Timer, Linked(ls, P),
         NEW h \in Heads, NEW t \in Timer, t \notin P
  PROVE  /\ list_add_tail(ls, h, t) \in [Heads -> Seq(Timer)]
         /\ Linked(list_add_tail(ls, h, t), P \cup {t})
         /\ \A k \in Heads, u \in Timer :
              OnList(list_add_tail(ls, h, t), k, u) => OnList(ls, k, u) \/ (k = h /\ u = t)
  <1> DEFINE new == list_add_tail(ls, h, t)
  <1>1. /\ new \in [Heads -> Seq(Timer)]
        /\ new[h] = Append(ls[h], t)
        /\ \A k \in Heads : k # h => new[k] = ls[k]
    BY DEF list_add_tail
  <1>2. /\ Len(new[h]) = Len(ls[h]) + 1
        /\ new[h][Len(ls[h]) + 1] = t
        /\ \A i \in 1 .. Len(ls[h]) : new[h][i] = ls[h][i]
        /\ Len(ls[h]) \in Nat
    BY <1>1
  <1> HIDE DEF new
  <1>3. ASSUME NEW k \in Heads, NEW i \in 1 .. Len(new[k])
        PROVE  \/ i \in 1 .. Len(ls[k]) /\ new[k][i] = ls[k][i]
               \/ k = h /\ i = Len(ls[h]) + 1 /\ new[k][i] = t
    BY <1>1, <1>2
  <1>4. ASSUME NEW u \in P \cup {t} PROVE \E k \in Heads : \E i \in 1 .. Len(new[k]) : new[k][i] = u
    <2>1. CASE u = t
      <3>1. Len(ls[h]) + 1 \in 1 .. Len(new[h])
        BY <1>2
      <3> QED BY <1>2, <2>1, <3>1
    <2>2. CASE u \in P
      <3>1. PICK k \in Heads : \E i \in 1 .. Len(ls[k]) : ls[k][i] = u
        BY <2>2 DEF Linked
      <3>2. PICK i \in 1 .. Len(ls[k]) : ls[k][i] = u
        BY <3>1
      <3>3. i \in 1 .. Len(new[k]) /\ new[k][i] = u
        BY <1>1, <1>2, <3>2
      <3> QED BY <3>3
    <2> QED BY <2>1, <2>2
  <1>5. ASSUME NEW k \in Heads, NEW i \in 1 .. Len(new[k]) PROVE new[k][i] \in P \cup {t}
    BY <1>3, Zenon DEF Linked
  <1>6. ASSUME NEW k \in Heads, NEW l \in Heads, NEW i \in 1 .. Len(new[k]), NEW j \in 1 .. Len(new[l]),
               new[k][i] = new[l][j]
        PROVE  k = l /\ i = j
    <2>0. \A m \in Heads : \A n \in 1 .. Len(ls[m]) : ls[m][n] # t
      <3>1. \A m \in Heads : \A n \in 1 .. Len(ls[m]) : ls[m][n] \in P
        BY Zenon DEF Linked
      <3> QED BY <3>1, Zenon
    <2>1. \/ i \in 1 .. Len(ls[k]) /\ new[k][i] = ls[k][i] /\ ls[k][i] # t
          \/ k = h /\ i = Len(ls[h]) + 1 /\ new[k][i] = t
      BY <1>3, <2>0, Zenon
    <2>2. \/ j \in 1 .. Len(ls[l]) /\ new[l][j] = ls[l][j] /\ ls[l][j] # t
          \/ l = h /\ j = Len(ls[h]) + 1 /\ new[l][j] = t
      BY <1>3, <2>0, Zenon
    <2>3. i \in 1 .. Len(ls[k]) /\ j \in 1 .. Len(ls[l]) /\ ls[k][i] = ls[l][j] => k = l /\ i = j
      BY DEF Linked
    <2> QED BY <1>6, <2>1, <2>2, <2>3, Zenon
  <1>7. Linked(new, P \cup {t})
    BY <1>4, <1>5, <1>6, Zenon DEF Linked
  <1>8. ASSUME NEW k \in Heads, NEW u \in Timer, OnList(new, k, u) PROVE OnList(ls, k, u) \/ (k = h /\ u = t)
    <2>1. PICK i \in 1 .. Len(new[k]) : new[k][i] = u
      BY <1>8 DEF OnList
    <2> QED BY <1>3, <2>1 DEF OnList
  <1> QED BY <1>1, <1>7, <1>8 DEF new

\* What is left of a sequence without its i-th element.
LEMMA Removed ==
  ASSUME NEW s \in Seq(Timer), NEW i \in 1 .. Len(s)
  PROVE  /\ list_del(s, i) \in Seq(Timer)
         /\ Len(list_del(s, i)) = Len(s) - 1
         /\ \A j \in 1 .. Len(s) - 1 : list_del(s, i)[j] = IF j < i THEN s[j] ELSE s[j + 1]
  <1> DEFINE u == SubSeq(s, 1, i - 1)
             v == SubSeq(s, i + 1, Len(s))
  <1>0. Len(s) \in Nat /\ i \in Nat /\ i >= 1 /\ i <= Len(s)
    OBVIOUS
  <1>1. u \in Seq(Timer) /\ Len(u) = i - 1 /\ \A j \in 1 .. i - 1 : u[j] = s[j]
    BY <1>0
  <1>2. v \in Seq(Timer) /\ Len(v) = Len(s) - i /\ \A j \in 1 .. Len(s) - i : v[j] = s[i + j]
    BY <1>0
  <1>3. list_del(s, i) = u \o v
    BY DEF list_del
  <1> HIDE DEF u, v
  <1>4. /\ u \o v \in Seq(Timer) /\ Len(u \o v) = Len(s) - 1
        /\ \A j \in 1 .. Len(s) - 1 : (u \o v)[j] = IF j <= Len(u) THEN u[j] ELSE v[j - Len(u)]
    <2>1. Len(u) + Len(v) = Len(s) - 1
      BY <1>0, <1>1, <1>2
    <2>2. \A p, q \in Seq(Timer) : p \o q \in Seq(Timer) /\ Len(p \o q) = Len(p) + Len(q)
      OBVIOUS
    <2>3. \A p, q \in Seq(Timer) : \A j \in 1 .. Len(p) + Len(q) :
            (p \o q)[j] = IF j <= Len(p) THEN p[j] ELSE q[j - Len(p)]
      OBVIOUS
    <2>4. /\ u \o v \in Seq(Timer) /\ Len(u \o v) = Len(u) + Len(v)
          /\ \A j \in 1 .. Len(u) + Len(v) : (u \o v)[j] = IF j <= Len(u) THEN u[j] ELSE v[j - Len(u)]
      BY <1>1, <1>2, <2>2, <2>3, Zenon
    <2> QED BY <2>1, <2>4, Zenon
  <1>5. ASSUME NEW j \in 1 .. Len(s) - 1 PROVE (u \o v)[j] = IF j < i THEN s[j] ELSE s[j + 1]
    <2>1. CASE j < i
      BY <1>0, <1>1, <1>4, <2>1
    <2>2. CASE ~(j < i)
      <3>1. j - Len(u) \in 1 .. Len(s) - i /\ i + (j - Len(u)) = j + 1
        BY <1>0, <1>1, <2>2
      <3> QED BY <1>0, <1>1, <1>2, <1>4, <2>2, <3>1
    <2> QED BY <2>1, <2>2, Zenon
  <1> QED BY <1>3, <1>4, <1>5

\* list_del of the i-th timer of list h.
LEMMA Dropped ==
  ASSUME NEW ls \in [Heads -> Seq(Timer)], NEW P \in SUBSET Timer, Linked(ls, P),
         NEW h \in Heads, NEW i \in 1 .. Len(ls[h]),
         NEW new \in [Heads -> Seq(Timer)],
         Len(new[h]) = Len(ls[h]) - 1,
         \A j \in 1 .. Len(ls[h]) - 1 : new[h][j] = IF j < i THEN ls[h][j] ELSE ls[h][j + 1],
         \A k \in Heads : k # h => new[k] = ls[k]
  PROVE  /\ Linked(new, P \ {ls[h][i]})
         /\ Fewer(new, ls, ls[h][i])
  <1> DEFINE was(k, j) == IF k = h /\ ~(j < i) THEN j + 1 ELSE j
  <1>0. \A k \in Heads : Len(ls[k]) \in Nat /\ Len(new[k]) \in Nat
    OBVIOUS
  <1>1. ASSUME NEW k \in Heads, NEW j \in 1 .. Len(new[k])
        PROVE  /\ was(k, j) \in 1 .. Len(ls[k]) /\ new[k][j] = ls[k][was(k, j)]
               /\ k = h => was(k, j) # i
    <2>1. CASE k = h
      <3>1. j \in 1 .. Len(ls[h]) - 1 /\ j + 1 \in 1 .. Len(ls[h]) /\ j \in 1 .. Len(ls[h]) /\ j + 1 # j
        BY <1>0, <2>1
      <3>2. new[h][j] = IF j < i THEN ls[h][j] ELSE ls[h][j + 1]
        BY <3>1
      <3>3. (j < i => j # i) /\ (~(j < i) => j + 1 # i)
        BY <1>0, <3>1
      <3> QED BY <2>1, <3>1, <3>2, <3>3, Zenon
    <2>2. CASE k # h
      BY <2>2
    <2> QED BY <2>1, <2>2
  <1>2. ASSUME NEW k \in Heads, NEW j \in 1 .. Len(new[k]), NEW l \in 1 .. Len(new[k]), was(k, j) = was(k, l)
        PROVE  j = l
    <2>1. i \in Int /\ j \in Int /\ l \in Int
      OBVIOUS
    <2> QED BY <1>2, <2>1
  <1> HIDE DEF was
  <1>3. ASSUME NEW k \in Heads, NEW j \in 1 .. Len(new[k]) PROVE new[k][j] \in P \ {ls[h][i]}
    <2>1. was(k, j) \in 1 .. Len(ls[k]) /\ new[k][j] = ls[k][was(k, j)] /\ (k = h => was(k, j) # i)
      BY <1>1
    <2> QED BY <2>1 DEF Linked
  <1>4. ASSUME NEW k \in Heads, NEW l \in Heads, NEW j \in 1 .. Len(new[k]), NEW m \in 1 .. Len(new[l]),
               new[k][j] = new[l][m]
        PROVE  k = l /\ j = m
    <2>1. was(k, j) \in 1 .. Len(ls[k]) /\ new[k][j] = ls[k][was(k, j)]
      BY <1>1
    <2>2. was(l, m) \in 1 .. Len(ls[l]) /\ new[l][m] = ls[l][was(l, m)]
      BY <1>1
    <2>3. k = l /\ was(k, j) = was(l, m)
      <3>1. PICK x \in 1 .. Len(ls[k]) : x = was(k, j)
        BY <2>1, Zenon
      <3>2. PICK y \in 1 .. Len(ls[l]) : y = was(l, m)
        BY <2>2, Zenon
      <3>3. ls[k][x] = ls[l][y]
        BY <1>4, <2>1, <2>2, <3>1, <3>2, Zenon
      <3>4. k = l /\ x = y
        BY <3>3 DEF Linked
      <3> QED BY <3>1, <3>2, <3>4
    <2> QED BY <1>2, <2>3
  <1>5. ASSUME NEW u \in P, u # ls[h][i] PROVE \E k \in Heads : \E j \in 1 .. Len(new[k]) : new[k][j] = u
    <2>1. PICK k \in Heads : \E j \in 1 .. Len(ls[k]) : ls[k][j] = u
      BY DEF Linked
    <2>2. PICK j \in 1 .. Len(ls[k]) : ls[k][j] = u
      BY <2>1
    <2>3. CASE k # h
      BY <2>2, <2>3
    <2>4. CASE k = h
      <3>1. j # i
        BY <1>5, <2>2, <2>4
      <3>2. CASE j < i
        <4>1. j \in 1 .. Len(ls[h]) - 1 /\ new[h][j] = u
          BY <1>0, <2>2, <2>4, <3>2
        <4> QED BY <4>1
      <3>3. CASE ~(j < i)
        <4>1. j - 1 \in 1 .. Len(ls[h]) - 1 /\ ~(j - 1 < i) /\ (j - 1) + 1 = j
          BY <1>0, <2>4, <3>1, <3>3
        <4>2. new[h][j - 1] = u
          BY <2>2, <2>4, <4>1
        <4> QED BY <4>1, <4>2
      <3> QED BY <3>2, <3>3
    <2> QED BY <2>3, <2>4
  <1>6. ASSUME NEW k \in Heads, NEW u \in Timer, OnList(new, k, u) PROVE OnList(ls, k, u) /\ u # ls[h][i]
    <2>1. PICK j \in 1 .. Len(new[k]) : new[k][j] = u
      BY <1>6 DEF OnList
    <2>2. PICK x \in 1 .. Len(ls[k]) : ls[k][x] = u
      BY <1>1, <2>1, Zenon
    <2> QED BY <1>3, <2>1, <2>2, Zenon DEF OnList
  <1>7. Fewer(new, ls, ls[h][i])
    BY <1>6, Zenon DEF Fewer
  <1> QED BY <1>3, <1>4, <1>5, <1>7 DEF Linked

\* Taking the first timer off a list.
LEMMA Popped ==
  ASSUME NEW ls \in [Heads -> Seq(Timer)], NEW P \in SUBSET Timer, Linked(ls, P),
         NEW h \in Heads, ls[h] # <<>>
  PROVE  /\ [ls EXCEPT ![h] = Tail(@)] \in [Heads -> Seq(Timer)]
         /\ Linked([ls EXCEPT ![h] = Tail(@)], P \ {Head(ls[h])})
         /\ Head(ls[h]) \in P /\ OnList(ls, h, Head(ls[h]))
         /\ Fewer([ls EXCEPT ![h] = Tail(@)], ls, Head(ls[h]))
  <1> DEFINE new == [ls EXCEPT ![h] = Tail(@)]
             one == 1
  <1>1. /\ new \in [Heads -> Seq(Timer)]
        /\ new[h] = Tail(ls[h]) /\ \A k \in Heads : k # h => new[k] = ls[k]
    OBVIOUS
  <1>2. /\ one \in 1 .. Len(ls[h]) /\ Head(ls[h]) = ls[h][one]
        /\ Len(new[h]) = Len(ls[h]) - 1
        /\ \A j \in 1 .. Len(ls[h]) - 1 : new[h][j] = IF j < one THEN ls[h][j] ELSE ls[h][j + 1]
    <2>1. ls[h] \in Seq(Timer) /\ ls[h] # <<>>
      OBVIOUS
    <2> QED BY <1>1, <2>1
  <1>3. Head(ls[h]) \in P
    <2>1. \A x \in 1 .. Len(ls[h]) : ls[h][x] \in P
      BY DEF Linked
    <2> QED BY <1>2, <2>1, Zenon
  <1> HIDE DEF new, one
  <1>4. Linked(new, P \ {ls[h][one]})
    BY <1>1, <1>2, Dropped, Zenon
  <1>5. Fewer(new, ls, ls[h][one])
    BY <1>1, <1>2, Dropped, Zenon
  <1>6. OnList(ls, h, Head(ls[h]))
    BY <1>2, Zenon DEF OnList
  <1> QED BY <1>1, <1>2, <1>3, <1>4, <1>5, <1>6, Zenon DEF new

\* detach_timer of a timer that is on a list, or on none.
LEMMA Detached ==
  ASSUME NEW ls \in [Heads -> Seq(Timer)], NEW P \in SUBSET Timer, Linked(ls, P), NEW t \in Timer
  PROVE  /\ detach_timer(ls, t) \in [Heads -> Seq(Timer)]
         /\ Linked(detach_timer(ls, t), P \ {t})
         /\ Fewer(detach_timer(ls, t), ls, t)
  <1> DEFINE new == detach_timer(ls, t)
  <1>0. \A k \in Heads : Len(ls[k]) \in Nat /\ ls[k] \in Seq(Timer)
    OBVIOUS
  <1>1. ASSUME NEW k \in Heads, \A i \in 1 .. Len(ls[k]) : ls[k][i] # t
        PROVE  new[k] = ls[k]
    BY <1>1, Zenon DEF detach_timer
  <1>2. ASSUME NEW k \in Heads, NEW i \in 1 .. Len(ls[k]), ls[k][i] = t
        PROVE  new[k] = list_del(ls[k], i)
    <2> DEFINE I == {j \in 1 .. Len(ls[k]) : ls[k][j] = t}
    <2>1. I = {i}
      BY <1>2 DEF Linked
    <2>2. I # {} /\ (CHOOSE n \in I : TRUE) = i
      BY <2>1
    <2> QED BY <2>2, Zenon DEF detach_timer
  <1>3. CASE t \notin P
    <2>1. \A k \in Heads : new[k] = ls[k]
      BY <1>1, <1>3 DEF Linked
    <2>2. new = ls
      BY <2>1 DEF detach_timer
    <2>3. P \ {t} = P
      BY <1>3
    <2>4. \A k \in Heads : ~OnList(ls, k, t)
      BY <1>3 DEF Linked, OnList
    <2> QED BY <2>2, <2>3, <2>4, Zenon DEF Fewer
  <1>4. CASE t \in P
    <2>1. PICK h \in Heads : \E i \in 1 .. Len(ls[h]) : ls[h][i] = t
      BY <1>4 DEF Linked
    <2>2. PICK i \in 1 .. Len(ls[h]) : ls[h][i] = t
      BY <2>1
    <2>3. new[h] = list_del(ls[h], i)
      BY <1>2, <2>2
    <2>4. \A k \in Heads : k # h => new[k] = ls[k]
      BY <1>1, <2>2 DEF Linked
    <2>5. /\ new[h] \in Seq(Timer) /\ Len(new[h]) = Len(ls[h]) - 1
          /\ \A j \in 1 .. Len(ls[h]) - 1 : new[h][j] = IF j < i THEN ls[h][j] ELSE ls[h][j + 1]
      <3>1. ls[h] \in Seq(Timer)
        BY <1>0, Zenon
      <3> QED BY <2>3, <3>1, Removed, Zenon
    <2>6. \A k \in Heads : new[k] \in Seq(Timer)
      BY <1>0, <2>4, <2>5
    <2>7. new \in [Heads -> Seq(Timer)]
      BY <2>6 DEF detach_timer
    <2> HIDE DEF new
    <2>8. /\ Linked(new, P \ {ls[h][i]})
          /\ Fewer(new, ls, ls[h][i])
      BY <2>4, <2>5, <2>7, Dropped, Zenon
    <2> QED BY <2>2, <2>7, <2>8 DEF new
  <1> QED BY <1>3, <1>4

\* internal_add_timer of a timer that is on no list.
LEMMA AddedTimer ==
  ASSUME Types, NEW ls \in [Heads -> Seq(Timer)], NEW P \in SUBSET Timer, Linked(ls, P),
         NEW t \in Timer, t \notin P, NEW e \in Int
  PROVE  /\ internal_add_timer(ls, t, e) \in [Heads -> Seq(Timer)]
         /\ Linked(internal_add_timer(ls, t, e), P \cup {t})
         /\ \A k \in Heads, u \in Timer :
              OnList(internal_add_timer(ls, t, e), k, u) =>
                \/ OnList(ls, k, u)
                \/ u = t /\ k = IF InTick THEN Queued ELSE Place(e, timer_jiffies, index[1])
  <1> DEFINE h == IF InTick THEN Queued ELSE Place(e, timer_jiffies, index[1])
  <1>1. Queued \in Heads
    BY DEF Heads
  <1>2. Place(e, timer_jiffies, index[1]) \in Heads
    <2>1. 1 \in 1 .. NOOF_TVECS
      BY TimerAssumption
    <2> QED BY <2>1, PlaceIsHead DEF Types
  <1>3. h \in Heads
    BY <1>1, <1>2, Zenon
  <1>4. internal_add_timer(ls, t, e) = list_add_tail(ls, h, t)
    BY DEF internal_add_timer
  <1> HIDE DEF h
  <1>5. /\ list_add_tail(ls, h, t) \in [Heads -> Seq(Timer)]
        /\ Linked(list_add_tail(ls, h, t), P \cup {t})
        /\ \A k \in Heads, u \in Timer :
             OnList(list_add_tail(ls, h, t), k, u) => OnList(ls, k, u) \/ (k = h /\ u = t)
    BY <1>3, Added, Zenon
  <1> QED BY <1>4, <1>5, Zenon DEF h

\* Moving the first timer of a list to where it belongs now.
LEMMA Moved ==
  ASSUME Types, WheelInv, NEW h \in Heads, lists[h] # <<>>,
         lists' = internal_add_timer([lists EXCEPT ![h] = Tail(@)], Head(lists[h]), expires[Head(lists[h])]),
         UNCHANGED pending
  PROVE  /\ WheelInv'
         /\ \A k \in Heads, u \in Timer :
              OnList(lists', k, u) =>
                \/ OnList(lists, k, u) /\ u # Head(lists[h])
                \/ /\ u = Head(lists[h])
                   /\ k = IF InTick THEN Queued ELSE Place(expires[u], timer_jiffies, index[1])
  <1> DEFINE ls == [lists EXCEPT ![h] = Tail(@)]
             t  == Head(lists[h])
  <1>1. /\ ls \in [Heads -> Seq(Timer)] /\ Linked(ls, pending \ {t}) /\ t \in pending
        /\ Fewer(ls, lists, t)
    BY Popped, Zenon DEF WheelInv
  <1>2. t \in Timer /\ expires[t] \in Int
    BY <1>1 DEF WheelInv, Types
  <1>3. lists' = internal_add_timer(ls, t, expires[t])
    OBVIOUS
  <1> HIDE DEF ls, t
  <1>4. pending \ {t} \in SUBSET Timer /\ t \notin pending \ {t} /\ (pending \ {t}) \cup {t} = pending
    BY <1>1 DEF WheelInv
  <1>5. /\ lists' \in [Heads -> Seq(Timer)] /\ Linked(lists', (pending \ {t}) \cup {t})
        /\ \A k \in Heads, u \in Timer :
             OnList(lists', k, u) =>
               \/ OnList(ls, k, u)
               \/ u = t /\ k = IF InTick THEN Queued ELSE Place(expires[t], timer_jiffies, index[1])
    <2>1. PICK Q \in SUBSET Timer : Q = pending \ {t}
      BY <1>4, Zenon
    <2>2. PICK e \in Int : e = expires[t]
      BY <1>2, Zenon
    <2>3. ls \in [Heads -> Seq(Timer)] /\ Linked(ls, Q) /\ t \in Timer /\ t \notin Q
      BY <1>1, <1>2, <1>4, <2>1, Zenon
    <2>4. /\ internal_add_timer(ls, t, e) \in [Heads -> Seq(Timer)]
          /\ Linked(internal_add_timer(ls, t, e), Q \cup {t})
          /\ \A k \in Heads, u \in Timer :
               OnList(internal_add_timer(ls, t, e), k, u) =>
                 \/ OnList(ls, k, u)
                 \/ u = t /\ k = IF InTick THEN Queued ELSE Place(e, timer_jiffies, index[1])
      BY <2>3, AddedTimer, Zenon
    <2> QED BY <1>3, <2>1, <2>2, <2>4, Zenon
  <1>6. WheelInv'
    BY <1>4, <1>5, Zenon DEF WheelInv
  <1>7. \A k \in Heads, u \in Timer :
          OnList(lists', k, u) =>
            \/ OnList(lists, k, u) /\ u # t
            \/ u = t /\ k = IF InTick THEN Queued ELSE Place(expires[u], timer_jiffies, index[1])
    BY <1>1, <1>5, Zenon DEF Fewer
  <1> QED BY <1>6, <1>7, Zenon DEF t

\* The timers that are due are pending.
LEMMA CurrentIsPending ==
  ASSUME Types, WheelInv, Current # <<>>
  PROVE  /\ Head(Current) \in pending /\ Head(Current) \in Timer
         /\ <<1, index[1]>> \in Heads /\ OnList(lists, <<1, index[1]>>, Head(Current))
  <1>1. 1 \in 1 .. NOOF_TVECS
    BY TimerAssumption
  <1>2. <<1, index[1]>> \in Heads
    BY <1>1, SizeAssumption DEF Types, Heads, Tv1
  <1> QED BY <1>2, Popped, Zenon DEF Current, WheelInv

\* A word has positive size.
LEMMA WordIsPositive == WORD \in Nat \ {0} /\ \A x \in Int, d \in Delays : (x + d) % WORD \in Int
  <1>1. NOOF_TVECS \in 1 .. NOOF_TVECS
    BY TimerAssumption
  <1>2. WORD \in Nat \ {0}
    BY <1>1, SizeAssumption DEF WORD
  <1>3. Delays \subseteq Int
    BY TimerAssumption
  <1> HIDE DEF WORD
  <1> QED BY <1>2, <1>3

-----------------------------------------------------------------------------
\* Every step keeps each timer in one place.
LEMMA WheelStep ==
  ASSUME Types, WheelInv, [Next]_vars
  PROVE  WheelInv'
  <1>1. CASE UNCHANGED <<lists, pending>>
    BY <1>1 DEF WheelInv
  <1>2. ASSUME NEW t \in Timer, NEW d \in Delays, add_timer(t, d) PROVE WheelInv'
    <2>1. /\ lists' = internal_add_timer(lists, t, expires'[t]) /\ t \notin pending /\ pending' = pending \cup {t}
          /\ expires'[t] = (jiffies + d) % WORD
      BY <1>2 DEF add_timer, Types
    <2>2. expires'[t] \in Int
      BY <2>1, WordIsPositive DEF Types
    <2> QED BY <2>1, <2>2, AddedTimer, Zenon DEF WheelInv
  <1>3. ASSUME NEW t \in Timer, NEW d \in Delays, mod_timer(t, d) PROVE WheelInv'
    <2>1. /\ lists' = internal_add_timer(detach_timer(lists, t), t, expires'[t]) /\ pending' = (pending \ {t}) \cup {t}
          /\ expires'[t] = (jiffies + d) % WORD
      BY <1>3 DEF mod_timer, Types
    <2>2. expires'[t] \in Int
      BY <2>1, WordIsPositive DEF Types
    <2>3. detach_timer(lists, t) \in [Heads -> Seq(Timer)] /\ Linked(detach_timer(lists, t), pending \ {t})
      BY Detached, Zenon DEF WheelInv
    <2>4. pending \ {t} \in SUBSET Timer /\ t \notin pending \ {t}
      BY DEF WheelInv
    <2> QED BY <2>1, <2>2, <2>3, <2>4, AddedTimer, Zenon DEF WheelInv
  <1>4. ASSUME NEW t \in Timer, lists' = detach_timer(lists, t), pending' = pending \ {t} PROVE WheelInv'
    BY <1>4, Detached, Zenon DEF WheelInv
  <1>5. ASSUME NEW t \in Timer, del_timer(t) PROVE WheelInv'
    BY <1>4, <1>5 DEF del_timer
  <1>6. ASSUME NEW c \in Deleter, DelSyncStep(c) PROVE WheelInv'
    <2>1. CASE DelSyncRound(c)
      <3>1. deleting[c] \in Timer
        BY <2>1 DEF DelSyncRound, Types
      <3> QED BY <1>4, <2>1, <3>1 DEF DelSyncRound
    <2>2. CASE DelSyncSpin(c) \/ DelSyncReturn(c)
      BY <1>1, <2>2 DEF DelSyncSpin, DelSyncReturn, wheelvars
    <2> QED BY <1>6, <2>1, <2>2 DEF DelSyncStep
  <1>7. CASE Cascade
    <2>1. <<tvec, index[tvec]>> \in Heads
      <3>1. tvec \in 2 .. NOOF_TVECS
        BY <1>7, TimerAssumption DEF Cascade, Types
      <3>2. index[tvec] \in 0 .. TVN_SIZE - 1
        BY <3>1, SizeAssumption DEF Types
      <3> QED BY <3>1, <3>2 DEF Heads
    <2> QED BY <1>7, <2>1, Moved, Zenon DEF Cascade
  <1>8. CASE TickRequeue
    <2>1. Queued \in Heads
      BY DEF Heads
    <2> QED BY <1>8, <2>1, Moved, Zenon DEF TickRequeue
  <1>9. CASE TickRun
    <2>2. Head(Current) \in Timer
      BY <1>9, CurrentIsPending DEF TickRun
    <2> QED BY <1>4, <1>9, <2>2 DEF TickRun
  <1>10. ASSUME \/ do_timer \/ BhStart \/ TickBegin \/ CascadeEnd \/ FnReturn \/ TickEnd \/ BhEnd
                \/ \E t \in Timer, c \in Deleter : DelSyncCall(c, t)
         PROVE  WheelInv'
    BY <1>1, <1>10 DEF do_timer, BhStart, TickBegin, CascadeEnd, FnReturn, TickEnd, BhEnd, DelSyncCall, wheelvars
  <1>11. CASE UNCHANGED vars
    BY <1>1, <1>11 DEF vars, wheelvars
  <1> QED BY <1>2, <1>3, <1>5, <1>6, <1>7, <1>8, <1>9, <1>10, <1>11 DEF Next, run_timer_list

\* Every step keeps the types.
LEMMA TypesStep ==
  ASSUME Types, WheelInv, [Next]_vars
  PROVE  Types'
  <1>0. 1 \in 1 .. NOOF_TVECS /\ 2 \in 1 .. NOOF_TVECS /\ NOOF_TVECS \in Nat
    BY TimerAssumption
  <1> USE <1>0 DEF Types, wheelvars, delvars
  <1>1. ASSUME NEW t \in Timer, NEW d \in Delays, add_timer(t, d) \/ mod_timer(t, d) PROVE Types'
    <2>1. (jiffies + d) % WORD \in Int
      BY WordIsPositive
    <2> QED BY <1>1, <2>1 DEF add_timer, mod_timer
  <1>2. ASSUME NEW t \in Timer, del_timer(t) PROVE Types'
    BY <1>2 DEF del_timer
  <1>3. ASSUME NEW t \in Timer, NEW c \in Deleter, DelSyncCall(c, t) PROVE Types'
    BY <1>3 DEF DelSyncCall
  <1>4. ASSUME NEW c \in Deleter, DelSyncStep(c) PROVE Types'
    BY <1>4, Zenon DEF DelSyncStep, DelSyncRound, DelSyncSpin, DelSyncReturn
  <1>5. CASE do_timer
    <2>1. (jiffies + 1) % WORD \in Int
      BY WordIsPositive
    <2> QED BY <1>5, <2>1 DEF do_timer
  <1>6. CASE TickRun
    <2>1. Head(Current) \in Timer
      BY <1>6, CurrentIsPending DEF TickRun, WheelInv
    <2> QED BY <1>6, <2>1 DEF TickRun
  <1>7. CASE CascadeEnd
    <2>1. (index[tvec] + 1) % TVN_SIZE \in Nat /\ (index[tvec] + 1) % TVN_SIZE < TVN_SIZE
      <3>1. TVN_SIZE \in Nat \ {0} /\ index[tvec] + 1 \in Int
        BY SizeAssumption
      <3>2. (index[tvec] + 1) % TVN_SIZE \in 0 .. TVN_SIZE - 1
        BY <3>1, DivMod, Zenon
      <3> QED BY <3>1, <3>2
    <2>2. tvec # 1
      BY <1>7 DEF CascadeEnd
    <2> QED BY <1>7, <2>1, <2>2 DEF CascadeEnd
  <1>8. CASE TickEnd
    <2>1. (index[1] + 1) % TVR_SIZE \in Nat /\ (index[1] + 1) % TVR_SIZE < TVR_SIZE
      BY SizeAssumption
    <2>2. (timer_jiffies + 1) % WORD \in Int
      BY WordIsPositive
    <2> QED BY <1>8, <2>1, <2>2 DEF TickEnd
  <1>9. CASE BhStart \/ TickBegin \/ Cascade \/ FnReturn \/ TickRequeue \/ BhEnd
    BY <1>9 DEF BhStart, TickBegin, Cascade, FnReturn, TickRequeue, BhEnd
  <1>10. CASE UNCHANGED vars
    BY <1>10 DEF vars
  <1> HIDE DEF Types
  <1> QED BY <1>1, <1>2, <1>3, <1>4, <1>5, <1>6, <1>7, <1>8, <1>9, <1>10 DEF Next, run_timer_list

\* Every step keeps del_timer_sync's promise.
LEMMA DelStep ==
  ASSUME Types, WheelInv, DelSyncInv, [Next]_vars
  PROVE  DelSyncInv'
  <1>1. ASSUME NEW t \in Timer, NEW d \in Delays, add_timer(t, d) \/ mod_timer(t, d) PROVE DelSyncInv'
    <2>1. /\ UNCHANGED <<dpc, deleting, running_timer>> /\ pending' = pending \cup {t}
          /\ (\A c \in Deleter : deleting[c] # t) \/ running_timer = t
      BY <1>1 DEF add_timer, mod_timer, MayStart, delvars
    <2> QED BY <2>1 DEF DelSyncInv
  <1>2. ASSUME NEW t \in Timer, del_timer(t) PROVE DelSyncInv'
    BY <1>2 DEF del_timer, delvars, DelSyncInv
  <1>3. ASSUME NEW t \in Timer, NEW c \in Deleter, DelSyncCall(c, t) PROVE DelSyncInv'
    BY <1>3 DEF DelSyncCall, wheelvars, DelSyncInv, Types
  <1>4. ASSUME NEW c \in Deleter, DelSyncStep(c) PROVE DelSyncInv'
    <2>1. CASE DelSyncRound(c)
      BY <2>1 DEF DelSyncRound, DelSyncInv, Types
    <2>2. CASE DelSyncSpin(c)
      BY <2>2 DEF DelSyncSpin, DelSyncInv, Types, wheelvars
    <2>3. CASE DelSyncReturn(c)
      BY <2>3 DEF DelSyncReturn, DelSyncInv, Types, wheelvars
    <2> QED BY <1>4, <2>1, <2>2, <2>3 DEF DelSyncStep
  <1>5. CASE TickRun
    <2>1. /\ Head(Current) \in pending /\ pending' = pending \ {Head(Current)}
          /\ running_timer' = Head(Current) /\ UNCHANGED <<dpc, deleting>>
      BY <1>5, CurrentIsPending DEF TickRun, delvars
    <2> QED BY <2>1 DEF DelSyncInv
  <1>6. CASE FnReturn
    <2>1. \A c \in Deleter : dpc[c] = "done" => deleting[c] # NoTimer
      BY TimerAssumption DEF Types
    <2> QED BY <1>6, <2>1 DEF FnReturn, wheelvars, delvars, DelSyncInv
  <1>7. ASSUME UNCHANGED <<dpc, deleting, pending, running_timer>> PROVE DelSyncInv'
    BY <1>7 DEF DelSyncInv
  <1>8. CASE do_timer \/ BhStart \/ TickBegin \/ Cascade \/ CascadeEnd \/ TickEnd \/ TickRequeue \/ BhEnd
    BY <1>7, <1>8 DEF do_timer, BhStart, TickBegin, Cascade, CascadeEnd, TickEnd, TickRequeue, BhEnd,
       wheelvars, delvars
  <1>9. CASE UNCHANGED vars
    BY <1>7, <1>9 DEF vars, wheelvars, delvars
  <1> QED BY <1>1, <1>2, <1>3, <1>4, <1>5, <1>6, <1>8, <1>9 DEF Next, run_timer_list

-----------------------------------------------------------------------------
(* The time of the wheel. *)

\* Vector n is still to be cascaded at timer_jiffies, if that is the time for it.
Due(n) == pc \in {"idle", "loop"} \/ (pc = "cascade" /\ n >= tvec)

\* The ticks until vector n is cascaded, and those the bottom half is behind.
UntilNow(n) == Until(Span(n - 1), timer_jiffies, Due(n))
Lag == Signed(jiffies - timer_jiffies)

\* The bottom half is ahead of the clock by a tick at most, when it has finished.
TimeInv ==
  /\ jiffies \in 0 .. WORD - 1 /\ timer_jiffies \in 0 .. WORD - 1
  /\ Lag \in -1 .. MaxLag
  /\ pc \in {"cascade", "repeat", "fn"} => Lag >= 0

\* The index of a vector is that of the list it will be cascaded from next.
IndexInv ==
  /\ index[1] = timer_jiffies % TVR_SIZE
  /\ \A n \in 2 .. NOOF_TVECS : index[n] = ((timer_jiffies + UntilNow(n)) \div Span(n - 1)) % TVN_SIZE
  /\ pc = "cascade" => timer_jiffies % Span(tvec - 1) = 0

\* Every step keeps the time.
LEMMA TimeStep ==
  ASSUME Types, TimeInv, [Next]_vars
  PROVE  TimeInv'
  <1>1. ASSUME UNCHANGED <<jiffies, timer_jiffies>>,
               pc' \in {"cascade", "repeat", "fn"} => Lag >= 0
        PROVE  TimeInv'
    <2>1. Lag' = Lag
      BY <1>1 DEF Lag
    <2> QED BY <1>1, <2>1 DEF TimeInv
  <1>2. CASE do_timer
    <2>1. /\ jiffies' = (jiffies + 1) % WORD /\ Lag < MaxLag /\ UNCHANGED <<timer_jiffies, pc>>
      BY <1>2 DEF do_timer, Lag
    <2>2. (jiffies + 1) % WORD \in 0 .. WORD - 1
      BY NextWord DEF TimeInv
    <2>3. Lag' = Lag + 1
      BY <2>1, LagStep DEF TimeInv, Lag
    <2>4. MaxLag \in Nat
      BY TimerAssumption
    <2> QED BY <2>1, <2>2, <2>3, <2>4 DEF TimeInv
  <1>3. CASE TickEnd
    <2>1. /\ timer_jiffies' = (timer_jiffies + 1) % WORD /\ Lag >= 0 /\ UNCHANGED jiffies /\ pc' = "loop"
      BY <1>3 DEF TickEnd, TimeInv
    <2>2. (timer_jiffies + 1) % WORD \in 0 .. WORD - 1
      BY NextWord DEF TimeInv
    <2>3. Lag' = Lag - 1
      BY <2>1, LagStep DEF TimeInv, Lag
    <2>4. MaxLag \in Nat
      BY TimerAssumption
    <2> QED BY <2>1, <2>2, <2>3, <2>4 DEF TimeInv
  <1>4. CASE TickBegin
    BY <1>1, <1>4 DEF TickBegin, Lag
  <1>5. CASE BhStart \/ Cascade \/ CascadeEnd \/ TickRun \/ FnReturn \/ TickRequeue \/ BhEnd
    BY <1>1, <1>5 DEF BhStart, Cascade, CascadeEnd, TickRun, FnReturn, TickRequeue, BhEnd, TimeInv
  <1>6. ASSUME NEW t \in Timer,
               \/ \E d \in Delays : add_timer(t, d) \/ mod_timer(t, d)
               \/ del_timer(t) \/ \E c \in Deleter : DelSyncCall(c, t)
        PROVE  TimeInv'
    BY <1>1, <1>6 DEF add_timer, mod_timer, del_timer, DelSyncCall, TimeInv
  <1>7. ASSUME NEW c \in Deleter, DelSyncStep(c) PROVE TimeInv'
    BY <1>1, <1>7 DEF DelSyncStep, DelSyncRound, DelSyncSpin, DelSyncReturn, TimeInv
  <1>8. CASE UNCHANGED vars
    BY <1>1, <1>8 DEF vars, TimeInv
  <1> QED BY <1>2, <1>3, <1>4, <1>5, <1>6, <1>7, <1>8 DEF Next, run_timer_list

\* A vector that is not at the end of its range is not cascaded, nor are those
\* after it.
LEMMA NotDue ==
  ASSUME NEW now \in Int, NEW m \in 1 .. NOOF_TVECS, now % Span(m) # 0, NEW n \in 2 .. NOOF_TVECS, m <= n - 1,
         NEW due1, NEW due2
  PROVE  Until(Span(n - 1), now, due1) = Until(Span(n - 1), now, due2)
  <1>1. n - 1 \in 1 .. NOOF_TVECS /\ m \in 1 .. n - 1
    BY TimerAssumption
  <1>2. PICK k \in Nat \ {0} : Span(n - 1) = Span(m) * k
    BY <1>1, Divides, Zenon
  <1>3. Span(m) \in Nat \ {0}
    BY SizeAssumption
  <1>4. now % Span(n - 1) # 0
    BY <1>2, <1>3, MultipleOf, Zenon
  <1> QED BY <1>4, Zenon DEF Until

\* The start of a tick changes no vector's time: none but those that come full
\* circle is due.
LEMMA UntilBegin ==
  ASSUME Types, TimeInv, IndexInv, TickBegin
  PROVE  /\ UNCHANGED <<index, timer_jiffies, lists, expires>> /\ pc = "loop"
         /\ \A n \in 2 .. NOOF_TVECS : UntilNow(n)' = UntilNow(n)
         /\ pc' = "cascade" => timer_jiffies % Span(tvec' - 1) = 0
         /\ lists[Queued] = <<>> /\ pc' \in {"cascade", "repeat"}
  <1>1. /\ UNCHANGED <<index, timer_jiffies, lists, expires>> /\ pc = "loop" /\ lists[Queued] = <<>>
        /\ IF index[1] = 0 THEN pc' = "cascade" /\ tvec' = 2 ELSE pc' = "repeat"
    BY DEF TickBegin, wheelvars
  <1>2. index[1] = timer_jiffies % Span(1) /\ timer_jiffies \in Int /\ 1 \in 1 .. NOOF_TVECS
    BY SizeAssumption, TimerAssumption DEF IndexInv, Types
  <1>3. CASE index[1] = 0
    <2>1. \A n \in 2 .. NOOF_TVECS : Due(n) /\ Due(n)'
      BY <1>1, <1>3 DEF Due
    <2>2. ASSUME NEW n \in 2 .. NOOF_TVECS PROVE UntilNow(n)' = UntilNow(n)
      BY <1>1, <2>1 DEF UntilNow, Until
    <2>3. tvec' - 1 = 1
      BY <1>1, <1>3
    <2> QED BY <1>1, <1>2, <1>3, <2>2, <2>3
  <1>4. CASE index[1] # 0
    <2>1. ASSUME NEW n \in 2 .. NOOF_TVECS PROVE UntilNow(n)' = UntilNow(n)
      <3>1. 1 <= n - 1
        OBVIOUS
      <3>2. \A d1, d2 : Until(Span(n - 1), timer_jiffies, d1) = Until(Span(n - 1), timer_jiffies, d2)
        BY <1>2, <1>4, <3>1, NotDue, Zenon
      <3> QED BY <1>1, <3>2, Zenon DEF UntilNow
    <2> QED BY <1>1, <1>4, <2>1
  <1> QED BY <1>3, <1>4

\* The end of a cascade changes its vector's.
LEMMA UntilCascaded ==
  ASSUME Types, TimeInv, IndexInv, CascadeEnd
  PROVE  /\ UNCHANGED <<timer_jiffies, lists, expires>> /\ pc = "cascade" /\ tvec \in 2 .. NOOF_TVECS
         /\ \A n \in 2 .. NOOF_TVECS \ {tvec} : UntilNow(n)' = UntilNow(n)
         /\ UntilNow(tvec) = 0 /\ Until(Span(tvec - 1), timer_jiffies, FALSE) = Span(tvec - 1)
         /\ \A n \in 2 .. NOOF_TVECS : n = tvec => ~Due(n)'
         /\ pc' = "cascade" => timer_jiffies % Span(tvec' - 1) = 0
         /\ index' = [index EXCEPT ![tvec] = (index[tvec] + 1) % TVN_SIZE]
         /\ index[tvec] = (timer_jiffies \div Span(tvec - 1)) % TVN_SIZE
         /\ lists[<<tvec, index[tvec]>>] = <<>> /\ pc' \in {"cascade", "repeat"}
  <1>1. /\ UNCHANGED <<timer_jiffies, lists, expires>> /\ pc = "cascade" /\ tvec \in 2 .. NOOF_TVECS
        /\ index' = [index EXCEPT ![tvec] = (index[tvec] + 1) % TVN_SIZE]
        /\ IF index'[tvec] = 1 /\ tvec < NOOF_TVECS THEN tvec' = tvec + 1 /\ pc' = "cascade" ELSE pc' = "repeat"
        /\ lists[<<tvec, index[tvec]>>] = <<>>
    BY TimerAssumption DEF CascadeEnd, wheelvars, Types
  <1>2. timer_jiffies \in Int /\ timer_jiffies % Span(tvec - 1) = 0
    BY <1>1 DEF IndexInv, Types
  <1>3. PICK b \in Nat \ {0}, v \in Nat \ {0, 1} : b = Span(tvec - 1) /\ v = TVN_SIZE /\ Span(tvec) = v * b
    BY <1>1, WordIs, Zenon
  <1>4. PICK q \in Int : q = timer_jiffies \div b /\ timer_jiffies = b * q
    <2>1. PICK p \in Int, r \in 0 .. b - 1 : p = timer_jiffies \div b /\ r = timer_jiffies % b /\ timer_jiffies = b * p + r
      BY <1>2, Divided, Zenon
    <2>2. timer_jiffies = b * p
      BY <1>2, <1>3, <2>1
    <2> QED BY <2>1, <2>2, Zenon
  <1>5. UntilNow(tvec) = 0 /\ Until(Span(tvec - 1), timer_jiffies, FALSE) = Span(tvec - 1)
    <2>1. Due(tvec)
      BY <1>1 DEF Due
    <2>2. b - 0 = b
      OBVIOUS
    <2> QED BY <1>2, <1>3, <2>1, <2>2, Zenon DEF UntilNow, Until
  <1>6. index[tvec] = q % v
    <2>1. index[tvec] = ((timer_jiffies + 0) \div Span(tvec - 1)) % TVN_SIZE
      BY <1>1, <1>5, Zenon DEF IndexInv
    <2>2. timer_jiffies + 0 = timer_jiffies
      BY <1>2
    <2> QED BY <1>3, <1>4, <2>1, <2>2, Zenon
  <1>7. index'[tvec] = 1 <=> timer_jiffies % Span(tvec) = 0
    <2>1. ((q % v) + 1) % v = 1 <=> (b * q) % (v * b) = 0
      BY NextVector, Zenon
    <2>2. tvec \in 1 .. NOOF_TVECS /\ index'[tvec] = (index[tvec] + 1) % TVN_SIZE
      BY <1>1 DEF Types
    <2> QED BY <1>3, <1>4, <1>6, <2>1, <2>2, Zenon
  <1>8. CASE index'[tvec] = 1 /\ tvec < NOOF_TVECS
    <2>1. pc' = "cascade" /\ tvec' = tvec + 1 /\ tvec' - 1 = tvec
      BY <1>1, <1>8
    <2>2. \A n \in 2 .. NOOF_TVECS \ {tvec} : Due(n)' = Due(n)
      BY <1>1, <2>1 DEF Due
    <2>3. \A n \in 2 .. NOOF_TVECS : n = tvec => ~Due(n)'
      BY <1>1, <2>1 DEF Due
    <2>4. \A n \in 2 .. NOOF_TVECS \ {tvec} : UntilNow(n)' = UntilNow(n)
      BY <1>1, <2>2, Zenon DEF UntilNow
    <2> QED BY <1>1, <1>3, <1>4, <1>5, <1>6, <1>7, <1>8, <2>1, <2>3, <2>4, Zenon
  <1>9. CASE ~(index'[tvec] = 1 /\ tvec < NOOF_TVECS)
    <2>1. pc' = "repeat"
      BY <1>1, <1>9, Zenon
    <2>2. \A n \in 2 .. NOOF_TVECS : ~Due(n)'
      BY <2>1 DEF Due
    <2>3. ASSUME NEW n \in 2 .. NOOF_TVECS \ {tvec} PROVE UntilNow(n)' = UntilNow(n)
      <3>1. CASE n < tvec
        <4>1. ~Due(n)
          BY <1>1, <3>1 DEF Due
        <4> QED BY <1>1, <2>2, <4>1, Zenon DEF UntilNow, Until
      <3>2. CASE ~(n < tvec)
        <4>1. tvec < NOOF_TVECS /\ tvec <= n - 1 /\ tvec \in 1 .. NOOF_TVECS
          BY <1>1, <2>3, <3>2, TimerAssumption
        <4>2. timer_jiffies % Span(tvec) # 0
          BY <1>7, <1>9, <4>1, Zenon
        <4>3. \A d1, d2 : Until(Span(n - 1), timer_jiffies, d1) = Until(Span(n - 1), timer_jiffies, d2)
          BY <1>2, <4>1, <4>2, NotDue
        <4> QED BY <1>1, <4>3, Zenon DEF UntilNow
      <3> QED BY <3>1, <3>2
    <2>4. pc' # "cascade"
      BY <2>1
    <2> QED BY <1>1, <1>3, <1>4, <1>5, <1>6, <2>1, <2>2, <2>3, <2>4, Zenon
  <1> QED BY <1>8, <1>9, Zenon

\* A tick brings every vector's nearer.
LEMMA UntilTicked ==
  ASSUME Types, TimeInv, IndexInv, TickEnd
  PROVE  /\ UNCHANGED <<lists, expires>> /\ pc = "repeat" /\ pc' = "loop" /\ Current = <<>>
         /\ timer_jiffies' = (timer_jiffies + 1) % WORD
         /\ \A n \in 2 .. NOOF_TVECS :
              /\ UntilNow(n)' = UntilNow(n) - 1
              /\ ((timer_jiffies' + UntilNow(n)') \div Span(n - 1)) % TVN_SIZE = index[n]
         /\ index' = [index EXCEPT ![1] = (index[1] + 1) % TVR_SIZE]
         /\ (index[1] + 1) % TVR_SIZE = timer_jiffies' % TVR_SIZE
  <1>1. /\ UNCHANGED <<lists, expires>> /\ pc = "repeat" /\ pc' = "loop" /\ Current = <<>>
        /\ timer_jiffies' = (timer_jiffies + 1) % WORD
        /\ index' = [index EXCEPT ![1] = (index[1] + 1) % TVR_SIZE]
    BY DEF TickEnd, wheelvars
  <1>2. timer_jiffies \in Int /\ timer_jiffies \in 0 .. WORD - 1
    BY DEF TimeInv, Types
  <1>3. PICK next \in Int, k \in Int : next = timer_jiffies' /\ next = (timer_jiffies + 1) + WORD * k
    BY <1>1, <1>2, NextWord
  <1>4. ASSUME NEW n \in 2 .. NOOF_TVECS
        PROVE  /\ UntilNow(n)' = UntilNow(n) - 1
               /\ ((timer_jiffies' + UntilNow(n)') \div Span(n - 1)) % TVN_SIZE = index[n]
    <2>1. PICK b \in Nat \ {0}, v \in Nat \ {0}, j \in Nat \ {0} :
            b = Span(n - 1) /\ v = TVN_SIZE /\ WORD = b * (v * j)
      BY WordIs
    <2>2. PICK i \in Int : i = j * k
      OBVIOUS
    <2>3. (b * (v * j)) * k = b * (v * i)
      <3>1. \A x1, x2, x3, x4 \in Int : (x1 * (x2 * x3)) * x4 = x1 * (x2 * (x3 * x4))
        OBVIOUS
      <3> QED BY <2>2, <3>1
    <2>4. next = (timer_jiffies + 1) + b * (v * i)
      BY <1>3, <2>1, <2>3, Zenon
    <2>5. /\ Until(b, next, TRUE) = Until(b, timer_jiffies, FALSE) - 1
          /\ ((next + Until(b, next, TRUE)) \div b) % v = ((timer_jiffies + Until(b, timer_jiffies, FALSE)) \div b) % v
      <3> DEFINE nx == (timer_jiffies + 1) + b * (v * i)
      <3>1. /\ Until(b, nx, TRUE) = Until(b, timer_jiffies, FALSE) - 1
            /\ ((nx + Until(b, nx, TRUE)) \div b) % v = ((timer_jiffies + Until(b, timer_jiffies, FALSE)) \div b) % v
        BY <1>2, UntilTick, Zenon
      <3>2. nx = next
        BY <2>4
      <3> HIDE DEF nx
      <3> QED BY <3>1, <3>2, Zenon
    <2>6. ~Due(n) /\ Due(n)'
      BY <1>1 DEF Due
    <2>7. UntilNow(n) = Until(b, timer_jiffies, FALSE)
      BY <2>1, <2>6, Zenon DEF UntilNow, Until
    <2>8. UntilNow(n)' = Until(b, next, TRUE)
      BY <1>3, <2>1, <2>6, Zenon DEF UntilNow, Until
    <2>9. index[n] = ((timer_jiffies + UntilNow(n)) \div b) % v
      BY <2>1, Zenon DEF IndexInv
    <2> QED BY <1>3, <2>1, <2>5, <2>7, <2>8, <2>9, Zenon
  <1>5. (index[1] + 1) % TVR_SIZE = timer_jiffies' % TVR_SIZE
    <2>1. PICK b \in Nat \ {0}, j \in Nat \ {0} : b = TVR_SIZE /\ WORD = b * j
      BY WordIsTv1
    <2>2. PICK x \in Int, i \in Int : x = timer_jiffies + 1 /\ i = j * k
      BY <1>2
    <2>3. (b * j) * k = b * i
      <3>1. \A x1, x2, x3 \in Int : (x1 * x2) * x3 = x1 * (x2 * x3)
        OBVIOUS
      <3> QED BY <2>2, <3>1
    <2>4. (x + b * i) % b = x % b
      BY AddMultiple, Zenon
    <2>5. ((timer_jiffies % b) + 1) % b = (timer_jiffies + 1) % b
      BY <1>2, SuccessorMod, Zenon
    <2> QED BY <1>3, <2>1, <2>2, <2>3, <2>4, <2>5, Zenon DEF IndexInv
  <1> QED BY <1>1, <1>4, <1>5

\* The other steps change none.
Elsewhere ==
  \/ do_timer \/ BhStart \/ Cascade \/ TickRun \/ FnReturn \/ TickRequeue \/ BhEnd
  \/ \E t \in Timer :
       \/ \E d \in Delays : add_timer(t, d) \/ mod_timer(t, d)
       \/ del_timer(t)
       \/ \E c \in Deleter : DelSyncCall(c, t)
  \/ \E c \in Deleter : DelSyncStep(c)
  \/ UNCHANGED vars

\* These are all the steps.
LEMMA NextIs ==
  ASSUME [Next]_vars
  PROVE  Elsewhere \/ TickBegin \/ CascadeEnd \/ TickEnd
  BY Zenon DEF Next, run_timer_list, Elsewhere

\* They leave the time to the next cascade alone.
LEMMA UntilKept ==
  ASSUME Types, Elsewhere
  PROVE  /\ UNCHANGED <<index, timer_jiffies>>
         /\ \A n \in 2 .. NOOF_TVECS : UntilNow(n)' = UntilNow(n)
         /\ pc' = "cascade" => pc = "cascade" /\ UNCHANGED tvec
  <1>1. ASSUME UNCHANGED <<index, timer_jiffies, tvec>>,
               \/ UNCHANGED pc
               \/ pc \in {"idle", "loop"} /\ pc' \in {"idle", "loop"}
               \/ pc \in {"repeat", "fn"} /\ pc' \in {"repeat", "fn"}
        PROVE  /\ UNCHANGED <<index, timer_jiffies>>
               /\ \A n \in 2 .. NOOF_TVECS : UntilNow(n)' = UntilNow(n)
               /\ pc' = "cascade" => pc = "cascade" /\ UNCHANGED tvec
    <2>1. \A n \in 2 .. NOOF_TVECS : Due(n)' = Due(n)
      BY <1>1 DEF Due
    <2>2. \A n \in 2 .. NOOF_TVECS : UntilNow(n)' = UntilNow(n)
      BY <1>1, <2>1, Zenon DEF UntilNow
    <2> QED BY <1>1, <2>2
  <1>2. CASE do_timer \/ BhStart \/ Cascade \/ TickRun \/ FnReturn \/ TickRequeue \/ BhEnd
    BY <1>1, <1>2 DEF do_timer, BhStart, Cascade, TickRun, FnReturn, TickRequeue, BhEnd
  <1>3. CASE \/ \E t \in Timer :
                  \/ \E d \in Delays : add_timer(t, d) \/ mod_timer(t, d)
                  \/ del_timer(t)
                  \/ \E c \in Deleter : DelSyncCall(c, t)
             \/ \E c \in Deleter : DelSyncStep(c)
    <2>1. UNCHANGED <<index, timer_jiffies, tvec, pc>>
      BY <1>3 DEF add_timer, mod_timer, del_timer, DelSyncCall, DelSyncStep, DelSyncRound, DelSyncSpin, DelSyncReturn
    <2> QED BY <1>1, <2>1
  <1>4. CASE UNCHANGED vars
    BY <1>1, <1>4 DEF vars
  <1> QED BY <1>2, <1>3, <1>4, Zenon DEF Elsewhere

\* Every step keeps the indexes in time.
LEMMA IndexStep ==
  ASSUME Types, TimeInv, IndexInv, [Next]_vars
  PROVE  IndexInv'
  <1>1. ASSUME UNCHANGED <<index, timer_jiffies>>, \A n \in 2 .. NOOF_TVECS : UntilNow(n)' = UntilNow(n),
               pc' = "cascade" => timer_jiffies % Span(tvec' - 1) = 0
        PROVE  IndexInv'
    BY <1>1, Zenon DEF IndexInv
  <1>2. CASE Elsewhere
    <2>1. pc' = "cascade" => timer_jiffies % Span(tvec' - 1) = 0
      BY <1>2, UntilKept, Zenon DEF IndexInv
    <2> QED BY <1>1, <1>2, <2>1, UntilKept, Zenon
  <1>3. CASE TickBegin
    BY <1>1, <1>3, UntilBegin, Zenon
  <1>4. CASE CascadeEnd
    <2>1. /\ UNCHANGED timer_jiffies /\ tvec \in 2 .. NOOF_TVECS
          /\ \A n \in 2 .. NOOF_TVECS \ {tvec} : UntilNow(n)' = UntilNow(n)
          /\ Until(Span(tvec - 1), timer_jiffies, FALSE) = Span(tvec - 1)
          /\ \A n \in 2 .. NOOF_TVECS : n = tvec => ~Due(n)'
          /\ pc' = "cascade" => timer_jiffies % Span(tvec' - 1) = 0
          /\ index' = [index EXCEPT ![tvec] = (index[tvec] + 1) % TVN_SIZE]
          /\ index[tvec] = (timer_jiffies \div Span(tvec - 1)) % TVN_SIZE
      BY <1>4, UntilCascaded, Zenon
    <2>2. index'[1] = index[1] /\ \A n \in 2 .. NOOF_TVECS \ {tvec} : index'[n] = index[n]
      BY <2>1, TimerAssumption DEF Types
    <2>3. index'[tvec] = (index[tvec] + 1) % TVN_SIZE
      BY <2>1 DEF Types
    <2>4. ASSUME NEW n \in 2 .. NOOF_TVECS
          PROVE  index'[n] = ((timer_jiffies' + UntilNow(n)') \div Span(n - 1)) % TVN_SIZE
      <3>1. CASE n # tvec
        BY <2>1, <2>2, <3>1, Zenon DEF IndexInv
      <3>2. CASE n = tvec
        <4>1. UntilNow(n)' = Span(n - 1)
          BY <2>1, <3>2, Zenon DEF UntilNow, Until
        <4>2. PICK b \in Nat \ {0}, v \in Nat \ {0} : b = Span(n - 1) /\ v = TVN_SIZE
          BY WordIs
        <4>3. timer_jiffies \in Int
          BY DEF Types
        <4>4. (timer_jiffies + b * 1) \div b = (timer_jiffies \div b) + 1 /\ b * 1 = b
          <5>1. 1 \in Int /\ b * 1 = b
            OBVIOUS
          <5> QED BY <4>3, <5>1, AddMultiple, Zenon
        <4>5. PICK q \in Int : q = timer_jiffies \div b
          BY <4>3, DivMod, Zenon
        <4>6. ((q % v) + 1) % v = (q + 1) % v
          BY SuccessorMod, Zenon
        <4> QED BY <2>1, <2>3, <3>2, <4>1, <4>2, <4>4, <4>5, <4>6, Zenon
      <3> QED BY <3>1, <3>2
    <2> QED BY <2>1, <2>2, <2>4, Zenon DEF IndexInv
  <1>5. CASE TickEnd
    <2>1. /\ pc' = "loop"
          /\ \A n \in 2 .. NOOF_TVECS :
               ((timer_jiffies' + UntilNow(n)') \div Span(n - 1)) % TVN_SIZE = index[n]
          /\ index' = [index EXCEPT ![1] = (index[1] + 1) % TVR_SIZE]
          /\ (index[1] + 1) % TVR_SIZE = timer_jiffies' % TVR_SIZE
      BY <1>5, UntilTicked, Zenon
    <2>2. index'[1] = (index[1] + 1) % TVR_SIZE /\ \A n \in 2 .. NOOF_TVECS : index'[n] = index[n]
      BY <2>1, TimerAssumption DEF Types
    <2>3. pc' # "cascade"
      BY <2>1
    <2> QED BY <2>1, <2>2, <2>3, Zenon DEF IndexInv
  <1> QED BY <1>2, <1>3, <1>4, <1>5, NextIs, Zenon

-----------------------------------------------------------------------------
(* The places of the timers. *)

\* A timer queued during a tick is near the wheel's time after it too.
Slack == IF pc = "loop" THEN 0 ELSE 1

\* A timer that expires at e may be on list h.
Right(h, e) ==
  /\ h = Queued => Near(e, timer_jiffies, Slack)
  /\ \A s : h = <<1, s>> => Right1(s, e, timer_jiffies)
  /\ \A n \in 2 .. NOOF_TVECS : \A s : h = <<n, s>> => RightN(n, s, e, timer_jiffies, UntilNow(n))

\* Every timer is on a list it may be on.
PlacedInv == \A h \in Heads, t \in Timer : OnList(lists, h, t) => Right(h, expires[t])

\* Near after the tick if near before and after it.
LEMMA NearLoop ==
  ASSUME NEW e \in Int, NEW now \in Int, Near(e, now, 1)
  PROVE  Near(e, now, 0)
  <1>1. PICK w \in Nat, h \in Nat : w = WORD /\ h = Half
    BY Sizes
  <1>2. PICK a \in 0 .. WORD - 1 : a = Ahead(e, now)
    BY AheadIs, Zenon
  <1>3. a \in Int
    BY <1>1
  <1>4. a > (w - h) + 1 => a > (w - h) + 0
    BY <1>3
  <1> QED BY <1>1, <1>2, <1>4, Zenon DEF Near

\* A timer stays where it is while the wheel stands.
LEMMA RightKept ==
  ASSUME NEW h \in Heads, NEW e \in Int, Right(h, e), timer_jiffies \in Int, UNCHANGED timer_jiffies,
         \A n \in 2 .. NOOF_TVECS : UntilNow(n)' = UntilNow(n),
         h = Queued => pc' = "loop" \/ Slack' = Slack
  PROVE  Right(h, e)'
  <1>1. ASSUME h = Queued PROVE Near(e, timer_jiffies', Slack')
    <2>1. CASE Slack' = Slack
      BY <1>1, <2>1, Zenon DEF Right
    <2>2. CASE Slack' # Slack
      <3>1. Slack' = 0 /\ Slack = 1
        BY <1>1, <2>2 DEF Slack
      <3>2. Near(e, timer_jiffies, 1)
        BY <1>1, <3>1, Zenon DEF Right
      <3>3. Near(e, timer_jiffies, 0)
        BY <3>2, NearLoop
      <3> QED BY <3>1, <3>3
    <2> QED BY <2>1, <2>2
  <1> QED BY <1>1, Zenon DEF Right

\* internal_add_timer's choice is right.
LEMMA RightPlaced ==
  ASSUME Types, IndexInv, NEW e \in Int, Near(e, timer_jiffies, 0)
  PROVE  Right(Place(e, timer_jiffies, index[1]), e)
  <1>0. timer_jiffies \in Int /\ index[1] = timer_jiffies % TVR_SIZE
    BY DEF Types, IndexInv
  <1> DEFINE Chosen(n, s) ==
        /\ Place(e, timer_jiffies, index[1]) = <<n, s>>
        /\ n = 1 => Right1(s, e, timer_jiffies)
        /\ n # 1 => /\ Span(n - 1) <= Ahead(e, timer_jiffies) /\ Ahead(e, timer_jiffies) < Span(n)
                    /\ Ahead(e, timer_jiffies) < Half
                    /\ s = (e \div Span(n - 1)) % TVN_SIZE
  <1>5. PICK n \in 1 .. NOOF_TVECS : \E s : Chosen(n, s)
    BY <1>0, PlaceIsRight, Zenon
  <1>1. PICK s : Chosen(n, s)
    BY <1>5, Zenon
  <1>2. <<n, s>> # Queued
    BY DEF Queued
  <1>3. ASSUME NEW r, <<n, s>> = <<1, r>> PROVE Right1(r, e, timer_jiffies)
    BY <1>1, <1>3
  <1>4. ASSUME NEW m \in 2 .. NOOF_TVECS, NEW r, <<n, s>> = <<m, r>>
        PROVE  RightN(m, r, e, timer_jiffies, UntilNow(m))
    <2>1. n = m /\ s = r /\ n # 1
      BY <1>4
    <2>2. PICK u \in 0 .. Span(m - 1) : u = UntilNow(m)
      <3>1. Span(m - 1) \in Nat \ {0}
        BY WordIs
      <3> QED BY <1>0, <3>1, UntilRange, Zenon DEF UntilNow
    <2>3. PICK a \in 0 .. WORD - 1 : a = Ahead(e, timer_jiffies)
      BY <1>0, AheadIs, Zenon
    <2>4. Span(m - 1) <= a /\ a < Span(m) /\ a < Half /\ s = (e \div Span(m - 1)) % TVN_SIZE
      BY <1>1, <2>1, <2>3, Zenon
    <2>5. u <= a /\ a < u + Span(m)
      <3>1. Span(m - 1) \in Nat /\ Span(m) \in Nat
        <4>1. m \in 1 .. NOOF_TVECS
          OBVIOUS
        <4> QED BY <4>1, WordIs, SizeAssumption
      <3>2. WORD \in Nat
        BY Sizes
      <3> QED BY <2>4, <3>1, <3>2
    <2> QED BY <2>1, <2>2, <2>3, <2>4, <2>5, Zenon DEF RightN
  <1> QED BY <1>1, <1>2, <1>3, <1>4, Zenon DEF Right

\* A timer that a caller adds goes where it belongs.
LEMMA RightAdded ==
  ASSUME Types, TimeInv, IndexInv, Unlocked, NEW d \in Delays, NEW e \in Int, e = (jiffies + d) % WORD
  PROVE  Right(IF InTick THEN Queued ELSE Place(e, timer_jiffies, index[1]), e)
  <1>1. PICK j \in 0 .. WORD - 1, now \in 0 .. WORD - 1 :
          j = jiffies /\ now = timer_jiffies /\ Signed(j - now) \in -1 .. MaxLag
    BY Zenon DEF TimeInv, Lag
  <1>2. Near((j + d) % WORD, now, 0) /\ (Signed(j - now) >= 0 => Near((j + d) % WORD, now, 1))
    BY <1>1, NearIs, Zenon
  <1>3. CASE pc = "fn"
    <2>1. InTick /\ Slack = 1 /\ Lag >= 0
      BY <1>3 DEF InTick, Slack, TimeInv
    <2>2. Near(e, timer_jiffies, 1)
      BY <1>1, <1>2, <2>1, Zenon DEF Lag
    <2>3. (\A s : Queued # <<1, s>>) /\ \A n \in 2 .. NOOF_TVECS : \A s : Queued # <<n, s>>
      BY DEF Queued
    <2>4. Right(Queued, e)
      BY <2>1, <2>2, <2>3, Zenon DEF Right
    <2> QED BY <2>1, <2>4, Zenon
  <1>4. CASE pc = "idle"
    <2>1. ~InTick
      BY <1>4 DEF InTick
    <2>2. Near(e, timer_jiffies, 0)
      BY <1>1, <1>2, Zenon
    <2> QED BY <2>1, <2>2, RightPlaced, Zenon
  <1> QED BY <1>3, <1>4 DEF Unlocked

\* The places stay right when timers leave their lists, or go to a right one.
LEMMA PlacedKept ==
  ASSUME Types, PlacedInv, UNCHANGED timer_jiffies,
         \A n \in 2 .. NOOF_TVECS : UntilNow(n)' = UntilNow(n),
         pc' = "loop" \/ Slack' = Slack \/ lists'[Queued] = <<>>,
         expires' \in [Timer -> Int],
         \A h \in Heads, u \in Timer :
           OnList(lists', h, u) => \/ OnList(lists, h, u) /\ expires'[u] = expires[u]
                                   \/ Right(h, expires'[u])
  PROVE  PlacedInv'
  <1> SUFFICES ASSUME NEW h \in Heads, NEW u \in Timer, OnList(lists', h, u)
               PROVE  Right(h, expires[u])'
    BY Zenon DEF PlacedInv
  <1>1. PICK e \in Int : e = expires'[u]
    OBVIOUS
  <1>2. Right(h, e)
    BY <1>1, Zenon DEF PlacedInv
  <1>3. lists'[Queued] = <<>> => h # Queued
    BY DEF OnList
  <1>4. timer_jiffies \in Int
    BY DEF Types
  <1>5. Right(h, e)'
    BY <1>2, <1>3, <1>4, RightKept, Zenon
  <1> QED BY <1>1, <1>5, Zenon

\* The other steps keep the places right.
LEMMA PlacedElsewhere ==
  ASSUME Types, WheelInv, TimeInv, IndexInv, PlacedInv, Elsewhere
  PROVE  PlacedInv'
  <1>1. UNCHANGED timer_jiffies /\ \A n \in 2 .. NOOF_TVECS : UntilNow(n)' = UntilNow(n)
    BY UntilKept, Zenon
  <1>2. ASSUME UNCHANGED expires, \A h \in Heads, u \in Timer : OnList(lists', h, u) => OnList(lists, h, u),
               pc' = "loop" \/ Slack' = Slack \/ lists'[Queued] = <<>>
        PROVE  PlacedInv'
    <2>1. expires' \in [Timer -> Int]
      BY <1>2 DEF Types
    <2> QED BY <1>1, <1>2, <2>1, PlacedKept, Zenon
  <1>3. ASSUME NEW t \in Timer, lists' = detach_timer(lists, t), UNCHANGED expires, Slack' = Slack PROVE PlacedInv'
    <2>1. Fewer(detach_timer(lists, t), lists, t)
      BY Detached, Zenon DEF WheelInv
    <2> QED BY <1>2, <1>3, <2>1, Zenon DEF Fewer
  <1>4. ASSUME NEW t \in Timer, NEW d \in Delays, NEW P \in SUBSET Timer, t \notin P,
               NEW ls \in [Heads -> Seq(Timer)], Linked(ls, P),
               \A h \in Heads, u \in Timer : OnList(ls, h, u) => OnList(lists, h, u),
               Unlocked, UNCHANGED pc,
               expires' = [expires EXCEPT ![t] = (jiffies + d) % WORD],
               lists' = internal_add_timer(ls, t, expires'[t])
        PROVE  PlacedInv'
    <2>1. expires'[t] = (jiffies + d) % WORD /\ \A u \in Timer : u # t => expires'[u] = expires[u]
      BY <1>4 DEF Types
    <2>2. PICK e \in Int : e = (jiffies + d) % WORD
      BY WordIsPositive DEF Types
    <2>3. expires' \in [Timer -> Int]
      BY <1>4, <2>2 DEF Types
    <2>4. Right(IF InTick THEN Queued ELSE Place(e, timer_jiffies, index[1]), e)
      BY <1>4, <2>2, RightAdded, Zenon
    <2>5. \A k \in Heads, u \in Timer :
            OnList(internal_add_timer(ls, t, e), k, u) =>
              \/ OnList(ls, k, u)
              \/ u = t /\ k = IF InTick THEN Queued ELSE Place(e, timer_jiffies, index[1])
      BY <1>4, AddedTimer, Zenon
    <2>6. \A k \in Heads : ~OnList(ls, k, t)
      <3>1. \A h \in Heads : \A i \in 1 .. Len(ls[h]) : ls[h][i] \in P
        BY <1>4, Zenon DEF Linked
      <3> QED BY <1>4, <3>1, Zenon DEF OnList
    <2>7. \A h \in Heads, u \in Timer :
            OnList(lists', h, u) => \/ OnList(lists, h, u) /\ expires'[u] = expires[u]
                                    \/ Right(h, expires'[u])
      BY <1>4, <2>1, <2>2, <2>4, <2>5, <2>6, Zenon
    <2>8. Slack' = Slack
      BY <1>4, Zenon DEF Slack
    <2> QED BY <1>1, <2>3, <2>7, <2>8, PlacedKept, Zenon
  <1>5. ASSUME NEW t \in Timer, NEW d \in Delays, add_timer(t, d) PROVE PlacedInv'
    <2>1. /\ Unlocked /\ UNCHANGED pc /\ t \notin pending
          /\ expires' = [expires EXCEPT ![t] = (jiffies + d) % WORD]
          /\ lists' = internal_add_timer(lists, t, expires'[t])
      BY <1>5 DEF add_timer
    <2>2. lists \in [Heads -> Seq(Timer)] /\ pending \in SUBSET Timer /\ Linked(lists, pending)
      BY DEF WheelInv
    <2> QED BY <1>4, <2>1, <2>2, Zenon
  <1>6. ASSUME NEW t \in Timer, NEW d \in Delays, mod_timer(t, d) PROVE PlacedInv'
    <2>1. /\ Unlocked /\ UNCHANGED pc
          /\ expires' = [expires EXCEPT ![t] = (jiffies + d) % WORD]
          /\ lists' = internal_add_timer(detach_timer(lists, t), t, expires'[t])
      BY <1>6 DEF mod_timer
    <2>2. /\ detach_timer(lists, t) \in [Heads -> Seq(Timer)] /\ Linked(detach_timer(lists, t), pending \ {t})
          /\ Fewer(detach_timer(lists, t), lists, t)
      BY Detached, Zenon DEF WheelInv
    <2>3. pending \ {t} \in SUBSET Timer /\ t \notin pending \ {t}
      BY DEF WheelInv
    <2>4. \A h \in Heads, u \in Timer : OnList(detach_timer(lists, t), h, u) => OnList(lists, h, u)
      BY <2>2, Zenon DEF Fewer
    <2> QED BY <1>4, <2>1, <2>2, <2>3, <2>4, Zenon
  <1>7. ASSUME NEW t \in Timer, del_timer(t) PROVE PlacedInv'
    <2>1. lists' = detach_timer(lists, t) /\ UNCHANGED expires /\ Slack' = Slack
      BY <1>7, Zenon DEF del_timer, Slack
    <2> QED BY <1>3, <2>1
  <1>8. ASSUME NEW c \in Deleter, DelSyncRound(c) PROVE PlacedInv'
    <2>1. lists' = detach_timer(lists, deleting[c]) /\ UNCHANGED expires /\ Slack' = Slack
      BY <1>8, Zenon DEF DelSyncRound, Slack
    <2>2. deleting[c] \in Timer
      BY <1>8 DEF DelSyncRound, Types
    <2> QED BY <1>3, <2>1, <2>2
  <1>9. CASE TickRun
    <2>1. lists' = detach_timer(lists, Head(Current)) /\ UNCHANGED expires /\ Slack' = Slack
      BY <1>9 DEF TickRun, Slack
    <2>2. Head(Current) \in Timer
      BY <1>9, CurrentIsPending DEF TickRun
    <2> QED BY <1>3, <2>1, <2>2
  <1>10. ASSUME NEW h \in Heads, lists[h] # <<>>, ~InTick, UNCHANGED <<pending, expires, pc>>,
                lists' = internal_add_timer([lists EXCEPT ![h] = Tail(@)], Head(lists[h]), expires[Head(lists[h])]),
                \A t \in Timer : OnList(lists, h, t) => Near(expires[t], timer_jiffies, 0)
         PROVE  PlacedInv'
    <2>1. \A k \in Heads, u \in Timer :
            OnList(lists', k, u) =>
              \/ OnList(lists, k, u) /\ u # Head(lists[h])
              \/ /\ u = Head(lists[h])
                 /\ k = IF InTick THEN Queued ELSE Place(expires[u], timer_jiffies, index[1])
      BY <1>10, Moved, Zenon
    <2>2. OnList(lists, h, Head(lists[h])) /\ Head(lists[h]) \in Timer
      <3>1. Head(lists[h]) \in pending /\ OnList(lists, h, Head(lists[h]))
        BY <1>10, Popped, Zenon DEF WheelInv
      <3> QED BY <3>1 DEF WheelInv
    <2>3. PICK t \in Timer, e \in Int : t = Head(lists[h]) /\ e = expires[t] /\ Near(e, timer_jiffies, 0)
      BY <1>10, <2>2 DEF Types
    <2>4. Right(Place(e, timer_jiffies, index[1]), e)
      BY <2>3, RightPlaced, Zenon
    <2>5. expires' \in [Timer -> Int] /\ Slack' = Slack
      BY <1>10 DEF Types, Slack
    <2>6. \A k \in Heads, u \in Timer :
            OnList(lists', k, u) => \/ OnList(lists, k, u) /\ expires'[u] = expires[u]
                                    \/ Right(k, expires'[u])
      BY <1>10, <2>1, <2>3, <2>4, Zenon
    <2> QED BY <1>1, <2>5, <2>6, PlacedKept, Zenon
  <1>11. CASE Cascade
    <2>1. /\ pc = "cascade" /\ lists[<<tvec, index[tvec]>>] # <<>> /\ UNCHANGED <<pending, expires, pc>>
          /\ lists' = internal_add_timer([lists EXCEPT ![<<tvec, index[tvec]>>] = Tail(@)],
                        Head(lists[<<tvec, index[tvec]>>]), expires[Head(lists[<<tvec, index[tvec]>>])])
      BY <1>11, Zenon DEF Cascade
    <2>2. tvec \in 2 .. NOOF_TVECS /\ ~InTick
      BY <2>1 DEF Types, InTick
    <2>3. <<tvec, index[tvec]>> \in Heads
      <3>1. index[tvec] \in 0 .. TVN_SIZE - 1
        BY <2>2, SizeAssumption DEF Types
      <3> QED BY <2>2, <3>1 DEF Heads
    <2>4. ASSUME NEW t \in Timer, OnList(lists, <<tvec, index[tvec]>>, t)
          PROVE  Near(expires[t], timer_jiffies, 0)
      BY <2>2, <2>3, <2>4, Zenon DEF PlacedInv, Right, RightN, Near
    <2> QED BY <1>10, <2>1, <2>2, <2>3, <2>4, Zenon
  <1>12. CASE TickRequeue
    <2>1. /\ pc = "loop" /\ lists[Queued] # <<>> /\ UNCHANGED <<pending, expires, pc>>
          /\ lists' = internal_add_timer([lists EXCEPT ![Queued] = Tail(@)],
                        Head(lists[Queued]), expires[Head(lists[Queued])])
      BY <1>12, Zenon DEF TickRequeue
    <2>2. Queued \in Heads
      BY DEF Heads
    <2>3. ~InTick /\ Slack = 0
      BY <2>1 DEF InTick, Slack
    <2>4. ASSUME NEW t \in Timer, OnList(lists, Queued, t) PROVE Near(expires[t], timer_jiffies, 0)
      BY <2>2, <2>3, <2>4, Zenon DEF PlacedInv, Right
    <2> QED BY <1>10, <2>1, <2>2, <2>3, <2>4, Zenon
  <1>13. CASE BhEnd
    <2>1. UNCHANGED <<lists, expires>> /\ lists'[Queued] = <<>>
      BY <1>13 DEF BhEnd, wheelvars
    <2> QED BY <1>2, <2>1, Zenon
  <1>14. CASE BhStart
    <2>1. UNCHANGED <<lists, expires>> /\ pc' = "loop"
      BY <1>14 DEF BhStart, wheelvars
    <2> QED BY <1>2, <2>1, Zenon
  <1>15. ASSUME \/ do_timer \/ FnReturn
                \/ \E t \in Timer, c \in Deleter : DelSyncCall(c, t)
                \/ \E c \in Deleter : DelSyncSpin(c) \/ DelSyncReturn(c)
                \/ UNCHANGED vars
         PROVE  PlacedInv'
    <2>1. UNCHANGED <<lists, expires>> /\ (UNCHANGED pc \/ (pc' # "loop" /\ pc # "loop"))
      BY <1>15 DEF do_timer, FnReturn, DelSyncCall, DelSyncSpin, DelSyncReturn, vars, wheelvars
    <2>2. Slack' = Slack
      BY <2>1, Zenon DEF Slack
    <2> QED BY <1>2, <2>1, <2>2, Zenon
  <1> QED BY <1>5, <1>6, <1>7, <1>8, <1>9, <1>11, <1>12, <1>13, <1>14, <1>15, Zenon DEF Elsewhere, DelSyncStep

\* The timers that stay in a vector when it has been cascaded expire after it is
\* cascaded again.
LEMMA PlacedCascaded ==
  ASSUME Types, TimeInv, IndexInv, PlacedInv, CascadeEnd
  PROVE  PlacedInv'
  <1>1. /\ UNCHANGED <<timer_jiffies, lists, expires>> /\ pc = "cascade" /\ tvec \in 2 .. NOOF_TVECS
        /\ \A n \in 2 .. NOOF_TVECS \ {tvec} : UntilNow(n)' = UntilNow(n)
        /\ UntilNow(tvec) = 0 /\ Until(Span(tvec - 1), timer_jiffies, FALSE) = Span(tvec - 1)
        /\ \A n \in 2 .. NOOF_TVECS : n = tvec => ~Due(n)'
        /\ index[tvec] = (timer_jiffies \div Span(tvec - 1)) % TVN_SIZE
        /\ lists[<<tvec, index[tvec]>>] = <<>> /\ pc' \in {"cascade", "repeat"}
    BY UntilCascaded, Zenon
  <1>2. SUFFICES ASSUME NEW h \in Heads, NEW t \in Timer, OnList(lists, h, t), NEW e \in Int, e = expires[t]
                 PROVE  Right(h, e)'
    <2>1. expires \in [Timer -> Int]
      BY DEF Types
    <2> QED BY <1>1, <1>2, <2>1, Zenon DEF PlacedInv
  <1>3. Right(h, e)
    BY <1>2, Zenon DEF PlacedInv
  <1>4. Slack' = Slack
    BY <1>1 DEF Slack
  <1>5. ASSUME NEW n \in 2 .. NOOF_TVECS, NEW s, h = <<n, s>>
        PROVE  RightN(n, s, e, timer_jiffies, UntilNow(n)')
    <2>1. RightN(n, s, e, timer_jiffies, UntilNow(n))
      BY <1>3, <1>5, Zenon DEF Right
    <2>2. CASE n # tvec
      BY <1>1, <2>1, <2>2, Zenon
    <2>3. CASE n = tvec
      <3>1. UntilNow(n)' = Span(n - 1) /\ UntilNow(n) = 0
        BY <1>1, <2>3, Zenon DEF UntilNow, Until
      <3>2. s # (timer_jiffies \div Span(n - 1)) % TVN_SIZE
        <4>1. lists[h] # <<>>
          BY <1>2 DEF OnList
        <4> QED BY <1>1, <1>5, <2>3, <4>1, Zenon
      <3>3. PICK b \in Nat \ {0}, v \in Nat \ {0} : b = Span(n - 1) /\ v = TVN_SIZE
        BY WordIs
      <3>4. PICK a \in 0 .. WORD - 1 : a = Ahead(e, timer_jiffies)
        BY AheadIs, Zenon DEF Types
      <3>5. a \in Nat /\ WORD \in Nat
        BY Sizes
      <3>6. s = ((timer_jiffies + a) \div b) % v
        BY <2>1, <3>3, <3>4, SlotIs, Zenon DEF RightN, Types
      <3>7. PICK q \in Int : q = timer_jiffies \div b /\ timer_jiffies = b * q
        <4>1. timer_jiffies % b = 0
          BY <1>1, <2>3, <3>3, Zenon DEF IndexInv
        <4>2. PICK q \in Int, r \in 0 .. b - 1 : q = timer_jiffies \div b /\ r = timer_jiffies % b /\ timer_jiffies = b * q + r
          BY Divided, Zenon DEF Types
        <4>3. b * q + 0 = b * q
          OBVIOUS
        <4> QED BY <4>1, <4>2, <4>3, Zenon
      <3>8. b <= a
        <4>1. ((b * q + a) \div b) % v # q % v
          BY <3>2, <3>3, <3>6, <3>7, Zenon
        <4> QED BY <3>5, <4>1, CascadedNot, Zenon
      <3>9. a < 0 + Span(n)
        BY <2>1, <3>1, <3>4, Zenon DEF RightN
      <3>10. a < b + Span(n)
        <4>1. Span(n) \in Nat
          <5>1. n \in 1 .. NOOF_TVECS
            OBVIOUS
          <5> QED BY <5>1, SizeAssumption
        <4> QED BY <3>5, <3>9, <4>1
      <3> QED BY <2>1, <3>1, <3>3, <3>4, <3>8, <3>10, Zenon DEF RightN
    <2> QED BY <2>2, <2>3
  <1> QED BY <1>1, <1>3, <1>4, <1>5, Zenon DEF Right

\* When the wheel moves on every timer is a tick nearer; those that were due have
\* left the current list.
LEMMA PlacedTicked ==
  ASSUME Types, TimeInv, IndexInv, PlacedInv, TickEnd
  PROVE  PlacedInv'
  <1>1. /\ UNCHANGED <<lists, expires>> /\ pc = "repeat" /\ pc' = "loop" /\ Current = <<>>
        /\ timer_jiffies' = (timer_jiffies + 1) % WORD
        /\ \A n \in 2 .. NOOF_TVECS : UntilNow(n)' = UntilNow(n) - 1
    BY UntilTicked, Zenon
  <1>2. SUFFICES ASSUME NEW h \in Heads, NEW t \in Timer, OnList(lists, h, t), NEW e \in Int, e = expires[t]
                 PROVE  Right(h, e)'
    <2>1. expires \in [Timer -> Int]
      BY DEF Types
    <2> QED BY <1>1, <1>2, <2>1, Zenon DEF PlacedInv
  <1>3. Right(h, e)
    BY <1>2, Zenon DEF PlacedInv
  <1>4. Slack = 1 /\ Slack' = 0
    BY <1>1 DEF Slack
  <1>5. PICK w \in Nat \ {0, 1}, hf \in Nat, now \in 0 .. WORD - 1 :
          w = WORD /\ hf = Half /\ 1 < hf /\ hf < w /\ now = timer_jiffies
    BY Sizes DEF TimeInv
  <1>6. PICK a \in 0 .. w - 1, b \in Int : /\ a = Ahead(e, timer_jiffies) /\ b = Ahead(e, timer_jiffies')
                                           /\ b = IF a = 0 THEN w - 1 ELSE a - 1
    <2>1. (e - ((now + 1) % w)) % w = IF (e - now) % w = 0 THEN w - 1 ELSE ((e - now) % w) - 1
      BY <1>5, DistanceTick, Zenon
    <2>2. Ahead(e, timer_jiffies') = IF Ahead(e, timer_jiffies) = 0 THEN w - 1 ELSE Ahead(e, timer_jiffies) - 1
      BY <1>1, <1>5, <2>1, Zenon DEF Ahead
    <2>3. PICK a \in 0 .. w - 1 : a = Ahead(e, timer_jiffies)
      BY <1>5, AheadIs, Zenon DEF Types
    <2>4. (IF a = 0 THEN w - 1 ELSE a - 1) \in Int
      OBVIOUS
    <2> QED BY <2>2, <2>3, <2>4, Zenon
  <1>7. ASSUME h = Queued PROVE Near(e, timer_jiffies', 0)
    <2>1. a < hf \/ a > (w - hf) + 1
      BY <1>3, <1>4, <1>5, <1>6, <1>7, Zenon DEF Right, Near
    <2>2. b < hf \/ b > (w - hf) + 0
      BY <1>5, <1>6, <2>1
    <2> QED BY <1>5, <1>6, <2>2, Zenon DEF Near
  <1>8. ASSUME NEW s, h = <<1, s>> PROVE Right1(s, e, timer_jiffies')
    <2>1. s # timer_jiffies % TVR_SIZE
      <3>1. lists[h] # <<>>
        BY <1>2 DEF OnList
      <3> QED BY <1>1, <1>8, <3>1, Zenon DEF IndexInv, Current
    <2>2. a < TVR_SIZE /\ s = e % TVR_SIZE
      BY <1>3, <1>6, <1>8, <2>1, Zenon DEF Right, Right1
    <2>3. a # 0
      <3>1. SUFFICES ASSUME a = 0 PROVE FALSE
        OBVIOUS
      <3>2. timer_jiffies + 0 = timer_jiffies
        BY DEF Types
      <3>3. e % TVR_SIZE = (timer_jiffies + a) % TVR_SIZE
        BY <1>6, ListIs, Zenon DEF Types
      <3> QED BY <2>1, <2>2, <3>1, <3>2, <3>3, Zenon
    <2>4. b < TVR_SIZE
      BY <1>6, <2>2, <2>3, SizeAssumption
    <2> QED BY <1>6, <2>2, <2>4, Zenon DEF Right1
  <1>9. ASSUME NEW n \in 2 .. NOOF_TVECS, NEW s, h = <<n, s>>
        PROVE  RightN(n, s, e, timer_jiffies', UntilNow(n)')
    <2>1. RightN(n, s, e, timer_jiffies, UntilNow(n))
      BY <1>3, <1>9, Zenon DEF Right
    <2>2. PICK p \in Nat \ {0}, m \in Nat : p = Span(n - 1) /\ m = Span(n)
      <3>1. n \in 1 .. NOOF_TVECS
        OBVIOUS
      <3> QED BY <3>1, WordIs, SizeAssumption
    <2>3. PICK u \in 0 .. p : u = UntilNow(n)
      BY <2>2, UntilRange, Zenon DEF UntilNow, Types
    <2>4. PICK x \in 0 .. p : x = UntilNow(n)'
      <3>1. PICK next \in Int : next = timer_jiffies'
        <4>1. (now + 1) % w \in Int
          BY <1>5
        <4> QED BY <1>1, <1>5, <4>1, Zenon
      <3>2. PICK due : due = Due(n)'
        OBVIOUS
      <3>3. Until(p, next, due) \in 0 .. p
        BY UntilRange, Zenon
      <3> QED BY <2>2, <3>1, <3>2, <3>3, Zenon DEF UntilNow
    <2>5. x = u - 1
      BY <1>1, <2>3, <2>4, Zenon
    <2>6. u <= a /\ a < u + m /\ a < hf /\ s = (e \div p) % TVN_SIZE
      BY <1>5, <1>6, <2>1, <2>2, <2>3, Zenon DEF RightN
    <2>7. x <= b /\ b < x + m /\ b < hf
      BY <1>6, <2>5, <2>6
    <2> QED BY <1>5, <1>6, <2>2, <2>4, <2>6, <2>7, Zenon DEF RightN
  <1> QED BY <1>4, <1>7, <1>8, <1>9, Zenon DEF Right

\* Every step keeps the places right.
LEMMA PlacedStep ==
  ASSUME Types, WheelInv, TimeInv, IndexInv, PlacedInv, [Next]_vars
  PROVE  PlacedInv'
  <1>1. CASE TickBegin
    <2>1. /\ UNCHANGED <<timer_jiffies, lists, expires>> /\ lists[Queued] = <<>>
          /\ \A n \in 2 .. NOOF_TVECS : UntilNow(n)' = UntilNow(n)
      BY <1>1, UntilBegin, Zenon
    <2>2. expires' \in [Timer -> Int] /\ lists'[Queued] = <<>>
      BY <2>1 DEF Types
    <2> QED BY <2>1, <2>2, PlacedKept, Zenon
  <1> QED BY <1>1, PlacedElsewhere, PlacedCascaded, PlacedTicked, NextIs, Zenon

-----------------------------------------------------------------------------
\* The inductive invariant.
IInv == Types /\ WheelInv /\ DelSyncInv /\ TimeInv /\ IndexInv /\ PlacedInv

\* It holds at boot.
LEMMA InitIInv ==
  ASSUME Init
  PROVE  IInv
  <1>1. Types
    BY TimerAssumption, SizeAssumption DEF Init, Types
  <1>2. lists \in [Heads -> Seq(Timer)] /\ \A h \in Heads : Len(lists[h]) = 0
    BY DEF Init
  <1>3. WheelInv
    BY <1>2 DEF Init, WheelInv, Linked
  <1>4. \A b \in Nat \ {0} : 0 % b = 0 /\ 0 \div b = 0
    <2> TAKE b \in Nat \ {0}
    <2>1. 0 = b * 0 + 0 /\ 0 \in 0 .. b - 1
      OBVIOUS
    <2> QED BY <2>1, Unique
  <1>5. TimeInv
    <2>1. WORD \in Nat \ {0} /\ 0 < WORD \div 2 /\ 0 \in 0 .. WORD - 1
      BY Sizes DEF Half
    <2>2. jiffies = 0 /\ timer_jiffies = 0 /\ 0 - 0 = 0 /\ pc = "idle"
      BY DEF Init
    <2>3. 0 % WORD = 0
      BY <1>4, <2>1, Zenon
    <2>4. Lag = 0
      BY <2>1, <2>2, <2>3, Zenon DEF Lag, Signed
    <2>5. 0 \in -1 .. MaxLag /\ 0 >= 0
      BY TimerAssumption
    <2> QED BY <2>1, <2>2, <2>4, <2>5, Zenon DEF TimeInv
  <1>6. IndexInv
    <2>1. timer_jiffies = 0 /\ 0 + 0 = 0 /\ pc = "idle" /\ pc # "cascade" /\ \A n \in 1 .. NOOF_TVECS : index[n] = 0
      BY DEF Init
    <2>2. 0 % TVR_SIZE = 0 /\ index[1] = 0
      BY <1>4, <2>1, SizeAssumption, TimerAssumption
    <2>3. ASSUME NEW n \in 2 .. NOOF_TVECS
          PROVE  index[n] = ((timer_jiffies + UntilNow(n)) \div Span(n - 1)) % TVN_SIZE
      <3>1. Span(n - 1) \in Nat \ {0} /\ TVN_SIZE \in Nat \ {0} /\ n \in 1 .. NOOF_TVECS
        BY WordIs
      <3>2. 0 % Span(n - 1) = 0 /\ 0 \div Span(n - 1) = 0 /\ 0 % TVN_SIZE = 0
        BY <1>4, <3>1, Zenon
      <3>3. Due(n)
        BY <2>1 DEF Due
      <3>4. UntilNow(n) = 0
        BY <2>1, <3>2, <3>3, Zenon DEF UntilNow, Until
      <3> QED BY <2>1, <3>1, <3>2, <3>4, Zenon
    <2> QED BY <2>1, <2>2, <2>3, Zenon DEF IndexInv
  <1>7. PlacedInv
    BY <1>2 DEF PlacedInv, OnList
  <1>8. DelSyncInv
    BY DEF Init, DelSyncInv
  <1> QED BY <1>1, <1>3, <1>5, <1>6, <1>7, <1>8, Zenon DEF IInv

\* Every step keeps it.
THEOREM Invariant == Spec => []IInv
  <1>1. Init => IInv
    BY InitIInv
  <1>2. IInv /\ [Next]_vars => IInv'
    BY TypesStep, WheelStep, DelStep, TimeStep, IndexStep, PlacedStep, Zenon DEF IInv
  <1> QED BY <1>1, <1>2, PTL DEF Spec

\* A timer is pending exactly when it is on a list, on one list and once, also
\* while run_timer_list moves timers from list to list.
THEOREM PendingIsLinked == Spec => []PendingInv
  <1>1. IInv => PendingInv
    <2> SUFFICES ASSUME IInv PROVE PendingInv
      OBVIOUS
    <2>1. \A h \in Heads : DOMAIN lists[h] = 1 .. Len(lists[h])
      BY DEF IInv, WheelInv
    <2>2. ASSUME NEW t \in Timer PROVE (t \in pending <=> On(t) # {}) /\ \A h, k \in On(t) : h = k
      BY <2>1 DEF IInv, WheelInv, Linked, On
    <2>3. ASSUME NEW h \in Heads PROVE IsInjective(lists[h])
      BY <2>1 DEF IInv, WheelInv, Linked, IsInjective
    <2> QED BY <2>2, <2>3 DEF PendingInv
  <1> QED BY <1>1, Invariant, PTL

\* "Upon exit the timer is not queued and handler is not running on any CPU"
\* (del_timer_sync), however often the handler has restarted it.
THEOREM DelTimerSyncWorks == Spec => []DelSyncInv
  <1>1. IInv => DelSyncInv
    BY DEF IInv
  <1> QED BY <1>1, Invariant, PTL

\* A timer on the current list is due.
LEMMA CurrentIsDue ==
  ASSUME Types, WheelInv, IndexInv, PlacedInv, Current # <<>>
  PROVE  Signed(timer_jiffies - expires[Head(Current)]) >= 0
  <1>1. PICK t \in Timer, e \in Int : t = Head(Current) /\ e = expires[t] /\ Right1(index[1], e, timer_jiffies)
    <2>1. PICK t \in Timer : t = Head(Current) /\ OnList(lists, <<1, index[1]>>, t) /\ <<1, index[1]>> \in Heads
      BY CurrentIsPending, Zenon
    <2>2. expires[t] \in Int
      BY DEF Types
    <2> QED BY <2>1, <2>2, Zenon DEF PlacedInv, Right
  <1>2. PICK w \in Nat \ {0}, hf \in Nat, now \in Int : w = WORD /\ hf = Half /\ 1 < hf /\ hf < w /\ now = timer_jiffies
    BY Sizes DEF Types
  <1>3. PICK a \in 0 .. w - 1, k \in Int : a = Ahead(e, now) /\ e = now + a + w * k
    <2>1. Ahead(e, now) \in 0 .. WORD - 1 /\ \E k \in Int : e = now + Ahead(e, now) + WORD * k
      BY AheadIs, Zenon
    <2> QED BY <1>2, <2>1, Zenon
  <1>4. CASE a > w - hf
    <2>1. /\ now - e \in Int /\ w - a \in Int /\ -hf < w - a /\ w - a < hf /\ -k - 1 \in Int
          /\ now - e = (w - a) + w * (-k - 1)
      BY <1>2, <1>3, <1>4
    <2>2. PICK x \in Int, z \in Int, m \in Int :
            x = now - e /\ z = w - a /\ -Half < z /\ z < Half /\ x = z + WORD * m
      BY <1>2, <2>1, Zenon
    <2>4. Signed(x) = z
      BY <2>2, SignedIs, Zenon
    <2>3. w - a >= 0
      BY <1>3
    <2> QED BY <1>1, <1>2, <2>2, <2>3, <2>4, Zenon
  <1>5. CASE ~(a > w - hf)
    <2>1. a < TVR_SIZE /\ index[1] = e % TVR_SIZE
      BY <1>1, <1>2, <1>3, <1>5, Zenon DEF Right1
    <2>2. (now + a) % TVR_SIZE = now % TVR_SIZE
      BY <1>1, <1>2, <1>3, <2>1, ListIs, Zenon DEF IndexInv
    <2>3. PICK s \in Nat \ {0} : s = TVR_SIZE
      BY SizeAssumption
    <2>4. a \in 0 .. s - 1
      BY <2>1, <2>3
    <2>5. a = 0
      BY <2>2, <2>3, <2>4, SameOnCircle, Zenon
    <2>6. now - e \in Int /\ 0 \in Int /\ -hf < 0 /\ 0 < hf /\ -k \in Int /\ now - e = 0 + w * (-k)
      BY <1>2, <1>3, <2>5
    <2>7. Signed(now - e) = 0
      BY <1>2, <2>6, SignedIs, Zenon
    <2>8. 0 >= 0
      OBVIOUS
    <2> QED BY <1>1, <1>2, <2>7, <2>8, Zenon
  <1> QED BY <1>4, <1>5

\* run_timer_list never calls a handler before the timer's time, whatever jiffies
\* has wrapped to and however far the bottom half lags.
THEOREM HandlersAreNeverEarly == Spec => NeverEarly
  <1>1. ASSUME IInv, [Next]_vars, NEW t \in Timer, running_timer' = t, running_timer # t
        PROVE  Signed(timer_jiffies - expires[t]) >= 0
    <2>1. TickRun
      <3>1. UNCHANGED running_timer \/ running_timer' = NoTimer \/ TickRun
        BY <1>1 DEF Next, run_timer_list, DelSyncStep, do_timer, BhStart, TickBegin, Cascade, CascadeEnd,
                    FnReturn, TickEnd, TickRequeue, BhEnd, add_timer, mod_timer, del_timer, DelSyncCall,
                    DelSyncRound, DelSyncSpin, DelSyncReturn, vars
      <3> QED BY <1>1, <3>1, TimerAssumption
    <2>2. Current # <<>> /\ t = Head(Current)
      BY <1>1, <2>1 DEF TickRun
    <2> QED BY <1>1, <2>2, CurrentIsDue DEF IInv
  <1>2. IInv /\ [Next]_vars =>
          [\A t \in Timer : running_timer' = t /\ running_timer # t
             => Signed(timer_jiffies - expires[t]) >= 0]_vars
    BY <1>1
  <1> QED BY <1>2, Invariant, PTL DEF Spec, NeverEarly

\* A timer whose time is past is on the list that is run next, or waits to be put
\* there: in the wheel none is overlooked.
THEOREM TimersAreNeverLate == Spec => []NeverLate
  <1>1. ASSUME IInv PROVE NeverLate
    <2> SUFFICES ASSUME NEW t \in pending, Signed(expires[t] - timer_jiffies) < 0, NEW h \in On(t)
                 PROVE  h \in {Queued, <<1, index[1]>>}
      BY DEF NeverLate
    <2> USE <1>1
    <2>1. t \in Timer /\ h \in Heads /\ OnList(lists, h, t)
      <3>1. \A k \in Heads : DOMAIN lists[k] = 1 .. Len(lists[k])
        BY DEF IInv, WheelInv
      <3> QED BY <3>1 DEF IInv, WheelInv, On, OnList
    <2>2. PICK e \in Int : e = expires[t]
      BY <2>1 DEF IInv, Types
    <2>3. Right(h, e)
      BY <2>1, <2>2, Zenon DEF IInv, PlacedInv
    <2>4. ~(Ahead(e, timer_jiffies) < Half)
      <3>1. PICK now \in Int : now = timer_jiffies
        BY DEF IInv, Types
      <3>2. e - now \in Int
        OBVIOUS
      <3> QED BY <2>2, <3>1, <3>2, SignedOf, Zenon DEF Ahead
    <2>5. CASE h = Queued
      BY <2>5
    <2>6. ASSUME NEW s, h = <<1, s>> PROVE h = <<1, index[1]>>
      <3>1. Right1(s, e, timer_jiffies)
        BY <2>3, <2>6, Zenon DEF Right
      <3>2. ~(Ahead(e, timer_jiffies) < TVR_SIZE)
        <4>1. PICK a \in Int, hf \in Nat, z \in Nat : a = Ahead(e, timer_jiffies) /\ hf = Half /\ z = TVR_SIZE /\ z <= hf
          <5>1. TVR_SIZE \in Nat /\ Half \in Nat /\ TVR_SIZE <= Half
            BY Sizes, SizeAssumption, TimerAssumption
          <5>2. Ahead(e, timer_jiffies) \in Int
            <6>1. Ahead(e, timer_jiffies) \in 0 .. WORD - 1
              BY AheadIs, Zenon DEF IInv, Types
            <6> QED BY <6>1
          <5> QED BY <5>1, <5>2, Zenon
        <4>2. ~(a < z)
          BY <2>4, <4>1
        <4> QED BY <4>1, <4>2, Zenon
      <3> QED BY <2>6, <3>1, <3>2, Zenon DEF Right1, IInv, IndexInv
    <2>7. ASSUME NEW n \in 2 .. NOOF_TVECS, NEW s, h = <<n, s>> PROVE FALSE
      BY <2>3, <2>4, <2>7, Zenon DEF Right, RightN
    <2>8. h = Queued \/ (\E s : h = <<1, s>>) \/ \E n \in 2 .. NOOF_TVECS : \E s : h = <<n, s>>
      BY <2>1 DEF Heads, Tv1
    <2>9. CASE \E s : h = <<1, s>>
      BY <2>6, <2>9
    <2>10. CASE \E n \in 2 .. NOOF_TVECS : \E s : h = <<n, s>>
      BY <2>7, <2>10, Zenon
    <2> QED BY <2>5, <2>8, <2>9, <2>10, Zenon
  <1> QED BY <1>1, Invariant, PTL
=============================================================================
