---------------------------- MODULE IrqProofs ---------------------------------
(***************************************************************************)
(* Interrupts.  First theorems about IrqLine, for any CPUs and any finite, *)
(* nonempty set of drivers: handlers of a line run on one CPU at a time,   *)
(* and none while a driver has the line disabled; a freed action cannot be *)
(* reached; no edge is lost.  Then theorems about GlobalIrq: cli excludes  *)
(* handlers and bottom halves, and its lock has one owner.                 *)
(*                                                                         *)
(* None is inductive.  do_IRQ sets IRQ_INPROGRESS without looking whether  *)
(* there is an action, so IRQ_DISABLED must be set on an unused line;      *)
(* enable_irq clears it when depth drops to 0, so depth must count the     *)
(* disablers and one that is in the list must keep the line used; and      *)
(* free_irq sets it only when the list gets empty, so the list must hold   *)
(* exactly the drivers that have the line.  What the last two rest on is   *)
(* told where they are proved.                                             *)
(***************************************************************************)
EXTENDS IrqLine, GlobalIrq, TLAPS, FiniteSetTheorems, WellFoundedInduction

\* TypeOK, but for the bound of depth, which follows from DepthInv; the Boolean
\* variables are kept apart.
Types ==
  /\ status \subseteq Flags
  /\ depth \in Nat
  /\ action \in Actions
  /\ next \in [Driver -> Actions]
  /\ irr \subseteq Cpu
  /\ first \in [Cpu -> Actions] /\ cur \in [Cpu -> Actions]
  /\ dpc \in [Driver -> {"out", "in", "disabling", "disabled", "freeing"}]
  /\ owed \subseteq Driver

Booleans == masked \in BOOLEAN /\ disturbed \in BOOLEAN

\* L is the list of actions that starts at desc->action, of length n.
IsList(n, L) ==
  /\ \A i, j \in 1 .. n : L[i] = L[j] => i = j
  /\ \A d \in Driver : Listed(d) <=> \E i \in 1 .. n : L[i] = d
  /\ action = IF n = 0 THEN Null ELSE L[1]
  /\ \A i \in 1 .. n : next[L[i]] = IF i = n THEN Null ELSE L[i + 1]

ListInv == \E n \in Nat : \E L \in [1 .. n -> Driver] : IsList(n, L)

Disablers == {d \in Driver : dpc[d] \in {"disabling", "disabled"}}

DepthInv ==
  /\ action = Null => "DISABLED" \in status
  /\ action # Null => /\ depth = Cardinality(Disablers)
                      /\ "DISABLED" \in status <=> depth > 0

\* While a driver has the line disabled it is not in progress.
QuietInv == (\E d \in Driver : dpc[d] = "disabled") => "INPROGRESS" \notin status

IInv == Types /\ Booleans /\ ListInv /\ DepthInv /\ QuietInv /\ OneCpuAtATime

-----------------------------------------------------------------------------
\* The initial state satisfies the invariant.
LEMMA InitInv == Init => IInv
  <1> SUFFICES ASSUME Init PROVE IInv
    OBVIOUS
  <1>1. Types /\ Booleans
    BY Zenon DEF Init, Types, Booleans, Flags, Actions
  <1>2. ListInv
    <2> DEFINE L == [i \in 1 .. 0 |-> Null]
    <2>1. L \in [1 .. 0 -> Driver]
      OBVIOUS
    <2>2. IsList(0, L)
      BY DEF Init, IsList, Listed
    <2> QED BY <2>1, <2>2, Zenon DEF ListInv
  <1>3. DepthInv /\ QuietInv /\ OneCpuAtATime
    BY DEF Init, DepthInv, QuietInv, OneCpuAtATime
  <1> QED BY <1>1, <1>2, <1>3 DEF IInv

-----------------------------------------------------------------------------
(* Consequences of the invariant. *)

\* The line is used exactly when some driver has it.
LEMMA UsedIffListed ==
  ASSUME ListInv
  PROVE  action # Null <=> \E d \in Driver : Listed(d)
  <1>0. PICK n \in Nat : \E L \in [1 .. n -> Driver] : IsList(n, L)
    BY DEF ListInv
  <1>1. PICK L \in [1 .. n -> Driver] : IsList(n, L)
    BY <1>0
  <1>2. CASE n = 0
    BY <1>1, <1>2 DEF IsList
  <1>3. CASE n # 0
    <2>1. 1 \in 1 .. n /\ action = L[1] /\ L[1] \in Driver
      BY <1>1, <1>3 DEF IsList
    <2> QED BY <1>1, <2>1, IrqAssumption DEF IsList
  <1> QED BY <1>2, <1>3

\* There are finitely many disablers.
LEMMA DisablersFinite ==
  /\ IsFiniteSet(Disablers)
  /\ Cardinality(Disablers) \in Nat
  /\ Cardinality(Disablers) <= Cardinality(Driver)
  /\ Cardinality(Driver) \in Nat
  BY IrqAssumption, FS_Subset, FS_CardinalityType DEF Disablers

\* A driver that has the line disabled, or is about to, is counted in depth.
LEMMA DisablerCounts ==
  ASSUME ListInv, DepthInv, NEW d \in Disablers
  PROVE  action # Null /\ depth = Cardinality(Disablers) /\ depth > 0 /\ "DISABLED" \in status
  <1>1. action # Null
    BY UsedIffListed DEF Disablers, Listed
  <1>2. Cardinality(Disablers) # 0
    BY DisablersFinite, FS_EmptySet
  <1> QED BY <1>1, <1>2, DisablersFinite DEF DepthInv

-----------------------------------------------------------------------------
\* Every step keeps the types.
LEMMA TypesStep ==
  ASSUME Types, DepthInv, ListInv, [Next]_vars
  PROVE  Types'
  <1> USE IrqAssumption DEF Types, Flags, Actions, Goto, CallHandler, desc
  <1>1. ASSUME NEW c \in Cpu, do_IRQ(c) PROVE Types'
    BY <1>1, Zenon DEF do_IRQ
  <1>2. ASSUME NEW c \in Cpu, HandlerReturn(c) PROVE Types'
    BY <1>2 DEF HandlerReturn
  <1>3. ASSUME NEW c \in Cpu, HandlersDone(c) PROVE Types'
    BY <1>3, Zenon DEF HandlersDone
  <1>4. ASSUME NEW d \in Driver, setup_irq(d) PROVE Types'
    <2>1. next' \in [Driver -> Actions]
      <3>1. CASE action = Null
        BY <1>4, <3>1 DEF setup_irq
      <3>2. CASE action # Null
        <4>1. PICK l \in Driver : next' = [next EXCEPT ![l] = d, ![d] = Null]
          BY <1>4, <3>2 DEF setup_irq
        <4>2. d \in Actions /\ Null \in Actions
          OBVIOUS
        <4> HIDE DEF Actions
        <4> QED BY <4>1, <4>2
      <3> QED BY <3>1, <3>2
    <2>2. status' \subseteq Flags /\ depth' \in Nat /\ action' \in Actions
      <3>1. CASE action = Null
        <4>1. action' = d /\ depth' = 0 /\ status' = status \ {"DISABLED"}
          BY <1>4, <3>1, Zenon DEF setup_irq
        <4> QED BY <4>1
      <3>2. CASE action # Null
        <4>1. UNCHANGED <<action, depth, status>>
          BY <1>4, <3>2, Zenon DEF setup_irq
        <4> QED BY <4>1
      <3> QED BY <3>1, <3>2
    <2>3. dpc' \in [Driver -> {"out", "in", "disabling", "disabled", "freeing"}]
      BY <1>4 DEF setup_irq
    <2>4. UNCHANGED <<irr, first, cur, owed>>
      BY <1>4 DEF setup_irq
    <2> QED BY <2>1, <2>2, <2>3, <2>4
  <1>5. ASSUME NEW d \in Driver, disable_irq_nosync(d) PROVE Types'
    BY <1>5 DEF disable_irq_nosync
  <1>6. ASSUME NEW d \in Driver, DisableWait(d) PROVE Types'
    BY <1>6 DEF DisableWait
  <1>7. ASSUME NEW d \in Driver, NEW c \in Cpu, enable_irq(d, c) PROVE Types'
    <2>1. d \in Disablers
      BY <1>7 DEF enable_irq, Disablers
    <2>2. depth > 0
      BY <2>1, DisablerCounts
    <2>3. depth' \in Nat
      BY <1>7, <2>2 DEF enable_irq
    <2>4. status' \subseteq Flags
      BY <1>7, Zenon DEF enable_irq
    <2>5. irr' \subseteq Cpu
      BY <1>7 DEF enable_irq
    <2>6. dpc' \in [Driver -> {"out", "in", "disabling", "disabled", "freeing"}]
      BY <1>7 DEF enable_irq
    <2>7. UNCHANGED <<action, next, first, cur, owed>>
      BY <1>7 DEF enable_irq
    <2> QED BY <2>3, <2>4, <2>5, <2>6, <2>7
  <1>8. ASSUME NEW d \in Driver, free_irq(d) PROVE Types'
    BY <1>8 DEF free_irq, Unlink
  <1>9. ASSUME NEW d \in Driver, FreeWait(d) PROVE Types'
    BY <1>9 DEF FreeWait
  <1>10. ASSUME NEW d \in Driver, NEW c \in Cpu, Edge(d, c) PROVE Types'
    BY <1>10 DEF Edge
  <1>11. CASE UNCHANGED vars
    BY <1>11 DEF vars
  <1> HIDE DEF Types, Goto, CallHandler
  <1> QED BY <1>1, <1>2, <1>3, <1>4, <1>5, <1>6, <1>7, <1>8, <1>9, <1>10, <1>11
          DEF Next, CpuStep, DriverStep

\* The Boolean variables stay so.
LEMMA BooleansStep ==
  ASSUME Booleans, [Next]_vars
  PROVE  Booleans'
  BY Zenon DEF Booleans, Next, CpuStep, DriverStep, vars, do_IRQ, HandlerReturn, HandlersDone,
     setup_irq, disable_irq_nosync, DisableWait, enable_irq, free_irq, FreeWait, Edge,
     Acked, Disturb
-----------------------------------------------------------------------------
(* The list of actions. *)

\* A step that leaves the list and its drivers alone.
LEMMA ListKept ==
  ASSUME ListInv, UNCHANGED <<action, next>>, \A d \in Driver : Listed(d)' <=> Listed(d)
  PROVE  ListInv'
  <1>0. PICK n \in Nat : \E L \in [1 .. n -> Driver] : IsList(n, L)
    BY DEF ListInv
  <1>1. PICK L \in [1 .. n -> Driver] : IsList(n, L)
    BY <1>0
  <1>2. IsList(n, L)'
    BY <1>1 DEF IsList
  <1> QED BY <1>2 DEF ListInv

\* setup_irq appends the new action.
LEMMA ListSetup ==
  ASSUME Types, ListInv, NEW d \in Driver, setup_irq(d)
  PROVE  ListInv'
  <1>0. PICK n \in Nat : \E L \in [1 .. n -> Driver] : IsList(n, L)
    BY DEF ListInv
  <1>1. PICK L \in [1 .. n -> Driver] : IsList(n, L)
    BY <1>0
  <1> DEFINE M == [i \in 1 .. n + 1 |-> IF i = n + 1 THEN d ELSE L[i]]
  <1>2. M \in [1 .. n + 1 -> Driver] /\ n + 1 \in Nat
    OBVIOUS
  <1>3. ~Listed(d) /\ Listed(d)' /\ \A e \in Driver \ {d} : Listed(e)' <=> Listed(e)
    BY DEF setup_irq, Goto, Listed, Types
  <1>4. \A i \in 1 .. n : L[i] \in Driver /\ L[i] # d
    BY <1>1, <1>3 DEF IsList
  <1>5. \A i, j \in 1 .. n + 1 : M[i] = M[j] => i = j
    BY <1>1, <1>4 DEF IsList
  <1>6. \A e \in Driver : Listed(e)' <=> \E i \in 1 .. n + 1 : M[i] = e
    BY <1>1, <1>3, <1>4 DEF IsList
  <1>7. CASE n = 0
    <2>1. action = Null
      BY <1>1, <1>7 DEF IsList
    <2>2. action' = d /\ next'[d] = Null
      BY <2>1 DEF setup_irq, Types
    <2>3. IsList(n + 1, M)'
      BY <1>5, <1>6, <1>7, <2>2 DEF IsList
    <2> QED BY <1>2, <2>3 DEF ListInv
  <1>8. CASE n # 0
    <2>1. action = L[1] /\ 1 \in 1 .. n /\ n \in 1 .. n
      BY <1>1, <1>8 DEF IsList
    <2>2. action # Null /\ action' = action
      BY <1>4, <2>1, IrqAssumption, Zenon DEF setup_irq
    <2>3. PICK l \in Driver : Last(l) /\ next' = [next EXCEPT ![l] = d, ![d] = Null]
      BY <2>2, Zenon DEF setup_irq
    <2>4. PICK k \in 1 .. n : L[k] = l
      BY <1>1, <2>3 DEF IsList, Last
    <2>5. k = n
      <3> SUFFICES ASSUME k # n PROVE FALSE
        OBVIOUS
      <3>1. next[l] = L[k + 1] /\ k + 1 \in 1 .. n
        BY <1>1, <2>4 DEF IsList
      <3> QED BY <1>4, <2>3, <3>1, IrqAssumption DEF Last
    <2>6. \A i \in 1 .. n + 1 : next'[M[i]] = IF i = n + 1 THEN Null ELSE M[i + 1]
      <3> TAKE i \in 1 .. n + 1
      <3>1. CASE i = n + 1
        BY <2>3, <3>1 DEF Types
      <3>2. CASE i = n
        BY <1>4, <2>3, <2>4, <2>5, <3>2 DEF Types
      <3>3. CASE i # n /\ i # n + 1
        <4>1. i \in 1 .. n /\ i + 1 \in 1 .. n /\ M[i] = L[i] /\ M[i + 1] = L[i + 1]
          BY <3>3
        <4>2. L[i] # l /\ L[i] # d
          BY <1>1, <1>4, <2>1, <2>4, <2>5, <3>3, <4>1 DEF IsList
        <4>3. next'[L[i]] = next[L[i]]
          BY <1>4, <2>3, <4>1, <4>2 DEF Types
        <4> QED BY <1>1, <3>3, <4>1, <4>3 DEF IsList
      <3> QED BY <3>1, <3>2, <3>3
    <2>7. action' = M[1]
      BY <2>1, <2>2
    <2> HIDE DEF M
    <2>8. IsList(n + 1, M)'
      BY <1>5, <1>6, <2>6, <2>7 DEF IsList
    <2> QED BY <1>2, <2>8 DEF ListInv
  <1> QED BY <1>7, <1>8

\* free_irq cuts one action out.
LEMMA ListFree ==
  ASSUME Types, ListInv, NEW d \in Driver, free_irq(d)
  PROVE  ListInv'
  <1>0. PICK n \in Nat : \E L \in [1 .. n -> Driver] : IsList(n, L)
    BY DEF ListInv
  <1>1. PICK L \in [1 .. n -> Driver] : IsList(n, L)
    BY <1>0
  <1>2. Listed(d) /\ ~Listed(d)' /\ \A e \in Driver \ {d} : Listed(e)' <=> Listed(e)
    BY DEF free_irq, Goto, Listed, Types
  <1>3. PICK k \in 1 .. n : L[k] = d
    BY <1>1, <1>2 DEF IsList
  <1> DEFINE m == n - 1
             M == [i \in 1 .. m |-> IF i < k THEN L[i] ELSE L[i + 1]]
  <1>4. m \in Nat /\ M \in [1 .. m -> Driver]
    BY <1>3
  <1>5. \A i, j \in 1 .. n : L[i] = L[j] => i = j
    BY <1>1 DEF IsList
  <1>6. \A i, j \in 1 .. m : M[i] = M[j] => i = j
    BY <1>3, <1>5
  <1>7. \A e \in Driver : Listed(e)' <=> \E i \in 1 .. m : M[i] = e
    <2> TAKE e \in Driver
    <2>1. ASSUME NEW i \in 1 .. m, M[i] = e PROVE Listed(e)'
      <3>1. e # d /\ \E j \in 1 .. n : L[j] = e
        BY <1>3, <1>5, <2>1
      <3> QED BY <1>1, <1>2, <3>1 DEF IsList
    <2>2. ASSUME Listed(e)' PROVE \E i \in 1 .. m : M[i] = e
      <3>1. e # d /\ Listed(e)
        BY <1>2, <2>2
      <3>2. PICK j \in 1 .. n : L[j] = e
        BY <1>1, <3>1 DEF IsList
      <3>3. CASE j < k
        BY <1>3, <3>2, <3>3
      <3>4. CASE j > k
        <4>1. j - 1 \in 1 .. m /\ M[j - 1] = e
          BY <1>3, <3>2, <3>4
        <4> QED BY <4>1, Zenon
      <3> QED BY <1>3, <3>1, <3>2, <3>3, <3>4
    <2> QED BY <2>1, <2>2, Zenon
  <1>8. \A i \in 1 .. n : next[L[i]] = IF i = n THEN Null ELSE L[i + 1]
    BY <1>1 DEF IsList
  <1>9. action' = IF m = 0 THEN Null ELSE M[1]
    <2>1. action = L[1] /\ 1 \in 1 .. n
      BY <1>1, <1>3 DEF IsList
    <2>2. CASE k = 1
      BY <1>3, <1>8, <2>1, <2>2 DEF free_irq, Unlink
    <2>3. CASE k # 1
      BY <1>3, <1>5, <2>1, <2>3 DEF free_irq, Unlink
    <2> QED BY <2>2, <2>3
  <1>10. \A i \in 1 .. m : next'[M[i]] = IF i = m THEN Null ELSE M[i + 1]
    <2> TAKE i \in 1 .. m
    <2>1. \A e \in Driver : next'[e] = IF e # d /\ next[e] = d /\ Listed(e) THEN next[d] ELSE next[e]
      BY DEF free_irq, Unlink
    <2>2. CASE i < k - 1
      <3>1. M[i] = L[i] /\ M[i + 1] = L[i + 1] /\ i + 1 \in 1 .. n /\ i # n /\ i # m /\ i \in 1 .. n
        BY <1>3, <2>2
      <3>2. next[L[i]] = L[i + 1] /\ L[i + 1] # d
        BY <1>3, <1>5, <1>8, <2>2, <3>1
      <3> QED BY <2>1, <3>1, <3>2
    <2>3. CASE i = k - 1
      <3>1. M[i] = L[i] /\ i \in 1 .. n /\ i # n /\ L[i] # d
        BY <1>3, <1>5, <2>3
      <3>2. next[L[i]] = d /\ Listed(L[i])
        BY <1>1, <1>3, <1>8, <2>3, <3>1 DEF IsList
      <3>3. next'[M[i]] = next[d]
        BY <2>1, <3>1, <3>2
      <3>4. next[d] = IF k = n THEN Null ELSE L[k + 1]
        BY <1>3, <1>8
      <3>5. k = n <=> i = m
        BY <2>3
      <3>6. i # m => M[i + 1] = L[k + 1]
        BY <1>3, <2>3
      <3> QED BY <3>3, <3>4, <3>5, <3>6
    <2>4. CASE i >= k
      <3>1. M[i] = L[i + 1] /\ i + 1 \in 1 .. n /\ L[i + 1] # d
        BY <1>3, <1>5, <2>4
      <3>2. next[L[i + 1]] = IF i = m THEN Null ELSE L[i + 2]
        BY <1>8, <3>1
      <3>3. next[L[i + 1]] # d
        BY <1>3, <1>5, <2>4, <3>1, <3>2, IrqAssumption
      <3>4. i # m => M[i + 1] = L[i + 2]
        BY <1>3, <2>4
      <3> QED BY <2>1, <3>1, <3>2, <3>3, <3>4
    <2> QED BY <1>3, <2>2, <2>3, <2>4
  <1> HIDE DEF M, m
  <1>11. IsList(m, M)'
    BY <1>6, <1>7, <1>9, <1>10 DEF IsList
  <1> QED BY <1>4, <1>11 DEF ListInv

\* Every step keeps the list well formed.
LEMMA ListStep ==
  ASSUME Types, ListInv, [Next]_vars
  PROVE  ListInv'
  <1>1. ASSUME NEW c \in Cpu, CpuStep(c) PROVE ListInv'
    BY <1>1, ListKept DEF CpuStep, do_IRQ, HandlerReturn, HandlersDone, desc, Listed
  <1>2. ASSUME NEW d \in Driver, disable_irq_nosync(d) PROVE ListInv'
    BY <1>2, ListKept DEF disable_irq_nosync, Goto, Listed, Types
  <1>3. ASSUME NEW d \in Driver, DisableWait(d) PROVE ListInv'
    BY <1>3, ListKept DEF DisableWait, Goto, Listed, Types, desc
  <1>4. ASSUME NEW d \in Driver, NEW c \in Cpu, enable_irq(d, c) PROVE ListInv'
    <2>1. UNCHANGED <<action, next>> /\ \A e \in Driver : Listed(e)' <=> Listed(e)
      BY <1>4 DEF enable_irq, Goto, Listed, Types
    <2> QED BY <2>1, ListKept
  <1>5. ASSUME NEW d \in Driver, FreeWait(d) PROVE ListInv'
    BY <1>5, ListKept DEF FreeWait, Goto, Listed, Types, desc
  <1>6. ASSUME NEW d \in Driver, NEW c \in Cpu, Edge(d, c) PROVE ListInv'
    BY <1>6, ListKept DEF Edge, Listed, desc
  <1>7. CASE UNCHANGED vars
    BY <1>7, ListKept DEF vars, desc, Listed
  <1> QED BY <1>1, <1>2, <1>3, <1>4, <1>5, <1>6, <1>7, ListSetup, ListFree DEF Next, DriverStep

-----------------------------------------------------------------------------
(* depth and IRQ_DISABLED. *)

\* Every step keeps depth the number of disablers and IRQ_DISABLED in step with it.
LEMMA DepthStep ==
  ASSUME Types, ListInv, DepthInv, [Next]_vars
  PROVE  DepthInv'
  <1>1. ASSUME NEW c \in Cpu, CpuStep(c) PROVE DepthInv'
    <2>1. UNCHANGED <<action, depth, dpc>> /\ ("DISABLED" \in status' <=> "DISABLED" \in status)
      BY <1>1 DEF CpuStep, do_IRQ, HandlerReturn, HandlersDone, desc
    <2> QED BY <2>1 DEF DepthInv, Disablers
  <1>2. ASSUME NEW d \in Driver, setup_irq(d) PROVE DepthInv'
    <2>1. Disablers' = Disablers
      BY <1>2 DEF setup_irq, Goto, Disablers, Types
    <2>2. CASE action = Null
      <3>1. Disablers = {}
        BY <2>2, UsedIffListed DEF Disablers, Listed
      <3>2. action' = d /\ depth' = 0 /\ status' = status \ {"DISABLED"}
        BY <1>2, <2>2, Zenon DEF setup_irq
      <3> QED BY <2>1, <3>1, <3>2, FS_EmptySet, IrqAssumption DEF DepthInv
    <2>3. CASE action # Null
      <3>1. UNCHANGED <<action, depth, status>>
        BY <1>2, <2>3, Zenon DEF setup_irq
      <3> QED BY <2>1, <3>1 DEF DepthInv
    <2> QED BY <2>2, <2>3
  <1>3. ASSUME NEW d \in Driver, disable_irq_nosync(d) PROVE DepthInv'
    <2>1. Disablers' = Disablers \cup {d} /\ d \notin Disablers
      BY <1>3 DEF disable_irq_nosync, Goto, Disablers, Types
    <2>2. Cardinality(Disablers') = Cardinality(Disablers) + 1
      BY <2>1, DisablersFinite, FS_AddElement
    <2>3. action # Null
      BY <1>3, UsedIffListed DEF disable_irq_nosync, Goto, Listed
    <2>4. depth = Cardinality(Disablers) /\ ("DISABLED" \in status <=> depth > 0)
      BY <2>3 DEF DepthInv
    <2>5. action' = action /\ depth' = depth + 1
          /\ status' = IF depth = 0 THEN status \cup {"DISABLED"} ELSE status
      BY <1>3 DEF disable_irq_nosync
    <2> QED BY <2>2, <2>3, <2>4, <2>5, DisablersFinite DEF DepthInv, Types
  <1>4. ASSUME NEW d \in Driver, DisableWait(d) PROVE DepthInv'
    <2>1. Disablers' = Disablers
      BY <1>4 DEF DisableWait, Goto, Disablers, Types
    <2> QED BY <1>4, <2>1 DEF DisableWait, DepthInv, desc
  <1>5. ASSUME NEW d \in Driver, NEW c \in Cpu, enable_irq(d, c) PROVE DepthInv'
    <2>1. Disablers' = Disablers \ {d} /\ d \in Disablers
      BY <1>5 DEF enable_irq, Goto, Disablers, Types
    <2>2. Cardinality(Disablers') = Cardinality(Disablers) - 1
      BY <2>1, DisablersFinite, FS_RemoveElement, Zenon
    <2>3. action # Null /\ depth = Cardinality(Disablers) /\ depth > 0 /\ "DISABLED" \in status
      BY <2>1, DisablerCounts
    <2>4. action' = action /\ depth' = depth - 1
      BY <1>5 DEF enable_irq
    <2>5. "DISABLED" \in status' <=> depth # 1
      BY <1>5, <2>3 DEF enable_irq
    <2> QED BY <2>2, <2>3, <2>4, <2>5, DisablersFinite DEF DepthInv
  <1>6. ASSUME NEW d \in Driver, free_irq(d) PROVE DepthInv'
    <2>1. Disablers' = Disablers
      BY <1>6 DEF free_irq, Goto, Disablers, Types
    <2>2. action # Null
      BY <1>6, UsedIffListed DEF free_irq, Goto, Listed
    <2>3. depth' = depth /\ status' = IF action' = Null THEN status \cup {"DISABLED"} ELSE status
      BY <1>6 DEF free_irq
    <2> QED BY <2>1, <2>2, <2>3 DEF DepthInv
  <1>7. ASSUME NEW d \in Driver, FreeWait(d) PROVE DepthInv'
    <2>1. Disablers' = Disablers
      BY <1>7 DEF FreeWait, Goto, Disablers, Types
    <2> QED BY <1>7, <2>1 DEF FreeWait, DepthInv, desc
  <1>8. ASSUME NEW d \in Driver, NEW c \in Cpu, Edge(d, c) PROVE DepthInv'
    BY <1>8 DEF Edge, DepthInv, Disablers, desc
  <1>9. CASE UNCHANGED vars
    BY <1>9 DEF vars, DepthInv, Disablers, desc
  <1> QED BY <1>1, <1>2, <1>3, <1>4, <1>5, <1>6, <1>7, <1>8, <1>9 DEF Next, DriverStep

-----------------------------------------------------------------------------
(* IRQ_INPROGRESS. *)

\* Every step keeps the handlers on one CPU.
LEMMA OneCpuStep ==
  ASSUME Types, DepthInv, OneCpuAtATime, [Next]_vars
  PROVE  OneCpuAtATime'
  <1>1. ASSUME NEW c \in Cpu, do_IRQ(c) PROVE OneCpuAtATime'
    <2>1. CASE status \cap {"DISABLED", "INPROGRESS"} = {}
      <3>1. action # Null /\ \A e \in Cpu : first[e] = Null
        BY <2>1 DEF DepthInv, OneCpuAtATime
      <3>2. first' = [first EXCEPT ![c] = action] /\ "INPROGRESS" \in status'
        BY <1>1, <2>1 DEF do_IRQ
      <3> QED BY <3>1, <3>2 DEF OneCpuAtATime, Types
    <2>2. CASE status \cap {"DISABLED", "INPROGRESS"} # {}
      <3>1. first' = first /\ ("INPROGRESS" \in status' <=> "INPROGRESS" \in status)
        BY <1>1, <2>2 DEF do_IRQ
      <3> QED BY <3>1 DEF OneCpuAtATime
    <2> QED BY <2>1, <2>2
  <1>2. ASSUME NEW c \in Cpu, HandlersDone(c) PROVE OneCpuAtATime'
    <2>1. CASE "PENDING" \in status
      BY <1>2, <2>1 DEF HandlersDone, OneCpuAtATime
    <2>2. CASE "PENDING" \notin status
      <3>1. first[c] # Null /\ first' = [first EXCEPT ![c] = Null] /\ "INPROGRESS" \notin status'
        BY <1>2, <2>2 DEF HandlersDone
      <3>2. \A e \in Cpu : first'[e] = Null
        BY <3>1 DEF OneCpuAtATime, Types
      <3> QED BY <3>1, <3>2 DEF OneCpuAtATime
    <2> QED BY <2>1, <2>2
  <1>3. ASSUME UNCHANGED first, "INPROGRESS" \in status' <=> "INPROGRESS" \in status
        PROVE  OneCpuAtATime'
    BY <1>3 DEF OneCpuAtATime
  <1>4. ASSUME NEW c \in Cpu, HandlerReturn(c) PROVE OneCpuAtATime'
    BY <1>3, <1>4 DEF HandlerReturn, desc
  <1>5. ASSUME NEW d \in Driver, setup_irq(d) PROVE OneCpuAtATime'
    <2>1. first' = first /\ (status' = status \/ status' = status \ {"DISABLED"})
      BY <1>5, Zenon DEF setup_irq
    <2> QED BY <1>3, <2>1
  <1>6. ASSUME NEW d \in Driver,
               disable_irq_nosync(d) \/ DisableWait(d) \/ free_irq(d) \/ FreeWait(d)
        PROVE  OneCpuAtATime'
    BY <1>3, <1>6 DEF disable_irq_nosync, DisableWait, free_irq, FreeWait, desc
  <1>7. ASSUME NEW d \in Driver, NEW c \in Cpu, enable_irq(d, c) PROVE OneCpuAtATime'
    BY <1>3, <1>7 DEF enable_irq
  <1>8. ASSUME NEW d \in Driver, NEW c \in Cpu, Edge(d, c) PROVE OneCpuAtATime'
    BY <1>3, <1>8 DEF Edge, desc
  <1>9. CASE UNCHANGED vars
    BY <1>3, <1>9 DEF vars, desc
  <1> QED BY <1>1, <1>2, <1>4, <1>5, <1>6, <1>7, <1>8, <1>9 DEF Next, CpuStep, DriverStep

\* No step starts a handler while a driver has the line disabled, and disable_irq
\* does not return while one runs.
LEMMA QuietStep ==
  ASSUME Types, ListInv, DepthInv, QuietInv, [Next]_vars
  PROVE  QuietInv'
  <1>1. ASSUME NEW c \in Cpu, CpuStep(c) PROVE QuietInv'
    <2> SUFFICES ASSUME NEW d \in Driver, dpc'[d] = "disabled" PROVE "INPROGRESS" \notin status'
      BY DEF QuietInv
    <2>1. dpc' = dpc
      BY <1>1 DEF CpuStep, do_IRQ, HandlerReturn, HandlersDone
    <2>2. "DISABLED" \in status /\ "INPROGRESS" \notin status
      BY <2>1, DisablerCounts, Zenon DEF Disablers, QuietInv
    <2> QED BY <1>1, <2>2 DEF CpuStep, do_IRQ, HandlerReturn, HandlersDone, desc
  <1>2. ASSUME NEW d \in Driver, setup_irq(d) PROVE QuietInv'
    <2>1. status' = status \/ status' = status \ {"DISABLED"}
      BY <1>2, Zenon DEF setup_irq
    <2>2. \A e \in Driver : dpc'[e] = "disabled" => dpc[e] = "disabled"
      BY <1>2 DEF setup_irq, Goto, Types
    <2> QED BY <2>1, <2>2 DEF QuietInv
  <1>3. ASSUME NEW d \in Driver, disable_irq_nosync(d) \/ free_irq(d) \/ FreeWait(d)
        PROVE  QuietInv'
    BY <1>3 DEF disable_irq_nosync, free_irq, FreeWait, Goto, Types, QuietInv, desc
  <1>4. ASSUME NEW d \in Driver, DisableWait(d) PROVE QuietInv'
    BY <1>4 DEF DisableWait, QuietInv, desc
  <1>5. ASSUME NEW d \in Driver, NEW c \in Cpu, enable_irq(d, c) PROVE QuietInv'
    <2>1. "INPROGRESS" \in status' <=> "INPROGRESS" \in status
      BY <1>5 DEF enable_irq
    <2>2. \A e \in Driver : dpc'[e] = "disabled" => dpc[e] = "disabled"
      BY <1>5 DEF enable_irq, Goto, Types
    <2> QED BY <2>1, <2>2 DEF QuietInv
  <1>6. ASSUME NEW d \in Driver, NEW c \in Cpu, Edge(d, c) PROVE QuietInv'
    BY <1>6 DEF Edge, QuietInv, desc
  <1>7. CASE UNCHANGED vars
    BY <1>7 DEF vars, QuietInv, desc
  <1> QED BY <1>1, <1>2, <1>3, <1>4, <1>5, <1>6, <1>7 DEF Next, DriverStep

-----------------------------------------------------------------------------
\* IInv is an invariant of the line.
THEOREM Invariant == Spec => []IInv
  <1>1. IInv /\ [Next]_vars => IInv'
    BY TypesStep, BooleansStep, ListStep, DepthStep, OneCpuStep, QuietStep DEF IInv
  <1> QED BY InitInv, <1>1, PTL DEF Spec

\* do_IRQ: handlers of a line run on one CPU at a time, for any number of CPUs and
\* of drivers, and IRQ_INPROGRESS is set exactly while they do.
THEOREM HandlersAreSerialized == Spec => []OneCpuAtATime
  <1>1. IInv => OneCpuAtATime
    BY DEF IInv
  <1> QED BY Invariant, <1>1, PTL

\* disable_irq: while any driver has the line disabled, IRQ_DISABLED is set and no
\* CPU runs a handler of it.
THEOREM DisableIrqWorks == Spec => []DisabledIsQuiet
  <1>1. IInv => DisabledIsQuiet
    <2> SUFFICES ASSUME IInv, NEW d \in Driver, dpc[d] = "disabled"
                 PROVE  "DISABLED" \in status /\ \A c \in Cpu : first[c] = Null
      BY DEF DisabledIsQuiet
    <2>1. "DISABLED" \in status
      BY DisablerCounts, Zenon DEF IInv, Disablers
    <2>2. "INPROGRESS" \notin status
      BY DEF IInv, QuietInv
    <2> QED BY <2>1, <2>2 DEF IInv, OneCpuAtATime
  <1> QED BY Invariant, <1>1, PTL

-----------------------------------------------------------------------------
(***************************************************************************)
(* The rest of TypeOK, and what handle_IRQ_event can reach.                *)
(*                                                                         *)
(* A freed action may go on pointing into the list, and at actions freed   *)
(* after it, so the drivers that are not "out" are not closed under next.  *)
(* What the handlers can reach is a set of them: those listed, or freed    *)
(* since the handlers were started.                                        *)
(***************************************************************************)
UnusedInv == action = Null => depth <= 1

CurInv == \A c \in Cpu : first[c] = Null => cur[c] = Null

ReachInv ==
  \E S \in SUBSET Driver :
    /\ Closed(S)
    /\ \A d \in Driver : Listed(d) => d \in S
    /\ \A d \in S : dpc[d] # "out"
    /\ \A c \in Cpu : first[c] \in S \cup {Null} /\ cur[c] \in S \cup {Null}

\* UsedIffListed, of the state after a step.
LEMMA UsedAfter ==
  ASSUME ListInv'
  PROVE  action' # Null <=> \E d \in Driver : Listed(d)'
  <1>0. PICK n \in Nat : \E L \in [1 .. n -> Driver] : IsList(n, L)'
    BY DEF ListInv
  <1>1. PICK L \in [1 .. n -> Driver] : IsList(n, L)'
    BY <1>0
  <1>2. CASE n = 0
    BY <1>1, <1>2 DEF IsList
  <1>3. CASE n # 0
    <2>1. 1 \in 1 .. n /\ action' = L[1] /\ L[1] \in Driver
      BY <1>1, <1>3 DEF IsList
    <2> QED BY <1>1, <2>1, IrqAssumption DEF IsList
  <1> QED BY <1>2, <1>3

\* On an unused line depth is 1 until it is first set up, and 0 from then on.
LEMMA UnusedStep ==
  ASSUME Types, ListInv, DepthInv, UnusedInv, [Next]_vars
  PROVE  UnusedInv'
  <1>1. CASE UNCHANGED <<action, depth>>
    BY <1>1 DEF UnusedInv
  <1>2. ASSUME NEW c \in Cpu, CpuStep(c) PROVE UnusedInv'
    BY <1>1, <1>2 DEF CpuStep, do_IRQ, HandlerReturn, HandlersDone, desc
  <1>3. ASSUME NEW d \in Driver, setup_irq(d) PROVE UnusedInv'
    <2>1. action' = d \/ UNCHANGED <<action, depth>>
      BY <1>3, Zenon DEF setup_irq
    <2> QED BY <1>1, <2>1, IrqAssumption DEF UnusedInv
  <1>4. ASSUME NEW d \in Driver, disable_irq_nosync(d) PROVE UnusedInv'
    <2>1. action # Null
      BY <1>4, UsedIffListed DEF disable_irq_nosync, Goto, Listed
    <2> QED BY <1>4, <2>1 DEF disable_irq_nosync, UnusedInv
  <1>5. ASSUME NEW d \in Driver, NEW c \in Cpu, enable_irq(d, c) PROVE UnusedInv'
    <2>1. action' = action /\ depth' = depth - 1
      BY <1>5 DEF enable_irq
    <2> QED BY <2>1 DEF UnusedInv, Types
  <1>6. ASSUME NEW d \in Driver, free_irq(d) PROVE UnusedInv'
    <2>1. SUFFICES ASSUME action' = Null PROVE depth' <= 1
      BY DEF UnusedInv
    <2>2. action # Null /\ ListInv' /\ depth' = depth
      BY <1>6, UsedIffListed, ListFree, Zenon DEF free_irq, Goto, Listed
    <2>3. ~ \E e \in Driver : Listed(e)'
      BY <2>1, <2>2, UsedAfter
    <2>4. Disablers = {}
      BY <1>6, <2>3 DEF free_irq, Goto, Listed, Disablers, Types
    <2> QED BY <2>2, <2>4, FS_EmptySet DEF DepthInv
  <1>7. ASSUME NEW d \in Driver, DisableWait(d) \/ FreeWait(d) \/ \E c \in Cpu : Edge(d, c) PROVE UnusedInv'
    BY <1>1, <1>7 DEF DisableWait, FreeWait, Edge, desc
  <1>8. CASE UNCHANGED vars
    BY <1>1, <1>8 DEF vars, desc
  <1> QED BY <1>2, <1>3, <1>4, <1>5, <1>6, <1>7, <1>8 DEF Next, DriverStep

\* Outside do_IRQ no handler is at work.
LEMMA CurStep ==
  ASSUME Types, DepthInv, CurInv, [Next]_vars
  PROVE  CurInv'
  <1>1. ASSUME NEW c \in Cpu, do_IRQ(c) PROVE CurInv'
    <2>1. CASE status \cap {"DISABLED", "INPROGRESS"} = {}
      <3>1. action # Null /\ first' = [first EXCEPT ![c] = action] /\ cur' = [cur EXCEPT ![c] = action]
        BY <1>1, <2>1 DEF do_IRQ, CallHandler, DepthInv
      <3> QED BY <3>1 DEF CurInv, Types
    <2>2. CASE status \cap {"DISABLED", "INPROGRESS"} # {}
      BY <1>1, <2>2 DEF do_IRQ, CurInv
    <2> QED BY <2>1, <2>2
  <1>2. ASSUME NEW c \in Cpu, HandlerReturn(c) PROVE CurInv'
    BY <1>2 DEF HandlerReturn, CallHandler, CurInv, Types
  <1>3. ASSUME NEW c \in Cpu, HandlersDone(c) PROVE CurInv'
    <2>1. CASE "PENDING" \in status
      BY <1>3, <2>1 DEF HandlersDone, CallHandler, CurInv, Types
    <2>2. CASE "PENDING" \notin status
      BY <1>3, <2>2 DEF HandlersDone, CurInv, Types
    <2> QED BY <2>1, <2>2
  <1>4. CASE UNCHANGED <<first, cur>>
    BY <1>4 DEF CurInv
  <1>5. ASSUME NEW d \in Driver, \/ DriverStep(d) \/ setup_irq(d) \/ disable_irq_nosync(d) \/ free_irq(d)
                                 \/ \E c \in Cpu : Edge(d, c)
        PROVE  UNCHANGED <<first, cur>>
    BY <1>5 DEF DriverStep, DisableWait, FreeWait, enable_irq, setup_irq, disable_irq_nosync, free_irq, Edge
  <1>6. CASE UNCHANGED vars
    BY <1>4, <1>6 DEF vars
  <1> QED BY <1>1, <1>2, <1>3, <1>4, <1>5, <1>6 DEF Next, CpuStep

\* The head of the list is listed, and what follows a listed action.
LEMMA ListedClosed ==
  ASSUME ListInv
  PROVE  /\ action # Null => action \in Driver /\ Listed(action)
         /\ Closed({d \in Driver : Listed(d)})
  <1>0. PICK n \in Nat : \E L \in [1 .. n -> Driver] : IsList(n, L)
    BY DEF ListInv
  <1>1. PICK L \in [1 .. n -> Driver] : IsList(n, L)
    BY <1>0
  <1>2. ASSUME NEW i \in 1 .. n PROVE L[i] \in Driver /\ Listed(L[i])
    BY <1>1 DEF IsList
  <1>3. action # Null => 1 \in 1 .. n /\ action = L[1]
    BY <1>1 DEF IsList
  <1>4. ASSUME NEW d \in Driver, Listed(d), next[d] # Null
        PROVE  next[d] \in Driver /\ Listed(next[d])
    <2>1. PICK i \in 1 .. n : L[i] = d
      BY <1>1, <1>4 DEF IsList
    <2>2. i + 1 \in 1 .. n /\ next[d] = L[i + 1]
      BY <1>1, <1>4, <2>1 DEF IsList
    <2> QED BY <1>2, <2>2
  <1> HIDE DEF Listed
  <1> QED BY <1>2, <1>3, <1>4 DEF Closed

\* Every step keeps the handlers among the actions that are not freed.
LEMMA ReachStep ==
  ASSUME Types, ListInv, OneCpuAtATime, CurInv, ReachInv, [Next]_vars
  PROVE  ReachInv'
  <1>0. PICK S \in SUBSET Driver :
          /\ Closed(S)
          /\ \A d \in Driver : Listed(d) => d \in S
          /\ \A d \in S : dpc[d] # "out"
          /\ \A c \in Cpu : first[c] \in S \cup {Null} /\ cur[c] \in S \cup {Null}
    BY DEF ReachInv
  <1>h. action \in S \cup {Null}
    BY <1>0, ListedClosed
  <1>1. ASSUME NEW c \in Cpu, CpuStep(c) PROVE ReachInv'
    <2>1. UNCHANGED <<next, dpc>>
      BY <1>1 DEF CpuStep, do_IRQ, HandlerReturn, HandlersDone, desc
    <2>2. \A e \in Cpu : first'[e] \in S \cup {Null} /\ cur'[e] \in S \cup {Null}
      <3>1. CASE do_IRQ(c)
        BY <1>0, <1>h, <3>1 DEF do_IRQ, CallHandler, Types
      <3>2. CASE HandlerReturn(c)
        <4>1. next[cur[c]] \in S \cup {Null}
          BY <1>0, <3>2 DEF HandlerReturn, Closed
        <4> QED BY <1>0, <3>2, <4>1 DEF HandlerReturn, CallHandler, Types
      <3>3. CASE HandlersDone(c)
        BY <1>0, <3>3 DEF HandlersDone, CallHandler, Types
      <3> QED BY <1>1, <3>1, <3>2, <3>3 DEF CpuStep
    <2>3. Closed(S)' /\ \A d \in Driver : Listed(d)' <=> Listed(d)
      BY <1>0, <2>1 DEF Closed, Listed
    <2> QED BY <1>0, <2>1, <2>2, <2>3 DEF ReachInv
  <1>2. ASSUME NEW d \in Driver, setup_irq(d) PROVE ReachInv'
    <2> DEFINE T == S \cup {d}
    <2>1. UNCHANGED <<first, cur>> /\ dpc' = [dpc EXCEPT ![d] = "in"]
      BY <1>2 DEF setup_irq, Goto
    <2>2. Closed(T)'
      <3>1. CASE next' = [next EXCEPT ![d] = Null]
        BY <1>0, <3>1 DEF Closed, Types
      <3>2. ASSUME NEW l \in Driver, next' = [next EXCEPT ![l] = d, ![d] = Null] PROVE Closed(T)'
        BY <1>0, <3>2 DEF Closed, Types
      <3> QED BY <1>2, <3>1, <3>2, Zenon DEF setup_irq
    <2>3. \A e \in Driver : (Listed(e)' => e \in T) /\ (e \in T => dpc'[e] # "out")
      BY <1>0, <2>1 DEF Listed, Types
    <2>4. T \in SUBSET Driver /\ \A c \in Cpu : first'[c] \in T \cup {Null} /\ cur'[c] \in T \cup {Null}
      BY <1>0, <2>1
    <2> HIDE DEF T
    <2> QED BY <2>2, <2>3, <2>4 DEF ReachInv
  <1>3. ASSUME NEW d \in Driver, disable_irq_nosync(d) \/ DisableWait(d) \/ \E c \in Cpu : enable_irq(d, c)
        PROVE  ReachInv'
    <2>1. UNCHANGED <<next, first, cur>> /\ Listed(d) /\ \E to \in {"in", "disabling", "disabled"} : dpc' = [dpc EXCEPT ![d] = to]
      BY <1>3 DEF disable_irq_nosync, DisableWait, enable_irq, Goto, desc, Listed
    <2>2. \A e \in Driver : (Listed(e)' => e \in S) /\ (e \in S => dpc'[e] # "out")
      BY <1>0, <2>1 DEF Listed, Types
    <2>3. Closed(S)'
      BY <1>0, <2>1 DEF Closed
    <2> QED BY <1>0, <2>1, <2>2, <2>3 DEF ReachInv
  <1>4. ASSUME NEW d \in Driver, free_irq(d) PROVE ReachInv'
    <2>1. UNCHANGED <<first, cur>> /\ Listed(d) /\ dpc' = [dpc EXCEPT ![d] = "freeing"]
      BY <1>4 DEF free_irq, Goto, Listed
    <2>2. \A e \in Driver : (Listed(e)' => e \in S) /\ (e \in S => dpc'[e] # "out")
      BY <1>0, <2>1 DEF Listed, Types
    <2>3. d \in S /\ next[d] \in S \cup {Null}
      BY <1>0, <2>1 DEF Closed
    <2>4. \A e \in S : next'[e] = next[e] \/ next'[e] = next[d]
      BY <1>4 DEF free_irq, Unlink
    <2>5. Closed(S)'
      BY <1>0, <2>3, <2>4 DEF Closed
    <2> QED BY <1>0, <2>1, <2>2, <2>5 DEF ReachInv
  <1>5. ASSUME NEW d \in Driver, FreeWait(d) PROVE ReachInv'
    <2> DEFINE T == {e \in Driver : Listed(e)}
    <2>1. \A c \in Cpu : first[c] = Null /\ cur[c] = Null
      BY <1>5 DEF FreeWait, OneCpuAtATime, CurInv
    <2>2. UNCHANGED <<next, first, cur>> /\ dpc[d] = "freeing" /\ dpc' = [dpc EXCEPT ![d] = "out"]
      BY <1>5 DEF FreeWait, Goto, desc
    <2>3. \A e \in Driver : (Listed(e)' => e \in T) /\ (e \in T => dpc'[e] # "out")
      BY <2>2 DEF Listed, Types
    <2>4. Closed(T)
      BY ListedClosed
    <2>5. PICK U \in SUBSET Driver : U = T
      BY Zenon
    <2>6. Closed(U)'
      BY <2>2, <2>4, <2>5 DEF Closed
    <2> HIDE DEF T
    <2> QED BY <2>1, <2>2, <2>3, <2>5, <2>6 DEF ReachInv
  <1>6. CASE UNCHANGED <<next, dpc, first, cur>>
    BY <1>0, <1>6 DEF ReachInv, Closed, Listed
  <1>7. ASSUME NEW d \in Driver, NEW c \in Cpu, Edge(d, c) PROVE ReachInv'
    BY <1>6, <1>7 DEF Edge, desc
  <1>8. CASE UNCHANGED vars
    BY <1>6, <1>8 DEF vars, desc
  <1> QED BY <1>1, <1>2, <1>3, <1>4, <1>5, <1>7, <1>8, Zenon DEF Next, DriverStep

\* What is in no such set as ReachInv tells of is not reached.
LEMMA ReachImplies ==
  ASSUME ListInv, ReachInv
  PROVE  FreedIsUnused
  <1>0. PICK S \in SUBSET Driver :
          /\ Closed(S)
          /\ \A d \in Driver : Listed(d) => d \in S
          /\ \A d \in S : dpc[d] # "out"
          /\ \A c \in Cpu : first[c] \in S \cup {Null} /\ cur[c] \in S \cup {Null}
    BY DEF ReachInv
  <1>1. ASSUME NEW a \in S \cup {Null} PROVE Reach(a) \subseteq S
    BY <1>0 DEF Reach
  <1>2. action \in S \cup {Null}
    BY <1>0, ListedClosed
  <1>3. SUFFICES ASSUME NEW d \in Driver, dpc[d] = "out"
                 PROVE  d \notin Reach(action) \cup UNION {Reach(first[c]) \cup Reach(cur[c]) : c \in Cpu}
    BY DEF FreedIsUnused
  <1>4. d \notin S
    BY <1>0, <1>3
  <1>5. d \notin Reach(action) /\ \A c \in Cpu : d \notin Reach(first[c]) \cup Reach(cur[c])
    BY <1>0, <1>1, <1>2, <1>4
  <1> QED BY <1>5

-----------------------------------------------------------------------------
\* The three facts above hold in every state.
THEOREM ReachInvariant == Spec => [](UnusedInv /\ CurInv /\ ReachInv)
  <1>1. Init => UnusedInv /\ CurInv /\ ReachInv
    BY DEF Init, UnusedInv, CurInv, ReachInv, Closed, Listed
  <1>2. IInv /\ (UnusedInv /\ CurInv /\ ReachInv) /\ [Next]_vars => (UnusedInv /\ CurInv /\ ReachInv)'
    BY UnusedStep, CurStep, ReachStep DEF IInv
  <1> QED BY <1>1, <1>2, Invariant, PTL DEF Spec

\* depth counts the drivers that have the line disabled and never exceeds them,
\* and every other variable keeps its type.
THEOREM TypeCorrect == Spec => []TypeOK
  <1>1. IInv /\ UnusedInv => TypeOK
    <2> SUFFICES ASSUME IInv, UnusedInv PROVE TypeOK
      OBVIOUS
    <2>1. depth \in 0 .. Cardinality(Driver)
      <3>1. Cardinality(Driver) # 0
        BY IrqAssumption, FS_EmptySet
      <3> QED BY <3>1, DisablersFinite DEF IInv, Types, UnusedInv, DepthInv
    <2> QED BY <2>1 DEF IInv, Types, Booleans, TypeOK
  <1> QED BY <1>1, Invariant, ReachInvariant, PTL

\* free_irq does not return before every executing handler has let go of the
\* action: from no CPU's place in the list, nor from the descriptor, can a freed
\* action be reached.
THEOREM FreeIrqWorks == Spec => []FreedIsUnused
  <1>1. IInv /\ ReachInv => FreedIsUnused
    BY ReachImplies DEF IInv
  <1> QED BY <1>1, Invariant, ReachInvariant, PTL

-----------------------------------------------------------------------------
(***************************************************************************)
(* No edge is lost.  Three things besides it make that inductive: an edge  *)
(* on a pin that is masked is not delivered, so the line is only masked    *)
(* with its event recorded; only a listed device raises edges; and do_IRQ  *)
(* starts over from the action it has read first, so every listed action   *)
(* is still reached from there.  MaskInv and FirstInv fail once a driver   *)
(* requests or disables the line amid its handlers.                        *)
(***************************************************************************)
MaskInv ==
  /\ masked => "DISABLED" \in status
  /\ ~disturbed /\ action # Null =>
       /\ ~({"INPROGRESS", "DISABLED"} \subseteq status)
       /\ masked => "PENDING" \in status

OwedInv == \A d \in owed : Listed(d)

FirstInv ==
  ~disturbed =>
    \A c \in Cpu : first[c] # Null => \A d \in Driver : Listed(d) => d \in Reach(first[c])

\* Reach, along given next pointers.
ReachIn(nx, a) ==
  {b \in Driver : \A S \in SUBSET Driver :
     a \in S \cup {Null} /\ (\A e \in S : nx[e] \in S \cup {Null}) => b \in S}

\* Reach follows the current next pointers, before and after a step.
LEMMA ReachIs ==
  /\ \A a : Reach(a) = ReachIn(next, a)
  /\ \A d : Coming(d) <=> \/ irr # {} \/ "PENDING" \in status
                          \/ \E c \in Cpu : cur[c] # Null /\ d \in ReachIn(next, next[cur[c]])
  /\ \A d : Coming(d)' <=> \/ irr' # {} \/ "PENDING" \in status'
                           \/ \E c \in Cpu : cur'[c] # Null /\ d \in ReachIn(next', next'[cur'[c]])
  /\ FirstInv <=> (~disturbed => \A c \in Cpu : first[c] # Null =>
                                   \A d \in Driver : Listed(d) => d \in ReachIn(next, first[c]))
  /\ FirstInv' <=> (~disturbed' => \A c \in Cpu : first'[c] # Null =>
                                     \A d \in Driver : Listed(d)' => d \in ReachIn(next', first'[c]))
  BY Zenon DEF Reach, ReachIn, Closed, Coming, FirstInv

\* From the end of the list nothing is reached.
LEMMA ReachNull ==
  ASSUME NEW nx
  PROVE  ReachIn(nx, Null) = {}
  <1> DEFINE S == {}
  <1>1. S \in SUBSET Driver /\ Null \in S \cup {Null} /\ \A e \in S : nx[e] \in S \cup {Null}
    OBVIOUS
  <1>2. ASSUME NEW b \in ReachIn(nx, Null) PROVE b \in S
    BY <1>1, Zenon DEF ReachIn
  <1> QED BY <1>2

\* What is reached from an action, and is not the action, is reached from its next.
LEMMA ReachNext ==
  ASSUME NEW nx, NEW a \in Driver, NEW e \in ReachIn(nx, a), e # a
  PROVE  e \in ReachIn(nx, nx[a])
  <1> SUFFICES ASSUME NEW S \in SUBSET Driver, nx[a] \in S \cup {Null},
                      \A b \in S : nx[b] \in S \cup {Null}
               PROVE  e \in S
    BY DEF ReachIn
  <1> DEFINE T == S \cup {a}
  <1>1. T \in SUBSET Driver /\ a \in T \cup {Null} /\ \A b \in T : nx[b] \in T \cup {Null}
    OBVIOUS
  <1>2. e \in T
    BY <1>1, Zenon DEF ReachIn
  <1> QED BY <1>2

\* Taking d out of the list leaves everything else within reach.
LEMMA ReachUnlinked ==
  ASSUME NEW nx \in [Driver -> Actions], NEW M, NEW d \in Driver,
         NEW ny, ny = [b \in Driver |-> IF b # d /\ nx[b] = d /\ b \in M THEN nx[d] ELSE nx[b]],
         NEW a, NEW e \in ReachIn(nx, a), e # d
  PROVE  e \in ReachIn(ny, a)
  <1> SUFFICES ASSUME NEW S \in SUBSET Driver, a \in S \cup {Null},
                      \A b \in S : ny[b] \in S \cup {Null}
               PROVE  e \in S
    BY DEF ReachIn
  <1>1. \A b \in Driver : ny[b] = nx[b] \/ (nx[b] = d /\ ny[b] = nx[d])
    OBVIOUS
  <1>2. ny[d] = nx[d]
    OBVIOUS
  <1>3. CASE \A b \in S : ny[b] = nx[b]
    <2>1. \A b \in S : nx[b] \in S \cup {Null}
      BY <1>3
    <2> QED BY <2>1 DEF ReachIn
  <1>4. ASSUME NEW b \in S, ny[b] # nx[b] PROVE e \in S
    <2> DEFINE T == S \cup {d}
    <2>1. nx[d] \in T \cup {Null}
      BY <1>1, <1>4
    <2>2. \A x \in T : nx[x] \in T \cup {Null}
      BY <1>1, <2>1
    <2>3. T \in SUBSET Driver /\ a \in T \cup {Null}
      OBVIOUS
    <2>4. e \in T
      BY <2>2, <2>3, Zenon DEF ReachIn
    <2> QED BY <2>4
  <1> QED BY <1>3, <1>4

\* A set of numbers that is not empty has a least one: its intervals 1 .. k are
\* finite sets, of which strict inclusion is a well-founded order.
LEMMA LeastNumber ==
  ASSUME NEW K \in SUBSET Nat, K # {}
  PROVE  \E k \in K : \A j \in K : k <= j
  <1> DEFINE T == {1 .. k : k \in K}
             R == StrictSubsetOrdering(Nat)
             S == FiniteSubsetsOf(Nat)
  <1>1. T \subseteq S /\ T # {}
    <2>1. ASSUME NEW k \in K PROVE 1 .. k \in S
      BY FS_Interval DEF FiniteSubsetsOf
    <2> QED BY <2>1, Zenon
  <1>2. IsWellFoundedOn(R, S)
    BY FS_StrictSubsetOrderingWellFounded
  <1> HIDE DEF R, S, T
  <1>3. PICK x \in T : \A y \in T : ~ (<<y, x>> \in R)
    BY <1>1, <1>2, WFMin
  <1>4. PICK k \in K : x = 1 .. k
    BY DEF T
  <1>5. ASSUME NEW j \in K, ~(k <= j) PROVE FALSE
    <2>1. 1 .. j \in T
      BY DEF T
    <2>2. 1 .. j \subseteq 1 .. k /\ k \in 1 .. k /\ k \notin 1 .. j
      BY <1>5
    <2>3. <<1 .. j, 1 .. k>> \in R
      BY <2>2 DEF R, StrictSubsetOrdering
    <2> QED BY <1>3, <1>4, <2>1, <2>3
  <1> QED BY <1>5

\* Every driver that has the line is reached from desc->action.
LEMMA ListReached ==
  ASSUME ListInv, NEW d \in Driver, Listed(d)
  PROVE  action \in Driver /\ d \in ReachIn(next, action)
  <1>0. PICK n \in Nat : \E L \in [1 .. n -> Driver] : IsList(n, L)
    BY DEF ListInv
  <1>1. PICK L \in [1 .. n -> Driver] : IsList(n, L)
    BY <1>0
  <1>2. PICK i \in 1 .. n : L[i] = d
    BY <1>1 DEF IsList
  <1>3. 1 \in 1 .. n /\ action = L[1] /\ action \in Driver
    BY <1>1, <1>2 DEF IsList
  <1>4. SUFFICES ASSUME NEW S \in SUBSET Driver, action \in S \cup {Null},
                        \A e \in S : next[e] \in S \cup {Null}, d \notin S
                 PROVE  FALSE
    BY <1>3 DEF ReachIn
  <1> DEFINE K == {k \in 1 .. n : L[k] \notin S}
  <1>5. K \in SUBSET Nat /\ K # {}
    BY <1>2, <1>4
  <1>6. PICK k \in K : \A j \in K : k <= j
    BY <1>5, LeastNumber, Zenon
  <1>7. k \in 1 .. n /\ k # 1
    BY <1>3, <1>4, IrqAssumption
  <1>8. k - 1 \in 1 .. n /\ k - 1 \notin K
    BY <1>6, <1>7
  <1>9. L[k - 1] \in S /\ next[L[k - 1]] = L[k]
    BY <1>1, <1>7, <1>8 DEF IsList
  <1> QED BY <1>4, <1>7, <1>9, IrqAssumption

-----------------------------------------------------------------------------
\* A line that is not disturbed by a step was not before, and if the step can
\* disturb it no handler was in progress.
LEMMA Undisturbed ==
  ASSUME OneCpuAtATime, CurInv, [Next]_vars, ~disturbed'
  PROVE  /\ ~disturbed
         /\ \A d \in Driver : setup_irq(d) \/ disable_irq_nosync(d) =>
              "INPROGRESS" \notin status /\ \A c \in Cpu : first[c] = Null /\ cur[c] = Null
  <1>1. ~disturbed
    <2>1. UNCHANGED disturbed \/ Disturb
      BY Zenon DEF Next, CpuStep, DriverStep, do_IRQ, HandlerReturn, HandlersDone, DisableWait, FreeWait, enable_irq,
           setup_irq, disable_irq_nosync, free_irq, Edge, vars
    <2> QED BY <2>1, Zenon DEF Disturb
  <1>2. ASSUME NEW d \in Driver, setup_irq(d) \/ disable_irq_nosync(d)
        PROVE  "INPROGRESS" \notin status
    BY <1>2, Zenon DEF setup_irq, disable_irq_nosync, Disturb
  <1>3. "INPROGRESS" \notin status => \A c \in Cpu : first[c] = Null /\ cur[c] = Null
    BY Zenon DEF OneCpuAtATime, CurInv
  <1> QED BY <1>1, <1>2, <1>3

\* Only a driver that has the line is owed a call of its handler.
LEMMA OwedStep ==
  ASSUME Types, OwedInv, [Next]_vars
  PROVE  OwedInv'
  <1> USE DEF OwedInv, Listed, Goto, Types
  <1>1. ASSUME NEW c \in Cpu, CpuStep(c) PROVE OwedInv'
    <2>1. owed' \subseteq owed /\ dpc' = dpc
      BY <1>1 DEF CpuStep, do_IRQ, HandlerReturn, HandlersDone, CallHandler
    <2> QED BY <2>1
  <1>2. ASSUME NEW d \in Driver, DriverStep(d) \/ setup_irq(d) \/ disable_irq_nosync(d) PROVE OwedInv'
    <2>1. /\ owed' = owed
          /\ \E to \in {"in", "disabling", "disabled", "out"} : 
               dpc' = [dpc EXCEPT ![d] = to] /\ (to = "out" => dpc[d] = "freeing")
      BY <1>2 DEF DriverStep, DisableWait, FreeWait, enable_irq, setup_irq, disable_irq_nosync
    <2> QED BY <2>1
  <1>3. ASSUME NEW d \in Driver, free_irq(d) PROVE OwedInv'
    BY <1>3 DEF free_irq
  <1>4. ASSUME NEW d \in Driver, NEW c \in Cpu, Edge(d, c) PROVE OwedInv'
    BY <1>4 DEF Edge
  <1>5. CASE UNCHANGED vars
    BY <1>5 DEF vars
  <1> QED BY <1>1, <1>2, <1>3, <1>4, <1>5 DEF Next

\* While the line is masked it is disabled; and, if it is used and not disturbed,
\* its event is recorded, and it is not disabled amid handlers.
LEMMA MaskStep ==
  ASSUME Types, Booleans, ListInv, OneCpuAtATime, CurInv, MaskInv, [Next]_vars
  PROVE  MaskInv'
  <1>0. ~disturbed' => ~disturbed
    BY Undisturbed
  <1>1. ASSUME NEW c \in Cpu, do_IRQ(c) PROVE MaskInv'
    <2>1. action' = action /\ masked' = Acked
      BY <1>1 DEF do_IRQ
    <2>2. CASE status \cap {"DISABLED", "INPROGRESS"} = {}
      <3>1. status' = (status \ {"REPLAY", "PENDING"}) \cup {"INPROGRESS"}
        BY <1>1, <2>2 DEF do_IRQ
      <3>2. ~masked'
        BY <2>1, <2>2, Zenon DEF Acked, MaskInv
      <3> QED BY <2>2, <3>1, <3>2 DEF MaskInv
    <2>3. CASE status \cap {"DISABLED", "INPROGRESS"} # {}
      <3>1. status' = (status \ {"REPLAY"}) \cup {"PENDING"}
        BY <1>1, <2>3 DEF do_IRQ
      <3>2. masked' => "DISABLED" \in status
        BY <2>1, Zenon DEF Acked, MaskInv
      <3> QED BY <1>0, <2>1, <3>1, <3>2 DEF MaskInv
    <2> QED BY <2>2, <2>3
  <1>2. ASSUME NEW c \in Cpu, HandlersDone(c) PROVE MaskInv'
    <2>1. UNCHANGED <<action, masked>>
      BY <1>2 DEF HandlersDone
    <2>2. CASE "PENDING" \in status
      <3>1. status' = status \ {"PENDING"} /\ "INPROGRESS" \in status
        BY <1>2, <2>2 DEF HandlersDone, OneCpuAtATime
      <3> QED BY <1>0, <2>1, <3>1 DEF MaskInv
    <2>3. CASE "PENDING" \notin status
      <3>1. status' = status \ {"INPROGRESS"}
        BY <1>2, <2>3 DEF HandlersDone
      <3> QED BY <1>0, <2>1, <3>1 DEF MaskInv
    <2> QED BY <2>2, <2>3
  <1>3. ASSUME NEW d \in Driver, setup_irq(d) PROVE MaskInv'
    <2>1. ~disturbed' => "INPROGRESS" \notin status
      BY <1>3, Undisturbed
    <2>2. CASE action = Null
      <3>1. status' = status \ {"DISABLED"} /\ ~masked'
        BY <1>3, <2>2, Zenon DEF setup_irq
      <3> QED BY <2>1, <3>1 DEF MaskInv
    <2>3. CASE action # Null
      <3>1. UNCHANGED <<action, status, masked>>
        BY <1>3, <2>3, Zenon DEF setup_irq
      <3> QED BY <1>0, <2>3, <3>1 DEF MaskInv
    <2> QED BY <2>2, <2>3
  <1>4. ASSUME NEW d \in Driver, disable_irq_nosync(d) PROVE MaskInv'
    <2>1. ~disturbed' => "INPROGRESS" \notin status
      BY <1>4, Undisturbed
    <2>2. UNCHANGED <<action, masked>> /\ (status' = status \/ status' = status \cup {"DISABLED"})
      BY <1>4 DEF disable_irq_nosync
    <2> QED BY <1>0, <2>1, <2>2 DEF MaskInv
  <1>5. ASSUME NEW d \in Driver, NEW c \in Cpu, enable_irq(d, c) PROVE MaskInv'
    <2>1. action' = action
      BY <1>5 DEF enable_irq
    <2>2. CASE depth = 1
      <3>1. ~masked' /\ "DISABLED" \notin status'
        BY <1>5, <2>2 DEF enable_irq
      <3> QED BY <3>1 DEF MaskInv
    <2>3. CASE depth # 1
      <3>1. UNCHANGED <<status, masked>>
        BY <1>5, <2>3 DEF enable_irq
      <3> QED BY <1>0, <2>1, <3>1 DEF MaskInv
    <2> QED BY <2>2, <2>3
  <1>6. ASSUME NEW d \in Driver, free_irq(d) PROVE MaskInv'
    <2>1. action # Null
      BY <1>6, UsedIffListed DEF free_irq, Goto, Listed
    <2>2. masked' = masked /\ (action' # Null => status' = status) /\ (action' = Null => status' = status \cup {"DISABLED"})
      BY <1>6 DEF free_irq
    <2>3. CASE action' = Null
      BY <2>2, <2>3 DEF MaskInv
    <2>4. CASE action' # Null
      BY <1>0, <2>1, <2>2, <2>4 DEF MaskInv
    <2> QED BY <2>3, <2>4
  <1>7. CASE UNCHANGED <<status, action, masked>>
    BY <1>0, <1>7 DEF MaskInv
  <1>8. ASSUME NEW d \in Driver, DisableWait(d) \/ FreeWait(d) \/ \E c \in Cpu : Edge(d, c)
        PROVE  MaskInv'
    BY <1>7, <1>8 DEF DisableWait, FreeWait, Edge, desc
  <1>9. ASSUME NEW c \in Cpu, HandlerReturn(c) PROVE MaskInv'
    BY <1>7, <1>9 DEF HandlerReturn, desc
  <1>10. CASE UNCHANGED vars
    BY <1>7, <1>10 DEF vars, desc
  <1> QED BY <1>1, <1>2, <1>3, <1>4, <1>5, <1>6, <1>8, <1>9, <1>10 DEF Next, CpuStep, DriverStep

\* Unlinking, as a change of the next pointers.
LEMMA FreeReaches ==
  ASSUME Types, NEW d \in Driver, free_irq(d), NEW a, NEW e \in ReachIn(next, a), e # d
  PROVE  e \in ReachIn(next', a)
  <1> DEFINE M == {b \in Driver : Listed(b)}
  <1>1. next' = [b \in Driver |-> IF b # d /\ next[b] = d /\ b \in M THEN next[d] ELSE next[b]]
    BY DEF free_irq, Unlink
  <1>2. next \in [Driver -> Actions]
    BY DEF Types
  <1> HIDE DEF M
  <1> QED BY <1>1, <1>2, ReachUnlinked

\* So long as the line is not disturbed, do_IRQ reaches every handler from the
\* action it has read first.
LEMMA FirstStep ==
  ASSUME Types, ListInv, OneCpuAtATime, CurInv, FirstInv, [Next]_vars
  PROVE  FirstInv'
  <1>1. SUFFICES ASSUME ~disturbed', NEW c \in Cpu, first'[c] # Null, NEW e \in Driver, Listed(e)'
                 PROVE  e \in ReachIn(next', first'[c])
    BY ReachIs
  <1>2. first[c] # Null /\ Listed(e) => e \in ReachIn(next, first[c])
    BY <1>1, ReachIs, Undisturbed
  <1>3. ASSUME NEW b \in Cpu, do_IRQ(b) PROVE e \in ReachIn(next', first'[c])
    <2>1. UNCHANGED <<next, dpc>> /\ (first'[c] = first[c] \/ first'[c] = action)
      BY <1>3 DEF do_IRQ, Types
    <2>2. Listed(e)
      BY <1>1, <2>1 DEF Listed
    <2> QED BY <1>1, <1>2, <2>1, <2>2, ListReached
  <1>4. ASSUME NEW b \in Cpu, HandlerReturn(b) \/ HandlersDone(b) PROVE e \in ReachIn(next', first'[c])
    <2>1. UNCHANGED <<next, dpc>> /\ (first'[c] = first[c] \/ first'[c] = Null)
      BY <1>4 DEF HandlerReturn, HandlersDone, desc, Types
    <2> QED BY <1>1, <1>2, <2>1 DEF Listed
  <1>5. ASSUME NEW d \in Driver, setup_irq(d) \/ disable_irq_nosync(d) PROVE FALSE
    <2>1. first' = first
      BY <1>5 DEF setup_irq, disable_irq_nosync
    <2> QED BY <1>1, <1>5, <2>1, Undisturbed
  <1>6. ASSUME NEW d \in Driver, free_irq(d) PROVE e \in ReachIn(next', first'[c])
    <2>1. first' = first /\ e # d /\ Listed(e)
      BY <1>1, <1>6 DEF free_irq, Goto, Listed, Types
    <2> QED BY <1>1, <1>2, <1>6, <2>1, FreeReaches
  <1>7. ASSUME NEW d \in Driver, DriverStep(d) \/ \E b \in Cpu : Edge(d, b) PROVE e \in ReachIn(next', first'[c])
    <2>1. UNCHANGED <<next, first>>
      BY <1>7 DEF DriverStep, DisableWait, FreeWait, enable_irq, Edge, desc
    <2>2. Listed(e)
      BY <1>1, <1>7 DEF DriverStep, DisableWait, FreeWait, enable_irq, Edge, Goto, Listed, Types
    <2> QED BY <1>1, <1>2, <2>1, <2>2
  <1>8. CASE UNCHANGED vars
    BY <1>1, <1>2, <1>8 DEF vars, desc, Listed
  <1> QED BY <1>3, <1>4, <1>5, <1>6, <1>7, <1>8 DEF Next, CpuStep

\* An edge that is remembered stays so until the handler is called.
LEMMA EdgeStep ==
  ASSUME Types, Booleans, ListInv, DepthInv, OneCpuAtATime, CurInv,
         MaskInv, OwedInv, FirstInv, EdgeIsRemembered, [Next]_vars
  PROVE  EdgeIsRemembered'
  <1>1. SUFFICES ASSUME ~disturbed', NEW d \in owed' PROVE Coming(d)'
    BY DEF EdgeIsRemembered
  <1>2. ~disturbed
    BY <1>1, Undisturbed
  <1>3. d \in owed => /\ d \in Driver /\ Listed(d)
                      /\ \/ irr # {} \/ "PENDING" \in status
                         \/ \E c \in Cpu : cur[c] # Null /\ d \in ReachIn(next, next[cur[c]])
    BY <1>2, ReachIs DEF EdgeIsRemembered, OwedInv, Types
  <1>4. SUFFICES \/ irr' # {} \/ "PENDING" \in status'
                 \/ \E c \in Cpu : cur'[c] # Null /\ d \in ReachIn(next', next'[cur'[c]])
    BY ReachIs
  <1> DEFINE Goal == \/ irr' # {} \/ "PENDING" \in status'
                     \/ \E c \in Cpu : cur'[c] # Null /\ d \in ReachIn(next', next'[cur'[c]])
  \* A CPU that sets out from an action from which d is reached has d before it.
  <1>5. ASSUME NEW c \in Cpu, NEW a \in Actions, cur' = [cur EXCEPT ![c] = a], d # a,
               next' = next, d \in ReachIn(next, a)
        PROVE  Goal
    <2>1. a # Null
      BY <1>5, ReachNull
    <2>2. a \in Driver
      BY <2>1 DEF Actions
    <2>3. d \in ReachIn(next, next[a])
      BY <1>5, <2>2, ReachNext
    <2>4. cur'[c] = a
      BY <1>5 DEF Types
    <2> QED BY <1>5, <2>1, <2>3, <2>4
  <1>6. ASSUME NEW c \in Cpu, do_IRQ(c) PROVE Goal
    <2>1. CASE status \cap {"DISABLED", "INPROGRESS"} = {}
      <3>1. cur' = [cur EXCEPT ![c] = action] /\ owed' = owed \ {action} /\ next' = next
        BY <1>6, <2>1 DEF do_IRQ, CallHandler
      <3>2. d # action /\ d \in ReachIn(next, action) /\ action \in Actions
        BY <1>1, <1>3, <3>1, ListReached DEF Types
      <3> HIDE DEF Goal
      <3> QED BY <1>5, <3>1, <3>2, Zenon
    <2>2. CASE status \cap {"DISABLED", "INPROGRESS"} # {}
      BY <1>6, <2>2 DEF do_IRQ
    <2> QED BY <2>1, <2>2
  <1>7. ASSUME NEW c \in Cpu, HandlerReturn(c) PROVE Goal
    <2>1. /\ cur[c] # Null /\ cur' = [cur EXCEPT ![c] = next[cur[c]]] /\ owed' = owed \ {next[cur[c]]}
          /\ UNCHANGED <<next, irr, status>>
      BY <1>7 DEF HandlerReturn, CallHandler, desc
    <2>2. CASE irr # {} \/ "PENDING" \in status
      BY <2>1, <2>2
    <2>3. ASSUME NEW b \in Cpu, cur[b] # Null, d \in ReachIn(next, next[cur[b]]) PROVE Goal
      <3>1. b = c
        BY <2>1, <2>3 DEF OneCpuAtATime, CurInv
      <3>2. next[cur[c]] \in Actions
        BY <2>1 DEF Types, Actions
      <3> HIDE DEF Goal
      <3> QED BY <1>1, <1>5, <2>1, <2>3, <3>1, <3>2, Zenon
    <2> QED BY <1>1, <1>3, <2>1, <2>2, <2>3
  <1>8. ASSUME NEW c \in Cpu, HandlersDone(c) PROVE Goal
    <2>1. CASE "PENDING" \in status
      <3>1. cur' = [cur EXCEPT ![c] = first[c]] /\ owed' = owed \ {first[c]} /\ next' = next /\ first[c] # Null
        BY <1>8, <2>1 DEF HandlersDone, CallHandler
      <3>2. d # first[c] /\ d \in ReachIn(next, first[c]) /\ first[c] \in Actions
        BY <1>1, <1>2, <1>3, <3>1, ReachIs, Zenon DEF Types
      <3> HIDE DEF Goal
      <3> QED BY <1>5, <3>1, <3>2, Zenon
    <2>2. CASE "PENDING" \notin status
      <3>1. UNCHANGED <<cur, owed, next, irr>>
        BY <1>8, <2>2 DEF HandlersDone
      <3> QED BY <1>1, <1>3, <2>2, <3>1, Zenon
    <2> QED BY <2>1, <2>2
  <1>9. ASSUME NEW f \in Driver, setup_irq(f) \/ disable_irq_nosync(f) PROVE Goal
    <2>1. UNCHANGED <<irr, cur, owed>> /\ ("PENDING" \in status => "PENDING" \in status')
      BY <1>9 DEF setup_irq, disable_irq_nosync
    <2>2. \A c \in Cpu : cur[c] = Null
      BY <1>1, <1>9, Undisturbed
    <2> QED BY <1>1, <1>3, <2>1, <2>2
  <1>10. ASSUME NEW f \in Driver, DriverStep(f) PROVE Goal
    <2>1. /\ UNCHANGED <<cur, owed, next>> /\ irr \subseteq irr'
          /\ "PENDING" \in status => "PENDING" \in status'
      BY <1>10 DEF DriverStep, DisableWait, FreeWait, enable_irq, desc
    <2> QED BY <1>1, <1>3, <2>1
  <1>11. ASSUME NEW f \in Driver, free_irq(f) PROVE Goal
    <2>1. /\ UNCHANGED <<cur, irr>> /\ owed' = owed \ {f}
          /\ "PENDING" \in status => "PENDING" \in status'
      BY <1>11 DEF free_irq
    <2>2. d # f /\ d \in owed
      BY <1>1, <2>1
    <2>3. ASSUME NEW c \in Cpu, cur[c] # Null, d \in ReachIn(next, next[cur[c]])
          PROVE  d \in ReachIn(next', next'[cur[c]])
      <3>1. cur[c] \in Driver
        BY <2>3, SMTT(20) DEF Types, Actions
      <3>2. next'[cur[c]] = next[cur[c]] \/ (next[cur[c]] = f /\ next'[cur[c]] = next[f])
        BY <1>11, <3>1 DEF free_irq, Unlink
      <3>3. CASE next'[cur[c]] = next[cur[c]]
        BY <1>11, <2>2, <2>3, <3>3, FreeReaches
      <3>4. CASE next[cur[c]] = f /\ next'[cur[c]] = next[f]
        <4>1. d \in ReachIn(next, next[f])
          BY <2>2, <2>3, <3>4, ReachNext
        <4> QED BY <1>11, <2>2, <3>4, <4>1, FreeReaches
      <3> QED BY <3>2, <3>3, <3>4
    <2> QED BY <1>3, <2>1, <2>2, <2>3
  <1>12. ASSUME NEW f \in Driver, NEW c \in Cpu, Edge(f, c) PROVE Goal
    <2>1. UNCHANGED <<cur, next, status>> /\ irr \subseteq irr' /\ owed' = owed \cup {f} /\ (~masked => irr' # {})
      BY <1>12 DEF Edge, desc
    <2>2. masked => "PENDING" \in status
      <3>1. action # Null
        BY <1>12, UsedIffListed DEF Edge
      <3> QED BY <1>2, <3>1, Zenon DEF MaskInv
    <2>3. irr' # {} \/ "PENDING" \in status'
      BY <2>1, <2>2, Zenon
    <2> QED BY <2>3
  <1>13. ASSUME UNCHANGED vars PROVE Goal
    <2>1. UNCHANGED <<cur, owed, next, irr, status>>
      BY <1>13 DEF vars, desc
    <2> QED BY <1>1, <1>3, <2>1
  <1> HIDE DEF Goal
  <1>14. Goal
    BY <1>6, <1>7, <1>8, <1>9, <1>10, <1>11, <1>12, <1>13 DEF Next, CpuStep
  <1> QED BY <1>14 DEF Goal

-----------------------------------------------------------------------------
\* "If another processor is handling a different instance of this same irq, the
\* other processor will take care of it" (do_IRQ): the handler of a device that
\* has raised an edge will be called, so long as no driver disturbs the line amid
\* its handlers.
THEOREM EdgesAreRemembered == Spec => []EdgeIsRemembered
  <1> DEFINE EInv == MaskInv /\ OwedInv /\ FirstInv /\ EdgeIsRemembered
  <1>1. Init => EInv
    BY DEF Init, MaskInv, OwedInv, FirstInv, EdgeIsRemembered
  <1>2. IInv /\ CurInv /\ EInv /\ [Next]_vars => EInv'
    BY MaskStep, OwedStep, FirstStep, EdgeStep DEF IInv
  <1> QED BY <1>1, <1>2, Invariant, ReachInvariant, PTL DEF Spec

-----------------------------------------------------------------------------
(* The global interrupt lock, on the same CPUs.                            *)
(*                                                                         *)
(* It has one owner (OneOwner) and a cli keeps handlers and bottom halves  *)
(* out (GlobalCli), for any depth of nesting and any CPUs that reorder.    *)
(* Neither is inductive.  A CPU becomes the holder in two steps, and       *)
(* between them, with the lock, it has seen every count at 0: so the       *)
(* invariant says from there on (Quiet) that no handler runs, that the     *)
(* counts tell the truth for the CPUs that do not reorder (Counts), and    *)
(* that whoever is in bh_action has global_bh_lock (BhOwner).              *)

Counts == \A d \in Cpu \ Reorder : local_irq_count[d] = Len(irq[d])
BhOwner == \A c \in Cpu : pc[c]["bh"] # "none" => global_bh_lock = c
Quiet ==
  \A c \in Cpu, l \in Level :
    pc[c][l] \in {"waitbh", "held"} => \A d \in Cpu \ Reorder : ~HandlerRuns(d)
BhQuiet ==
  \A c \in Cpu : pc[c]["process"] = "held" => \A d \in Cpu : ~BhRuns(d)
LockOwned == global_irq_lock <=> \E c \in Cpu, l \in Level : Owns(c, l)
SingleOwner ==
  \A c, d \in Cpu, l, m \in Level : Owns(c, l) /\ Owns(d, m) => c = d /\ l = m
Holder == \A c \in Cpu : global_irq_holder = c <=> \E l \in Level : pc[c][l] = "held"

CliInv ==
  /\ CliTypeOK /\ Counts /\ BhOwner /\ Quiet /\ BhQuiet
  /\ LockOwned /\ SingleOwner /\ Holder

-----------------------------------------------------------------------------
\* The invariant is what the two properties need.
LEMMA CliInvImplies == CliInv => GlobalCli /\ OneOwner
<1> SUFFICES ASSUME CliInv PROVE GlobalCli /\ OneOwner
  OBVIOUS
<1>1. GlobalCli
  BY Zenon DEF CliInv, Quiet, BhQuiet, GlobalCli
<1>2. \A c, d \in Cpu : BhRuns(c) /\ BhRuns(d) => c = d
  BY Zenon DEF CliInv, BhOwner, BhRuns
<1> QED
  BY <1>1, <1>2, Zenon DEF CliInv, OneOwner, LockOwned, SingleOwner, Holder

\* The invariant holds when the kernel starts: process code runs everywhere.
LEMMA CliInitInv ==
  CliInit => CliInv
<1> SUFFICES ASSUME CliInit PROVE CliInv
  OBVIOUS
<1> USE GlobalIrqAssumption
<1>1. CliTypeOK
  <2>1. global_irq_lock \in BOOLEAN /\ IF_ \in [Cpu -> BOOLEAN]
    BY Zenon DEF CliInit
  <2>2. pc \in [Cpu -> [Level -> {"none", "trylock", "run"} \cup CliPc]]
    BY DEF CliInit, JustProcess
  <2>3. irq \in [Cpu -> Seq({"enter", "run"})] /\ \A c \in Cpu : Len(irq[c]) <= Nest
    BY DEF CliInit
  <2>4. local_irq_count \in [Cpu -> 0 .. Nest]
    BY DEF CliInit
  <2> QED
    BY <2>1, <2>2, <2>3, <2>4, Zenon DEF CliInit, CliTypeOK
<1>2. \A c \in Cpu, l \in Level : pc[c][l] \in {"run", "none"} /\ irq[c] = << >>
  BY DEF CliInit, Level, JustProcess
<1>3. Counts /\ BhOwner
  <2>1. \A c \in Cpu : pc[c]["bh"] = "none"
    BY DEF CliInit, Level, JustProcess
  <2> QED
    BY <2>1 DEF CliInit, Counts, BhOwner, Level
<1>4. Quiet /\ BhQuiet /\ SingleOwner
  BY <1>2 DEF Quiet, BhQuiet, SingleOwner, Owns, Level
<1>5. LockOwned
  BY <1>2, Zenon DEF CliInit, LockOwned, Owns
<1>6. Holder
  BY <1>2, Zenon DEF CliInit, Holder
<1> QED
  BY <1>1, <1>3, <1>4, <1>5, <1>6 DEF CliInv

-----------------------------------------------------------------------------
(* What a step does to the lock and to the code of a CPU. *)

Code == {"none", "trylock", "run"} \cup CliPc
Owning == {"wait", "waitbh", "held"}

Takes(c, l) ==
  /\ ~global_irq_lock /\ global_irq_lock' /\ UNCHANGED global_irq_holder
  /\ ~Owns(c, l) /\ CliGoto(c, l, "wait")
Gives(c, l) ==
  /\ Owns(c, l) /\ ~global_irq_lock'
  /\ global_irq_holder' = IF pc[c][l] = "held" THEN NoCpu ELSE global_irq_holder
  /\ \E p \in Code \ Owning : CliGoto(c, l, p)
Keeps(c, l) ==
  /\ UNCHANGED global_irq_lock
  /\ \/ /\ pc[c][l] = "wait" /\ ~irqs_running(c)
        /\ CliGoto(c, l, "waitbh") /\ UNCHANGED global_irq_holder
     \/ /\ pc[c][l] = "waitbh" /\ ~BhRunning(l)
        /\ CliGoto(c, l, "held") /\ global_irq_holder' = c
Passes(c, l) ==
  /\ UNCHANGED lockvars /\ ~Owns(c, l)
  /\ \E p \in Code \ Owning : CliGoto(c, l, p)

\* Where the code of every CPU is after a Goto.
LEMMA GotoEffect ==
  ASSUME CliTypeOK, NEW c \in Cpu, NEW l \in Level, NEW p, CliGoto(c, l, p)
  PROVE  \A d \in Cpu, m \in Level : pc'[d][m] = IF d = c /\ m = l THEN p ELSE pc[d][m]
  BY DEF CliTypeOK, CliGoto

\* Every step is one of these for some code, or leaves lock and code alone.
LEMMA StepClasses ==
  ASSUME CliTypeOK, NEW c \in Cpu, Run(c) \/ Drain(c) \/ Arrival(c)
  PROVE  \/ UNCHANGED <<lockvars, pc>>
         \/ \E l \in Level : Takes(c, l) \/ Gives(c, l) \/ Keeps(c, l) \/ Passes(c, l)
<1> DEFINE Class(l) == Takes(c, l) \/ Gives(c, l) \/ Keeps(c, l) \/ Passes(c, l)
<1> SUFFICES UNCHANGED <<lockvars, pc>> \/ \E l \in Level : Class(l)
  OBVIOUS
<1>b. global_irq_lock \in BOOLEAN
  BY DEF CliTypeOK
<1>1. CASE irq_enter(c) \/ irq_exit(c) \/ Drain(c) \/ Interrupt(c)
  BY <1>1, Zenon DEF irq_enter, irq_exit, Drain, Interrupt, lockvars
<1>2. ASSUME NEW l \in Level, cli(c, l) PROVE Class(l)
  <2>1. CASE global_irq_lock
    BY <1>2, <2>1, Zenon DEF cli, At, CliGoto, Owns, Passes, lockvars, Code, CliPc, Owning
  <2>2. CASE ~global_irq_lock
    BY <1>2, <2>2, Zenon DEF cli, At, CliGoto, Owns, Takes
  <2> QED BY <2>1, <2>2
<1>3. ASSUME NEW l \in Level, GetIrqlockSpin(c, l) PROVE Class(l)
  BY <1>3, Zenon DEF GetIrqlockSpin, At, CliGoto, Owns, Takes
<1>4. ASSUME NEW l \in Level, WaitIrqs(c, l) PROVE Class(l)
  BY <1>4, Zenon DEF WaitIrqs, Release, At, CliGoto, Owns, Gives, Keeps, Code, CliPc, Owning
<1>5. ASSUME NEW l \in Level, WaitBh(c, l) PROVE Class(l)
  BY <1>5, Zenon DEF WaitBh, Release, At, CliGoto, Owns, Gives, Keeps, Code, CliPc, Owning
<1>6. ASSUME NEW l \in Level, WindowClose(c, l) PROVE Class(l)
  BY <1>6, Zenon DEF WindowClose, At, CliGoto, Owns, Passes, lockvars, Code, CliPc, Owning
<1>7. ASSUME NEW l \in Level, WindowTas(c, l) PROVE Class(l)
  <2>1. CASE global_irq_lock
    BY <1>7, <2>1, Zenon DEF WindowTas, At, CliGoto, Owns, Passes, lockvars, Code, CliPc, Owning
  <2>2. CASE ~global_irq_lock
    BY <1>7, <2>2, Zenon DEF WindowTas, At, CliGoto, Owns, Takes
  <2> QED BY <2>1, <2>2
<1>8. ASSUME NEW l \in Level, sti(c, l) PROVE Class(l)
  BY <1>8, Zenon DEF sti, At, CliGoto, Owns, Gives, Code, CliPc, Owning
<1>9. CASE BhLock(c) \/ hardirq_trylock(c) \/ BhDone(c)
  <2>1. "bh" \in Level
    BY DEF Level
  <2>2. CASE BhLock(c)
    <3>1. pc[c]["bh"] = "none"
      BY <2>2 DEF BhLock, Active
    <3> QED BY <2>1, <2>2, <3>1, Zenon DEF BhLock, CliGoto, Owns, Passes, Code, Owning
  <2>3. CASE hardirq_trylock(c)
    BY <2>1, <2>3, Zenon DEF hardirq_trylock, BhUnlock, At, CliGoto, Owns, Passes, Code, Owning
  <2>4. CASE BhDone(c)
    BY <2>1, <2>4, Zenon DEF BhDone, BhUnlock, At, CliGoto, Owns, Passes, Code, Owning
  <2> QED BY <1>9, <2>2, <2>3, <2>4
<1> HIDE DEF Class
<1> QED
  BY <1>1, <1>2, <1>3, <1>4, <1>5, <1>6, <1>7, <1>8, <1>9, Zenon DEF Run, Arrival, GetCli

-----------------------------------------------------------------------------
(* Every part of the invariant is preserved. *)

\* The lock keeps one owner, and the holder is the one whose cli has returned.
LEMMA LockStep ==
  ASSUME CliInv, NEW c \in Cpu, Run(c) \/ Drain(c) \/ Arrival(c)
  PROVE  LockOwned' /\ SingleOwner' /\ Holder'
<1> USE GlobalIrqAssumption
<1>t. CliTypeOK /\ LockOwned /\ SingleOwner /\ Holder /\ global_irq_lock \in BOOLEAN
  BY DEF CliInv, CliTypeOK
<1>0. ASSUME UNCHANGED lockvars,
             \A d \in Cpu, m \in Level : Owns(d, m)' <=> Owns(d, m),
             \A d \in Cpu, m \in Level : pc'[d][m] = "held" <=> pc[d][m] = "held"
      PROVE  LockOwned' /\ SingleOwner' /\ Holder'
  <2>1. LockOwned'
    BY <1>t, <1>0, Zenon DEF lockvars, LockOwned
  <2>2. SingleOwner'
    BY <1>t, <1>0, Zenon DEF SingleOwner
  <2>3. Holder'
    BY <1>t, <1>0, Zenon DEF lockvars, Holder
  <2> QED BY <2>1, <2>2, <2>3
<1>1. CASE UNCHANGED <<lockvars, pc>>
  <2>1. pc' = pc /\ UNCHANGED lockvars
    BY <1>1
  <2>2. \A d \in Cpu, m \in Level : Owns(d, m)' <=> Owns(d, m)
    BY <2>1 DEF Owns
  <2>3. \A d \in Cpu, m \in Level : pc'[d][m] = "held" <=> pc[d][m] = "held"
    BY <2>1
  <2> QED BY <1>0, <2>1, <2>2, <2>3
<1>2. ASSUME NEW l \in Level, NEW p, CliGoto(c, l, p)
      PROVE  \A d \in Cpu, m \in Level : pc'[d][m] = IF d = c /\ m = l THEN p ELSE pc[d][m]
  BY <1>t, <1>2, GotoEffect
<1>3. ASSUME NEW l \in Level, Takes(c, l) PROVE LockOwned' /\ SingleOwner' /\ Holder'
  <2>1. \A d \in Cpu, m \in Level : pc'[d][m] = IF d = c /\ m = l THEN "wait" ELSE pc[d][m]
    BY <1>2, <1>3, SMTT(20) DEF Takes
  <2>2. \A d \in Cpu, m \in Level : Owns(d, m)' <=> d = c /\ m = l
    BY <1>t, <1>3, <2>1 DEF Takes, LockOwned, Owns
  <2>3. \A d \in Cpu, m \in Level : pc'[d][m] = "held" <=> pc[d][m] = "held"
    BY <1>3, <2>1 DEF Takes, Owns
  <2> QED BY <1>t, <1>3, <2>2, <2>3, ZenonT(30) DEF Takes, LockOwned, SingleOwner, Holder
<1>4. ASSUME NEW l \in Level, Gives(c, l) PROVE LockOwned' /\ SingleOwner' /\ Holder'
  <2>0. PICK p \in Code \ Owning : CliGoto(c, l, p)
    BY <1>4 DEF Gives
  <2>1. \A d \in Cpu, m \in Level : pc'[d][m] = IF d = c /\ m = l THEN p ELSE pc[d][m]
    BY <1>2, <2>0, SMTT(20)
  <2>2. \A d \in Cpu, m \in Level : ~Owns(d, m)'
    BY <1>t, <1>4, <2>0, <2>1 DEF Gives, SingleOwner, Owns, Owning
  <2>3. \A d \in Cpu, m \in Level : pc'[d][m] # "held"
    BY <2>2 DEF Owns
  <2>4. \A d \in Cpu : global_irq_holder' # d
    BY <1>t, <1>4, ZenonT(30) DEF Gives, SingleOwner, Holder, Owns
  <2> QED BY <1>4, <2>2, <2>3, <2>4, Zenon DEF Gives, LockOwned, SingleOwner, Holder
<1>5. ASSUME NEW l \in Level, Keeps(c, l) PROVE LockOwned' /\ SingleOwner' /\ Holder'
  <2>1. \A d \in Cpu, m \in Level : Owns(d, m)' <=> Owns(d, m)
    BY <1>2, <1>5 DEF Keeps, Owns
  <2>2. LockOwned' /\ SingleOwner'
    BY <1>t, <1>5, <2>1, Zenon DEF Keeps, LockOwned, SingleOwner
  <2>3. CASE pc[c][l] = "wait" /\ CliGoto(c, l, "waitbh") /\ UNCHANGED global_irq_holder
    <3>1. \A d \in Cpu, m \in Level : pc'[d][m] = "held" <=> pc[d][m] = "held"
      BY <1>2, <2>3
    <3> QED BY <1>t, <2>2, <2>3, <3>1, Zenon DEF Holder
  <2>4. CASE pc[c][l] = "waitbh" /\ CliGoto(c, l, "held") /\ global_irq_holder' = c
    <3>1. \A d \in Cpu, m \in Level : pc'[d][m] = "held" <=> d = c /\ m = l
      BY <1>t, <1>2, <2>4 DEF SingleOwner, Owns
    <3> QED BY <2>2, <2>4, <3>1, ZenonT(30) DEF Holder
  <2> QED BY <1>5, <2>3, <2>4, Zenon DEF Keeps
<1>6. ASSUME NEW l \in Level, Passes(c, l) PROVE LockOwned' /\ SingleOwner' /\ Holder'
  <2>0. PICK p \in Code \ Owning : CliGoto(c, l, p)
    BY <1>6 DEF Passes
  <2>1. \A d \in Cpu, m \in Level : pc'[d][m] = IF d = c /\ m = l THEN p ELSE pc[d][m]
    BY <1>2, <2>0
  <2>2. \A d \in Cpu, m \in Level : Owns(d, m)' <=> Owns(d, m)
    BY <1>6, <2>0, <2>1 DEF Passes, Owns, Owning
  <2>3. \A d \in Cpu, m \in Level : pc'[d][m] = "held" <=> pc[d][m] = "held"
    BY <1>6, <2>0, <2>1 DEF Passes, Owns, Owning
  <2>4. UNCHANGED lockvars
    BY <1>6 DEF Passes
  <2> QED BY <1>0, <2>2, <2>3, <2>4
<1> QED
  BY <1>t, <1>1, <1>3, <1>4, <1>5, <1>6, StepClasses, Zenon

-----------------------------------------------------------------------------
(* What a step does to the handlers and their counts. *)

Still(c) == UNCHANGED irq /\ (UNCHANGED local_irq_count \/ Locked(c))

\* Only interrupts and their handlers change the stack of handlers.
LEMMA IrqClasses ==
  ASSUME NEW c \in Cpu, Run(c) \/ Drain(c) \/ Arrival(c)
  PROVE  Still(c) \/ Interrupt(c) \/ irq_enter(c) \/ irq_exit(c)
<1>1. CASE Drain(c) \/ BhLock(c) \/ hardirq_trylock(c) \/ BhDone(c)
  BY <1>1, Zenon DEF Drain, BhLock, hardirq_trylock, BhDone, Still
<1>2. ASSUME NEW l \in Level, cli(c, l) \/ sti(c, l) \/ GetCli(c, l)
      PROVE  Still(c)
  <2>1. CASE cli(c, l) \/ sti(c, l)
    BY <2>1, Zenon DEF cli, sti, Still
  <2>2. CASE GetCli(c, l)
    BY <2>2, Zenon DEF GetCli, GetIrqlockSpin, WaitIrqs, WaitBh, WindowClose, WindowTas, Release, Still
  <2> QED BY <1>2, <2>1, <2>2
<1> QED
  BY <1>1, <1>2, Zenon DEF Run, Arrival

\* The counts keep telling the truth, and no handler starts while the lock is held.
LEMMA IrqStep ==
  ASSUME CliTypeOK, Counts, NEW c \in Cpu, Run(c) \/ Drain(c) \/ Arrival(c)
  PROVE  /\ irq' \in [Cpu -> Seq({"enter", "run"})] /\ \A d \in Cpu : Len(irq'[d]) <= Nest
         /\ local_irq_count' \in [Cpu -> 0 .. Nest]
         /\ Counts'
         /\ \A d \in Cpu : HandlerRuns(d)' => HandlerRuns(d) \/ (~global_irq_lock /\ UNCHANGED pc)
<1> USE GlobalIrqAssumption
<1>t. /\ irq \in [Cpu -> Seq({"enter", "run"})] /\ \A d \in Cpu : Len(irq[d]) <= Nest
      /\ local_irq_count \in [Cpu -> 0 .. Nest]
  BY DEF CliTypeOK
<1>1. CASE Still(c)
  <2>1. irq' = irq /\ (local_irq_count' = local_irq_count \/ Locked(c))
    BY <1>1 DEF Still
  <2>2. Len(irq[c]) \in 0 .. Nest
    BY <1>t
  <2>3. local_irq_count' \in [Cpu -> 0 .. Nest]
    BY <1>t, <2>1, <2>2, Zenon DEF Locked
  <2>4. Counts'
    BY <1>t, <2>1, <2>2, Zenon DEF Locked, Counts
  <2> QED BY <1>t, <2>1, <2>3, <2>4 DEF HandlerRuns
<1>2. CASE Interrupt(c)
  <2>1. irq' = [irq EXCEPT ![c] = Append(@, "enter")] /\ Len(irq[c]) < Nest /\ Stored(c, Len(irq'[c]))
    BY <1>2 DEF Interrupt
  <2>2. /\ irq' \in [Cpu -> Seq({"enter", "run"})] /\ \A d \in Cpu : Len(irq'[d]) <= Nest
        /\ local_irq_count' \in [Cpu -> 0 .. Nest] /\ Counts'
    BY <1>t, <2>1 DEF Stored, Counts
  <2>3. \A d \in Cpu : HandlerRuns(d)' => HandlerRuns(d)
    BY <1>t, <2>1 DEF HandlerRuns
  <2> QED BY <2>2, <2>3
<1>3. CASE irq_enter(c)
  <2>1. /\ irq' = [irq EXCEPT ![c][Len(irq[c])] = "run"] /\ irq[c] # << >>
        /\ ~global_irq_lock /\ pc' = pc /\ local_irq_count' = local_irq_count
    BY <1>3 DEF irq_enter
  <2>2. irq[c] \in Seq({"enter", "run"}) /\ Len(irq[c]) \in 1 .. Len(irq[c])
    BY <1>t, <2>1
  <2>3. /\ [irq[c] EXCEPT ![Len(irq[c])] = "run"] \in Seq({"enter", "run"})
        /\ Len([irq[c] EXCEPT ![Len(irq[c])] = "run"]) = Len(irq[c])
    BY <2>2
  <2>4. irq' = [irq EXCEPT ![c] = [irq[c] EXCEPT ![Len(irq[c])] = "run"]]
    BY <1>t, <2>1
  <2>5. irq' \in [Cpu -> Seq({"enter", "run"})] /\ \A d \in Cpu : Len(irq'[d]) = Len(irq[d])
    BY <1>t, <2>3, <2>4
  <2> QED BY <1>t, <2>1, <2>5 DEF Counts
<1>4. CASE irq_exit(c)
  <2>1. /\ irq' = [irq EXCEPT ![c] = SubSeq(@, 1, Len(@) - 1)] /\ irq[c] # << >>
        /\ Stored(c, Len(irq'[c]))
    BY <1>4 DEF irq_exit
  <2>2. /\ irq' \in [Cpu -> Seq({"enter", "run"})] /\ \A d \in Cpu : Len(irq'[d]) <= Nest
        /\ local_irq_count' \in [Cpu -> 0 .. Nest] /\ Counts'
    BY <1>t, <2>1 DEF Stored, Counts
  <2>3. \A d \in Cpu : HandlerRuns(d)' => HandlerRuns(d)
    BY <1>t, <2>1 DEF HandlerRuns
  <2> QED BY <2>2, <2>3
<1> QED
  BY <1>1, <1>2, <1>3, <1>4, IrqClasses

\* The other variables keep their types.
LEMMA TypeStep ==
  ASSUME CliTypeOK, Counts, NEW c \in Cpu, Run(c) \/ Drain(c) \/ Arrival(c)
  PROVE  CliTypeOK'
<1> USE GlobalIrqAssumption
<1>1. pc' \in [Cpu -> [Level -> {"none", "trylock", "run"} \cup CliPc]]
  <2>1. pc' = pc \/ \E l \in Level, p \in Code : CliGoto(c, l, p)
    BY StepClasses, Zenon DEF Takes, Gives, Keeps, Passes, Code, CliPc
  <2>2. ASSUME NEW l \in Level, NEW p \in Code, CliGoto(c, l, p)
        PROVE  pc' \in [Cpu -> [Level -> {"none", "trylock", "run"} \cup CliPc]]
    BY <2>2 DEF CliTypeOK, CliGoto, Code
  <2> QED BY <2>1, <2>2 DEF CliTypeOK
<1>2. global_irq_lock' \in BOOLEAN /\ global_irq_holder' \in Cpu \cup {NoCpu}
  <2>1. global_irq_lock' = global_irq_lock \/ global_irq_lock' = TRUE \/ global_irq_lock' = FALSE
    BY Zenon DEF Run, Arrival, Drain, GetCli, irq_enter, irq_exit, Interrupt, BhLock, hardirq_trylock,
       BhDone, Release, cli, sti, GetIrqlockSpin, WaitIrqs, WaitBh, WindowClose, WindowTas, lockvars
  <2>2. global_irq_holder' \in {global_irq_holder, c, NoCpu}
    BY StepClasses, Zenon DEF lockvars, Takes, Gives, Keeps, Passes
  <2> QED BY <2>1, <2>2, Zenon DEF CliTypeOK
<1>3. global_bh_lock' \in Cpu \cup {NoCpu} /\ IF_' \in [Cpu -> BOOLEAN]
  <2>1. global_bh_lock' \in {global_bh_lock, c, NoCpu}
    BY Zenon DEF Run, Arrival, Drain, GetCli, irq_enter, irq_exit, Interrupt, BhLock, hardirq_trylock,
       BhDone, BhUnlock, cli, sti, GetIrqlockSpin, WaitIrqs, WaitBh, WindowClose, WindowTas
  <2>2. IF_' = IF_ \/ \E on \in BOOLEAN : IF_' = [IF_ EXCEPT ![c] = on]
    BY Zenon DEF CliTypeOK, Run, Arrival, Drain, GetCli, irq_enter, irq_exit, Interrupt, BhLock,
       hardirq_trylock, BhDone, Release, cli, sti, GetIrqlockSpin, WaitIrqs, WaitBh, WindowClose, WindowTas
  <2> QED BY <2>1, <2>2, Zenon DEF CliTypeOK
<1> QED
  BY <1>1, <1>2, <1>3, IrqStep, Zenon DEF CliTypeOK

-----------------------------------------------------------------------------
(* What a step does to bottom halves. *)

\* No bottom half starts, or goes past hardirq_trylock.
NoNewBh ==
  \A d \in Cpu : /\ pc'[d]["bh"] # "none" => pc[d]["bh"] # "none"
                 /\ BhRuns(d)' => BhRuns(d)

\* Only bh_action takes and gives global_bh_lock, and starts a bottom half.
LEMMA BhClasses ==
  ASSUME CliTypeOK, NEW c \in Cpu, Run(c) \/ Drain(c) \/ Arrival(c)
  PROVE  (UNCHANGED global_bh_lock /\ NoNewBh) \/ BhLock(c) \/ hardirq_trylock(c) \/ BhDone(c)
<1>l. "bh" \in Level
  BY DEF Level
<1>1. CASE Drain(c) \/ Interrupt(c) \/ irq_enter(c) \/ irq_exit(c)
  <2>1. global_bh_lock' = global_bh_lock /\ pc' = pc
    BY <1>1, Zenon DEF Drain, Interrupt, irq_enter, irq_exit
  <2> QED BY <2>1 DEF NoNewBh, BhRuns
<1>2. ASSUME NEW l \in Level, cli(c, l) \/ sti(c, l) \/ GetCli(c, l)
      PROVE  UNCHANGED global_bh_lock /\ NoNewBh
  <2>1. global_bh_lock' = global_bh_lock /\ pc[c][l] \notin {"none", "trylock"}
    <3>1. global_bh_lock' = global_bh_lock /\ \E q \in CliPc \cup {"run"} : At(c, l, q)
      BY <1>2, Zenon DEF cli, sti, GetCli, GetIrqlockSpin, WaitIrqs, WaitBh, WindowClose, WindowTas, CliPc
    <3> QED BY <3>1 DEF At, CliPc
  <2>2. \E p \in CliPc \cup {"run"} : CliGoto(c, l, p)
    BY <1>2, Zenon DEF cli, sti, GetCli, GetIrqlockSpin, WaitIrqs, WaitBh, WindowClose, WindowTas,
       Release, CliPc
  <2>3. PICK p \in CliPc \cup {"run"} : CliGoto(c, l, p)
    BY <2>2
  <2>4. \A d \in Cpu, m \in Level : pc'[d][m] = IF d = c /\ m = l THEN p ELSE pc[d][m]
    BY <2>3, GotoEffect
  <2> QED BY <1>l, <2>1, <2>4 DEF NoNewBh, BhRuns
<1> QED
  BY <1>1, <1>2, Zenon DEF Run, Arrival

\* Whoever is in bh_action has global_bh_lock.
LEMMA BhOwnerStep ==
  ASSUME CliInv, NEW c \in Cpu, Run(c) \/ Drain(c) \/ Arrival(c)
  PROVE  BhOwner'
<1> USE GlobalIrqAssumption
<1>t. CliTypeOK /\ BhOwner /\ "bh" \in Level
  BY DEF CliInv, Level
<1>1. CASE UNCHANGED global_bh_lock /\ NoNewBh
  BY <1>t, <1>1, Zenon DEF NoNewBh, BhOwner
<1>2. CASE BhLock(c)
  <2>1. global_bh_lock' = c /\ global_bh_lock = NoCpu /\ CliGoto(c, "bh", "trylock")
    BY <1>2 DEF BhLock
  <2>2. \A d \in Cpu, m \in Level : pc'[d][m] = IF d = c /\ m = "bh" THEN "trylock" ELSE pc[d][m]
    BY <1>t, <2>1, GotoEffect
  <2> QED BY <1>t, <2>1, <2>2 DEF BhOwner
<1>3. ASSUME BhUnlock(c), pc[c]["bh"] # "none" PROVE BhOwner'
  <2>1. \A d \in Cpu, m \in Level : pc'[d][m] = IF d = c /\ m = "bh" THEN "none" ELSE pc[d][m]
    BY <1>t, <1>3, GotoEffect DEF BhUnlock
  <2>2. \A d \in Cpu : pc'[d]["bh"] = "none"
    BY <1>t, <1>3, <2>1 DEF BhOwner
  <2> QED BY <2>2 DEF BhOwner
<1>4. CASE hardirq_trylock(c)
  <2>1. pc[c]["bh"] = "trylock"
    BY <1>4 DEF hardirq_trylock, At
  <2>2. CASE global_irq_lock
    BY <1>3, <1>4, <2>1, <2>2 DEF hardirq_trylock
  <2>3. CASE ~global_irq_lock
    <3>1. CliGoto(c, "bh", "run") /\ global_bh_lock' = global_bh_lock
      BY <1>4, <2>3 DEF hardirq_trylock
    <3>2. \A d \in Cpu, m \in Level : pc'[d][m] = IF d = c /\ m = "bh" THEN "run" ELSE pc[d][m]
      BY <1>t, <3>1, GotoEffect
    <3> QED BY <1>t, <2>1, <3>1, <3>2 DEF BhOwner
  <2> QED BY <2>2, <2>3
<1>5. CASE BhDone(c)
  BY <1>3, <1>5 DEF BhDone, At
<1> QED
  BY <1>t, <1>1, <1>2, <1>4, <1>5, BhClasses

-----------------------------------------------------------------------------
(* A cli, once granted, keeps everybody out. *)

\* wait_on_irq has seen every count at 0, and since then irq_enter finds the lock.
LEMMA CliQuietStep ==
  ASSUME CliInv, NEW c \in Cpu, Run(c) \/ Drain(c) \/ Arrival(c)
  PROVE  Quiet'
<1> USE GlobalIrqAssumption
<1>t. CliTypeOK /\ Counts /\ Quiet /\ LockOwned
  BY DEF CliInv
<1> SUFFICES ASSUME NEW d \in Cpu, NEW m \in Level, pc'[d][m] \in {"waitbh", "held"},
                    NEW e \in Cpu \ Reorder, HandlerRuns(e)'
             PROVE  FALSE
  BY Zenon DEF Quiet
<1>1. HandlerRuns(e) \/ (~global_irq_lock /\ pc' = pc)
  BY <1>t, IrqStep
<1>2. CASE pc[d][m] \in {"waitbh", "held"}
  <2>1. global_irq_lock
    BY <1>t, <1>2, Zenon DEF LockOwned, Owns
  <2> QED BY <1>1, <1>2, <1>t, <2>1, Zenon DEF Quiet
<1>3. CASE pc[d][m] \notin {"waitbh", "held"}
  <2>1. HandlerRuns(e)
    BY <1>1, <1>3, SMTT(20)
  <2>2. PICK l \in Level : Takes(c, l) \/ Gives(c, l) \/ Keeps(c, l) \/ Passes(c, l)
    BY <1>t, <1>3, StepClasses, SMTT(20)
  <2>3. ASSUME NEW p, CliGoto(c, l, p), p \notin {"waitbh", "held"} PROVE FALSE
    <3>1. \A b \in Cpu, k \in Level : pc'[b][k] = IF b = c /\ k = l THEN p ELSE pc[b][k]
      BY <1>t, <2>3, GotoEffect, SMTT(20)
    <3> QED BY <1>3, <2>3, <3>1
  <2>4. Keeps(c, l)
    <3>1. CASE Takes(c, l)
      BY <2>3, <3>1 DEF Takes
    <3>2. CASE Gives(c, l) \/ Passes(c, l)
      <4>1. PICK p \in Code \ Owning : CliGoto(c, l, p)
        BY <3>2, Zenon DEF Gives, Passes
      <4> QED BY <2>3, <4>1 DEF Owning
    <3> QED BY <2>2, <3>1, <3>2
  <2>5. CASE pc[c][l] = "waitbh"
    BY <1>t, <2>1, <2>5, Zenon DEF Quiet
  <2>6. CASE pc[c][l] = "wait"
    <3>1. ~irqs_running(c)
      BY <2>4, <2>6 DEF Keeps
    <3>2. irq[c] = << >> /\ (e # c => local_irq_count[e] = 0)
      BY <3>1, SMTT(20) DEF irqs_running
    <3>3. Len(irq[e]) = 0 /\ irq[e] \in Seq({"enter", "run"})
      BY <1>t, <3>2, SMTT(20) DEF Counts, CliTypeOK
    <3> QED BY <2>1, <3>3, SMTT(20) DEF HandlerRuns
  <2> QED BY <2>4, <2>5, <2>6 DEF Keeps
<1> QED BY <1>2, <1>3

\* A cli of process code has seen global_bh_lock free, and since then
\* hardirq_trylock finds the lock.
LEMMA BhQuietStep ==
  ASSUME CliInv, NEW c \in Cpu, Run(c) \/ Drain(c) \/ Arrival(c)
  PROVE  BhQuiet'
<1> USE GlobalIrqAssumption
<1>t. CliTypeOK /\ BhOwner /\ BhQuiet /\ LockOwned /\ "bh" \in Level /\ "process" \in Level
  BY DEF CliInv, Level
<1>1. \A d \in Cpu : BhRuns(d)' => BhRuns(d) \/ ~global_irq_lock
  <2>1. CASE NoNewBh
    BY <2>1 DEF NoNewBh
  <2>2. CASE BhLock(c)
    <3>1. CliGoto(c, "bh", "trylock")
      BY <2>2, ZenonT(30) DEF BhLock
    <3>2. \A d \in Cpu, m \in Level : pc'[d][m] = IF d = c /\ m = "bh" THEN "trylock" ELSE pc[d][m]
      BY <1>t, <3>1, GotoEffect
    <3> QED BY <1>t, <3>2 DEF BhRuns
  <2>3. CASE (hardirq_trylock(c) /\ global_irq_lock) \/ BhDone(c)
    <3>1. CliGoto(c, "bh", "none")
      BY <2>3, Zenon DEF hardirq_trylock, BhDone, BhUnlock
    <3>2. \A d \in Cpu, m \in Level : pc'[d][m] = IF d = c /\ m = "bh" THEN "none" ELSE pc[d][m]
      BY <1>t, <3>1, GotoEffect
    <3> QED BY <1>t, <3>2 DEF BhRuns
  <2> QED BY <1>t, <2>1, <2>2, <2>3, BhClasses, Zenon
<1> SUFFICES ASSUME NEW d \in Cpu, pc'[d]["process"] = "held", NEW e \in Cpu, BhRuns(e)'
             PROVE  FALSE
  BY Zenon DEF BhQuiet
<1>2. CASE pc[d]["process"] = "held"
  BY <1>t, <1>1, <1>2, Zenon DEF BhQuiet, LockOwned, Owns
<1>3. CASE pc[d]["process"] # "held"
  <2>1. PICK l \in Level : Takes(c, l) \/ Gives(c, l) \/ Keeps(c, l) \/ Passes(c, l)
    BY <1>t, <1>3, StepClasses
  <2>2. ASSUME NEW p, CliGoto(c, l, p) PROVE p = "held" /\ c = d /\ l = "process"
    <3>1. \A b \in Cpu, k \in Level : pc'[b][k] = IF b = c /\ k = l THEN p ELSE pc[b][k]
      BY <1>t, <2>2, GotoEffect, SMTT(20)
    <3> QED BY <1>t, <1>3, <3>1, SMTT(20)
  <2>3. Keeps(c, l)
    <3>1. CASE Takes(c, l)
      BY <2>2, <3>1 DEF Takes
    <3>2. CASE Gives(c, l) \/ Passes(c, l)
      <4>1. PICK p \in Code \ Owning : CliGoto(c, l, p)
        BY <3>2, Zenon DEF Gives, Passes
      <4> QED BY <2>2, <4>1 DEF Owning
    <3> QED BY <2>1, <3>1, <3>2
  <2>4. pc[c][l] = "waitbh" /\ ~BhRunning(l) /\ l = "process"
    BY <2>2, <2>3 DEF Keeps
  <2>5. ~BhRuns(e)
    BY <1>t, <2>4 DEF BhRunning, BhOwner, BhRuns
  <2>6. global_irq_lock
    BY <1>t, <2>4, Zenon DEF LockOwned, Owns
  <2> QED BY <1>1, <2>5, <2>6, SMTT(20)
<1> QED BY <1>2, <1>3

-----------------------------------------------------------------------------
\* Every step of every CPU keeps the invariant.
THEOREM CliInvariant ==
  CliSpec => []CliInv
<1>1. CliInv /\ [CliNext]_clivars => CliInv'
  <2> SUFFICES ASSUME CliInv, [CliNext]_clivars PROVE CliInv'
    OBVIOUS
  <2>1. CASE UNCHANGED clivars
    <3>1. /\ UNCHANGED <<global_irq_lock, global_irq_holder, global_bh_lock>>
          /\ UNCHANGED <<IF_, irq, local_irq_count, pc>>
      BY <2>1 DEF clivars, lockvars
    <3>2. \A c \in Cpu, l \in Level : Owns(c, l)' <=> Owns(c, l)
      BY <3>1 DEF Owns
    <3>3. \A c \in Cpu : (HandlerRuns(c)' <=> HandlerRuns(c)) /\ (BhRuns(c)' <=> BhRuns(c))
      BY <3>1 DEF HandlerRuns, BhRuns
    <3>4. CliTypeOK' /\ Counts'
      BY <3>1 DEF CliInv, CliTypeOK, Counts
    <3>5. BhOwner' /\ Quiet' /\ BhQuiet'
      BY <3>1, <3>3, Zenon DEF CliInv, BhOwner, Quiet, BhQuiet
    <3>6. LockOwned' /\ SingleOwner' /\ Holder'
      BY <3>1, <3>2, Zenon DEF CliInv, LockOwned, SingleOwner, Holder
    <3> QED BY <3>4, <3>5, <3>6 DEF CliInv
  <2>2. CASE CliNext
    <3>1. PICK c \in Cpu : Run(c) \/ Drain(c) \/ Arrival(c)
      BY <2>2 DEF CliNext
    <3>2. CliTypeOK' /\ Counts'
      BY <3>1, TypeStep, IrqStep DEF CliInv
    <3>3. BhOwner' /\ Quiet' /\ BhQuiet'
      BY <3>1, BhOwnerStep, CliQuietStep, BhQuietStep
    <3>4. LockOwned' /\ SingleOwner' /\ Holder'
      BY <3>1, LockStep
    <3> QED BY <3>2, <3>3, <3>4 DEF CliInv
  <2> QED BY <2>1, <2>2
<1> QED
  BY <1>1, CliInitInv, PTL DEF CliSpec

\* While a cli is in force no handler runs on a CPU whose stores are visible at
\* once, and no bottom half if process code has called it, on any number of CPUs.
THEOREM CliIsGlobal ==
  CliSpec => []GlobalCli
  BY CliInvariant, CliInvImplies, PTL

\* The global lock has one owner and global_irq_holder names it, on any number of CPUs.
THEOREM LockHasOneOwner ==
  CliSpec => []OneOwner
  BY CliInvariant, CliInvImplies, PTL
=============================================================================
