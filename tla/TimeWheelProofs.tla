--------------------------- MODULE TimeWheelProofs ---------------------------
(***************************************************************************)
(* Why the reference counts of code/timer/test.cc are right for any number *)
(* of nodes, any wheel and any delays, and why a node dies with its latest *)
(* timeout when every timeout is less than a turn of the wheel ahead.      *)
(***************************************************************************)
EXTENDS TimeWheel, NaturalRecursion

\* No node has more entries or references than timeouts were added for it.
BoundInv == \A n \in Nodes : ref[n] <= adds[n] /\ \A s \in Slots : tw[s][n] <= adds[n]

\* Before its first timeout a node is nowhere in the wheel.
NewInv == \A n \in Nodes : object[n] = "none" => n \notin offline /\ ref[n] = 0 /\ \A s \in Slots : tw[s][n] = 0

\* A node that lives has an entry that will kill it.
LiveInv == \A n \in Nodes : object[n] = "live" /\ n \notin offline => ref[n] > 0

\* The inductive invariant.
IInv == WheelInv /\ BoundInv /\ NewInv /\ LiveInv

----------------------------------------------------------------------------
(* Sums over the slots. *)

USE SizeAssumption

\* g[k] is the sum over the first k slots.
IsSum(g, f) == g \in [0..TW_SIZE -> Nat] /\ g[0] = 0 /\ \A k \in 1..TW_SIZE : g[k] = g[k - 1] + f[k - 1]

\* SlotSum adds slot by slot.
LEMMA SlotSumIs ==
  ASSUME NEW f \in [Slots -> Nat]
  PROVE  \E g : IsSum(g, f) /\ SlotSum(f) = g[TW_SIZE]
<1> DEFINE N == TW_SIZE
           step(k, t) == t + f[k - 1]
           next == [k \in 1..N |-> [t \in Nat |-> step(k, t)]]
           Eq(g) == g = [k \in 0..N |-> IF k = 0 THEN 0 ELSE g[k - 1] + f[k - 1]]
           first == CHOOSE g : Eq(g)
<1>1. N \in Nat /\ \A k \in 1..N : f[k - 1] \in Nat
  BY DEF Slots
<1>2. next \in Steps(N, Nat) /\ \A k \in 1..N, t \in Nat : next[k][t] = t + f[k - 1]
  BY <1>1 DEF Steps
<1>3. \E g : Eq(g)
  <2> HIDE DEF next, N
  <2>1. \E g : IsRecursion(g, N, Nat, 0, next)
    BY <1>1, <1>2, RecursionUpTo
  <2>2. PICK g \in [0..N -> Nat] : g[0] = 0 /\ \A k \in 1..N : g[k] = next[k][g[k - 1]]
    BY <2>1 DEF IsRecursion
  <2>3. \A k \in 0..N : g[k] = IF k = 0 THEN 0 ELSE g[k - 1] + f[k - 1]
    <3>1. SUFFICES ASSUME NEW k \in 0..N, k # 0 PROVE g[k] = g[k - 1] + f[k - 1]
      BY <2>2
    <3>2. k \in 1..N /\ k - 1 \in 0..N
      BY <1>1, <3>1
    <3>3. QED
      BY <1>2, <2>2, <3>2
  <2>4. Eq(g)
    BY <2>3
  <2>5. QED
    BY <2>4
<1>4. Eq(first)
  <2> HIDE DEF Eq
  <2>1. QED
    BY <1>3
<1>5. SlotSum(f) = first[N]
  BY DEF SlotSum
<1> HIDE DEF first
<1>6. first[0] = 0 /\ \A k \in 1..N : first[k] = first[k - 1] + f[k - 1]
  <2>1. \A k \in 0..N : first[k] = IF k = 0 THEN 0 ELSE first[k - 1] + f[k - 1]
    BY <1>4
  <2>2. QED
    BY <1>1, <2>1
<1> DEFINE Good == {k \in 0..N : first[k] \in Nat}
<1>7. 0..N \subseteq Good
  <2>1. 0 \in Good
    BY <1>1, <1>6
  <2>2. ASSUME NEW k \in 1..N, k - 1 \in Good PROVE k \in Good
    BY <1>1, <1>6, <2>2
  <2> HIDE DEF Good
  <2>3. QED
    BY <1>1, <2>1, <2>2, InductionUpTo
<1>8. first \in [0..N -> Nat]
  BY <1>4, <1>7
<1>9. QED
  BY <1>5, <1>6, <1>8 DEF IsSum

\* A sum changes by as much as the number of the one slot that changes.
LEMMA SlotSumChange ==
  ASSUME NEW f \in [Slots -> Nat], NEW h \in [Slots -> Nat], NEW t \in Slots,
         \A s \in Slots \ {t} : h[s] = f[s]
  PROVE  /\ SlotSum(f) \in Nat /\ SlotSum(h) \in Nat
         /\ SlotSum(h) + f[t] = SlotSum(f) + h[t]
<1>1. PICK g : IsSum(g, f) /\ SlotSum(f) = g[TW_SIZE]
  BY SlotSumIs
<1>2. PICK e : IsSum(e, h) /\ SlotSum(h) = e[TW_SIZE]
  BY SlotSumIs
<1> DEFINE Upto(k) == IF k > t THEN e[k] + f[t] = g[k] + h[t] ELSE e[k] = g[k]
           Good == {k \in 0..TW_SIZE : Upto(k)}
<1>3. 0 \in Good
  BY <1>1, <1>2 DEF IsSum, Slots
<1>4. ASSUME NEW k \in 1..TW_SIZE, k - 1 \in Good PROVE k \in Good
  <2>1. /\ g[k] = g[k - 1] + f[k - 1] /\ g[k - 1] \in Nat
        /\ e[k] = e[k - 1] + h[k - 1] /\ e[k - 1] \in Nat
    BY <1>1, <1>2 DEF IsSum
  <2>2. k - 1 \in Slots /\ k - 1 \in 0..TW_SIZE /\ Upto(k - 1)
    BY <1>4 DEF Slots
  <2>3. CASE k - 1 = t
    BY <2>1, <2>2, <2>3 DEF Slots
  <2>4. CASE k - 1 # t
    <3>1. h[k - 1] = f[k - 1] /\ f[k - 1] \in Nat /\ f[t] \in Nat /\ h[t] \in Nat
      BY <2>2, <2>4
    <3>2. k > t <=> k - 1 > t
      BY <2>4 DEF Slots
    <3>3. QED
      BY <2>1, <2>2, <3>1, <3>2
  <2>5. QED
    BY <2>3, <2>4
<1>5. TW_SIZE \in Good
  <2> HIDE DEF Good
  <2>1. 0..TW_SIZE \subseteq Good
    BY <1>3, <1>4, InductionUpTo
  <2>2. QED
    BY <2>1
<1>6. TW_SIZE > t
  BY DEF Slots
<1>7. QED
  BY <1>1, <1>2, <1>5, <1>6 DEF IsSum

\* No slot has more than the sum.
LEMMA SlotSumBounds ==
  ASSUME NEW f \in [Slots -> Nat], NEW t \in Slots
  PROVE  f[t] <= SlotSum(f)
<1> DEFINE h == [f EXCEPT ![t] = 0]
<1>1. h \in [Slots -> Nat] /\ h[t] = 0 /\ \A s \in Slots \ {t} : h[s] = f[s]
  OBVIOUS
<1> HIDE DEF h
<1>2. SlotSum(f) \in Nat /\ SlotSum(h) \in Nat /\ SlotSum(h) + f[t] = SlotSum(f) + h[t]
  BY <1>1, SlotSumChange
<1>3. QED
  BY <1>1, <1>2

\* Nothing anywhere sums to nothing.
LEMMA SlotSumOfNone ==
  ASSUME NEW f \in [Slots -> Nat], \A s \in Slots : f[s] = 0
  PROVE  SlotSum(f) = 0
<1>1. PICK g : IsSum(g, f) /\ SlotSum(f) = g[TW_SIZE]
  BY SlotSumIs
<1> DEFINE Good == {k \in 0..TW_SIZE : g[k] = 0}
<1>2. 0 \in Good
  BY <1>1 DEF IsSum
<1>3. ASSUME NEW k \in 1..TW_SIZE, k - 1 \in Good PROVE k \in Good
  BY <1>1, <1>3 DEF IsSum, Slots
<1>4. TW_SIZE \in Good
  <2> HIDE DEF Good
  <2>1. 0..TW_SIZE \subseteq Good
    BY <1>2, <1>3, InductionUpTo
  <2>2. QED
    BY <2>1
<1>5. QED
  BY <1>1, <1>4

\* The remainders the wheel takes, of numbers less than two turns away.
LEMMA Remainders ==
  ASSUME NEW a \in Int
  PROVE  /\ a % TW_SIZE \in Slots
         /\ a \in Slots => a % TW_SIZE = a
         /\ a - TW_SIZE \in Slots => a % TW_SIZE = a - TW_SIZE
         /\ a + TW_SIZE \in Slots => a % TW_SIZE = a + TW_SIZE
<1>1. a % TW_SIZE \in Slots
  BY DEF Slots
<1>2. a \in Slots => a % TW_SIZE = a
  BY DEF Slots
<1>3. a - TW_SIZE \in Slots => a % TW_SIZE = a - TW_SIZE
  BY DEF Slots
<1>4. a + TW_SIZE \in Slots => a % TW_SIZE = a + TW_SIZE
  BY DEF Slots
<1>5. QED
  BY <1>1, <1>2, <1>3, <1>4

----------------------------------------------------------------------------
(* The invariant is inductive. *)

USE DelaysAssumption

\* No node, no entry.
LEMMA InitInv == Init => IInv
<1> SUFFICES ASSUME Init PROVE IInv
  OBVIOUS
<1>1. TypeOK /\ BoundInv /\ NewInv /\ LiveInv /\ NoDanglingEntry /\ RefCounts
  BY DEF Init, TypeOK, BoundInv, NewInv, LiveInv, NoDanglingEntry, RefCounts, Slots
<1>2. QED
  BY <1>1 DEF IInv, WheelInv

\* The entries of a node are numbers.
LEMMA EntriesType == ASSUME TypeOK, NEW n \in Nodes PROVE EntriesOf(n) \in [Slots -> Nat]
BY DEF TypeOK, EntriesOf

\* A timeout adds one entry and one reference.
LEMMA AddInv ==
  ASSUME IInv, NEW n \in Nodes, NEW delay \in Nat, Add(n, delay)
  PROVE  IInv'
<1> DEFINE t == SlotAfter(delay)
<1>1. t \in Slots
  <2>1. iRealTick + EXPIRE + delay \in Int
    BY DEF IInv, WheelInv, TypeOK, Slots
  <2>2. QED
    BY <2>1, Remainders DEF SlotAfter
<1>2. /\ TypeOK /\ BoundInv /\ NewInv /\ LiveInv /\ NoDanglingEntry /\ RefCounts
      /\ object[n] # "deleted" /\ adds[n] < MaxAdds
      /\ object' = [object EXCEPT ![n] = "live"]
      /\ ref' = [ref EXCEPT ![n] = @ + 1]
      /\ tw' = [tw EXCEPT ![t][n] = @ + 1]
      /\ adds' = [adds EXCEPT ![n] = @ + 1]
      /\ UNCHANGED <<iRealTick, offline, proc>>
  BY DEF IInv, WheelInv, Add
<1> HIDE DEF t
<1>3. \A s \in Slots, m \in Nodes : tw'[s][m] = IF s = t /\ m = n THEN tw[s][m] + 1 ELSE tw[s][m]
  BY <1>1, <1>2 DEF TypeOK
<1>4. adds[n] + 1 \in 0..MaxAdds /\ ref[n] + 1 \in 0..MaxAdds /\ \A s \in Slots : tw[s][n] + 1 \in 0..MaxAdds
  BY <1>2 DEF TypeOK, BoundInv
<1>5. TypeOK'
  <2>1. tw' \in [Slots -> [Nodes -> 0..MaxAdds]]
    BY <1>1, <1>2, <1>4 DEF TypeOK
  <2>2. QED
    BY <1>2, <1>4, <2>1 DEF TypeOK
<1>6. BoundInv'
  BY <1>2, <1>3 DEF TypeOK, BoundInv
<1>7. NewInv'
  BY <1>2, <1>3 DEF TypeOK, NewInv
<1>8. LiveInv'
  BY <1>2 DEF TypeOK, NewInv, LiveInv
<1>9. NoDanglingEntry'
  BY <1>2, <1>3 DEF TypeOK, NoDanglingEntry
<1>10. RefCounts'
  <2>1. SUFFICES ASSUME NEW m \in Nodes, object'[m] = "live", m \notin offline
                 PROVE  ref'[m] = SlotSum(EntriesOf(m)')
    BY <1>2 DEF RefCounts
  <2>2. ref[m] = SlotSum(EntriesOf(m)) /\ ref[m] \in Nat
    <3>1. CASE object[m] = "live"
      BY <1>2, <2>1, <3>1 DEF RefCounts, TypeOK
    <3>2. CASE object[m] # "live"
      <4>1. m = n /\ object[m] = "none"
        BY <1>2, <2>1, <3>2 DEF TypeOK
      <4>2. ref[m] = 0 /\ \A s \in Slots : EntriesOf(m)[s] = 0
        BY <1>2, <4>1 DEF NewInv, EntriesOf
      <4>3. EntriesOf(m) \in [Slots -> Nat]
        BY <1>2, EntriesType
      <4>4. QED
        BY <4>2, <4>3, SlotSumOfNone
    <3>3. QED
      BY <3>1, <3>2
  <2>3. PICK f \in [Slots -> Nat] : f = EntriesOf(m)
    BY <1>2, EntriesType
  <2>4. PICK h \in [Slots -> Nat] : h = EntriesOf(m)'
    <3>1. EntriesOf(m)' \in [Slots -> Nat]
      BY <1>5 DEF EntriesOf, TypeOK
    <3>2. QED
      BY <3>1
  <2>5. \A s \in Slots : h[s] = IF s = t /\ m = n THEN f[s] + 1 ELSE f[s]
    BY <1>3, <2>3, <2>4 DEF EntriesOf
  <2>6. SlotSum(f) \in Nat /\ SlotSum(h) \in Nat /\ SlotSum(h) + f[t] = SlotSum(f) + h[t]
    BY <1>1, <2>5, SlotSumChange
  <2>7. f[t] \in Nat /\ h[t] = IF m = n THEN f[t] + 1 ELSE f[t]
    BY <1>1, <2>5
  <2>8. ref'[m] = IF m = n THEN ref[m] + 1 ELSE ref[m]
    BY <1>2 DEF TypeOK
  <2>9. QED
    BY <2>2, <2>3, <2>4, <2>6, <2>7, <2>8
<1>11. QED
  BY <1>5, <1>6, <1>7, <1>8, <1>9, <1>10 DEF IInv, WheelInv

\* Offline takes the count away, and the promise with it.
LEMMA OfflineInv == ASSUME IInv, NEW n \in Nodes, Offline(n) PROVE IInv'
<1>1. /\ TypeOK /\ BoundInv /\ NewInv /\ LiveInv /\ NoDanglingEntry /\ RefCounts
      /\ object[n] = "live" /\ ref' = [ref EXCEPT ![n] = 0] /\ offline' = offline \cup {n}
      /\ UNCHANGED <<iRealTick, tw, object, adds, proc>>
  BY DEF IInv, WheelInv, Offline
<1>2. TypeOK' /\ BoundInv' /\ NewInv' /\ LiveInv' /\ NoDanglingEntry'
  BY <1>1 DEF TypeOK, BoundInv, NewInv, LiveInv, NoDanglingEntry
<1>3. RefCounts'
  <2>1. \A m \in Nodes : EntriesOf(m)' = EntriesOf(m)
    BY <1>1 DEF EntriesOf
  <2>2. QED
    BY <1>1, <2>1 DEF RefCounts, TypeOK
<1>4. QED
  BY <1>2, <1>3 DEF IInv, WheelInv

\* Max is the greatest number of a set.
LEMMA MaxIs ==
  ASSUME NEW S \in SUBSET Int, NEW m \in S, \A y \in S : m >= y
  PROVE  Max(S) = m
<1>1. \A x \in S : (\A y \in S : x >= y) => x = m
  OBVIOUS
<1>2. QED
  BY <1>1 DEF Max

\* What a tick does to one node that is not offline: it gives up one reference
\* per entry, and dies when that was all.
ShiftOf(n) ==
  /\ ref'[n] = ref[n] - Entries(n) /\ ref[n] >= Entries(n) /\ Entries(n) \in Nat
  /\ ref'[n] = SlotSum(EntriesOf(n)')
  /\ Killed(n) <=> ref'[n] = 0
  /\ ref'[n] = 0 => \A s \in Slots : tw'[s][n] = 0

\* A tick empties one list.
LEMMA ShiftEntries ==
  ASSUME IInv, TimerShift
  PROVE  \A s \in Slots, n \in Nodes : tw'[s][n] = IF s = iRealTick THEN 0 ELSE tw[s][n]
BY DEF IInv, WheelInv, TypeOK, TimerShift

\* Whether it dies shows in its count.
LEMMA ShiftOfLive ==
  ASSUME IInv, TimerShift, NEW n \in Nodes, object[n] = "live", n \notin offline
  PROVE  ShiftOf(n)
<1>1. /\ TypeOK /\ LiveInv /\ RefCounts /\ iRealTick \in Slots
      /\ ref[n] \in Nat /\ ref[n] > 0 /\ ref[n] = SlotSum(EntriesOf(n))
  BY DEF IInv, WheelInv, TypeOK, LiveInv, RefCounts
<1>2. PICK f \in [Slots -> Nat] : f = EntriesOf(n)
  BY <1>1, EntriesType
<1>3. \A s \in Slots : tw'[s][n] = IF s = iRealTick THEN 0 ELSE f[s]
  BY <1>2, ShiftEntries DEF EntriesOf
<1>4. PICK h \in [Slots -> Nat] : h = EntriesOf(n)' /\ \A s \in Slots : h[s] = tw'[s][n]
  <2>1. EntriesOf(n)' = [s \in Slots |-> tw'[s][n]]
    BY DEF EntriesOf
  <2>2. [s \in Slots |-> tw'[s][n]] \in [Slots -> Nat]
    BY <1>3
  <2>3. QED
    BY <2>1, <2>2
<1>5. f[iRealTick] = Entries(n) /\ h[iRealTick] = 0 /\ \A s \in Slots \ {iRealTick} : h[s] = f[s]
  BY <1>1, <1>2, <1>3, <1>4 DEF EntriesOf, Entries
<1>6. SlotSum(f) \in Nat /\ SlotSum(h) \in Nat /\ SlotSum(h) + f[iRealTick] = SlotSum(f) + h[iRealTick]
  BY <1>1, <1>5, SlotSumChange
<1>7. SlotSum(f) = ref[n] /\ Entries(n) \in Nat
  BY <1>1, <1>2, <1>5
<1>8. ref[n] >= Entries(n) /\ SlotSum(h) = ref[n] - Entries(n)
  BY <1>5, <1>6, <1>7
<1>9. ref'[n] = ref[n] - Entries(n)
  <2>1. ref'[n] = Max({0, ref[n] - Entries(n)})
    BY DEF TimerShift
  <2>2. {0, ref[n] - Entries(n)} \in SUBSET Int /\ \A y \in {0, ref[n] - Entries(n)} : ref[n] - Entries(n) >= y
    BY <1>1, <1>7, <1>8
  <2>3. QED
    BY <2>1, <2>2, MaxIs
<1>10. Killed(n) <=> ref'[n] = 0
  BY <1>1, <1>7, <1>8, <1>9 DEF Killed
<1>11. ASSUME ref'[n] = 0 PROVE \A s \in Slots : tw'[s][n] = 0
  <2>1. SlotSum(h) = 0
    BY <1>8, <1>9, <1>11
  <2>2. \A s \in Slots : h[s] <= 0 /\ h[s] \in Nat
    BY <2>1, SlotSumBounds
  <2>3. QED
    BY <1>4, <2>2
<1>12. QED
  BY <1>4, <1>7, <1>8, <1>9, <1>10, <1>11 DEF ShiftOf

\* A tick keeps counts and entries together.
LEMMA ShiftInv == ASSUME IInv, TimerShift PROVE IInv'
<1>1. /\ TypeOK /\ BoundInv /\ NewInv /\ LiveInv /\ NoDanglingEntry /\ RefCounts
      /\ object' = [n \in Nodes |-> IF Killed(n) THEN "deleted" ELSE object[n]]
      /\ UNCHANGED <<offline, adds>>
  BY DEF IInv, WheelInv, TimerShift
<1>2. \A s \in Slots, n \in Nodes : tw'[s][n] = IF s = iRealTick THEN 0 ELSE tw[s][n]
  BY ShiftEntries
<1>3. \A n \in Nodes : ref'[n] \in 0..ref[n] /\ ref[n] \in Nat
  <2>1. SUFFICES ASSUME NEW n \in Nodes PROVE ref'[n] \in 0..ref[n] /\ ref[n] \in Nat
    OBVIOUS
  <2>2. ref[n] \in Nat /\ Entries(n) \in Nat
    BY <1>1 DEF TypeOK, Entries
  <2>3. ref'[n] = Max({0, ref[n] - Entries(n)})
    BY DEF TimerShift
  <2>4. CASE ref[n] >= Entries(n)
    <3>1. {0, ref[n] - Entries(n)} \in SUBSET Int /\ \A y \in {0, ref[n] - Entries(n)} : ref[n] - Entries(n) >= y
      BY <2>2, <2>4
    <3>2. ref'[n] = ref[n] - Entries(n)
      BY <2>3, <3>1, MaxIs
    <3>3. QED
      BY <2>2, <2>4, <3>2
  <2>5. CASE ~ (ref[n] >= Entries(n))
    <3>1. {0, ref[n] - Entries(n)} \in SUBSET Int /\ \A y \in {0, ref[n] - Entries(n)} : 0 >= y
      BY <2>2, <2>5
    <3>2. ref'[n] = 0
      BY <2>3, <3>1, MaxIs
    <3>3. QED
      BY <2>2, <3>2
  <2>6. QED
    BY <2>4, <2>5
<1>4. ASSUME NEW n \in Nodes, object[n] = "live", n \notin offline PROVE ShiftOf(n)
  BY <1>4, ShiftOfLive
<1>5. \A n \in Nodes : object'[n] = "live" => object[n] = "live" /\ ~ Killed(n)
  BY <1>1
<1>6. TypeOK'
  <2>1. tw' \in [Slots -> [Nodes -> 0..MaxAdds]]
    <3>1. tw' = [tw EXCEPT ![iRealTick] = [n \in Nodes |-> 0]] /\ [n \in Nodes |-> 0] \in [Nodes -> 0..MaxAdds]
      BY DEF TimerShift
    <3>2. QED
      BY <1>1, <3>1 DEF TypeOK
  <2>2. ref' \in [Nodes -> 0..MaxAdds]
    <3>1. ref' = [n \in Nodes |-> ref'[n]]
      BY DEF TimerShift
    <3>2. \A n \in Nodes : ref'[n] \in 0..MaxAdds
      BY <1>1, <1>3 DEF TypeOK
    <3>3. QED
      BY <3>1, <3>2
  <2>3. iRealTick' \in Slots
    <3>1. iRealTick + 1 \in Int
      BY <1>1 DEF TypeOK, Slots
    <3>2. QED
      BY <3>1, Remainders DEF TimerShift
  <2>4. proc' \in {"up", "down"}
    BY DEF TimerShift
  <2>5. object' \in [Nodes -> {"none", "live", "deleted"}]
    BY <1>1 DEF TypeOK
  <2>6. QED
    BY <1>1, <2>1, <2>2, <2>3, <2>4, <2>5 DEF TypeOK
<1>7. BoundInv'
  BY <1>1, <1>2, <1>3 DEF TypeOK, BoundInv
<1>8. NewInv'
  <2>1. SUFFICES ASSUME NEW n \in Nodes, object'[n] = "none"
                 PROVE  n \notin offline /\ ref'[n] = 0 /\ \A s \in Slots : tw'[s][n] = 0
    BY <1>1 DEF NewInv
  <2>2. object[n] = "none"
    BY <1>1, <2>1
  <2>3. QED
    BY <1>1, <1>2, <1>3, <2>2 DEF NewInv
<1>9. LiveInv'
  <2>1. SUFFICES ASSUME NEW n \in Nodes, object'[n] = "live", n \notin offline PROVE ref'[n] > 0
    BY <1>1 DEF LiveInv
  <2>2. object[n] = "live" /\ ShiftOf(n) /\ ~ Killed(n)
    BY <1>4, <1>5, <2>1
  <2>3. QED
    BY <1>3, <2>2 DEF ShiftOf
<1>10. RefCounts'
  <2>1. SUFFICES ASSUME NEW n \in Nodes, object'[n] = "live", n \notin offline
                 PROVE  ref'[n] = SlotSum(EntriesOf(n)')
    BY <1>1 DEF RefCounts
  <2>2. ShiftOf(n)
    BY <1>4, <1>5, <2>1
  <2>3. QED
    BY <2>2 DEF ShiftOf
<1>11. NoDanglingEntry'
  <2>1. SUFFICES ASSUME NEW n \in Nodes, object'[n] = "deleted", n \notin offline
                 PROVE  \A s \in Slots : tw'[s][n] = 0
    BY <1>1 DEF NoDanglingEntry
  <2>2. CASE Killed(n)
    <3>1. ShiftOf(n)
      BY <1>4, <2>1, <2>2 DEF Killed
    <3>2. QED
      BY <2>2, <3>1 DEF ShiftOf
  <2>3. CASE ~ Killed(n)
    <3>1. object[n] = "deleted"
      BY <1>1, <2>1, <2>3
    <3>2. QED
      BY <1>1, <1>2, <2>1, <3>1 DEF NoDanglingEntry
  <2>4. QED
    BY <2>2, <2>3
<1>12. QED
  BY <1>6, <1>7, <1>8, <1>9, <1>10, <1>11 DEF IInv, WheelInv

\* A step that changes nothing.
LEMMA StutterInv == ASSUME IInv, UNCHANGED vars PROVE IInv'
<1>1. TypeOK' /\ BoundInv' /\ NewInv' /\ LiveInv' /\ NoDanglingEntry'
  BY DEF IInv, WheelInv, TypeOK, BoundInv, NewInv, LiveInv, NoDanglingEntry, vars
<1>2. \A n \in Nodes : EntriesOf(n)' = EntriesOf(n)
  BY DEF EntriesOf, vars
<1>3. RefCounts'
  BY <1>2 DEF IInv, WheelInv, RefCounts, vars
<1>4. QED
  BY <1>1, <1>3 DEF IInv, WheelInv

\* Every step keeps the invariant.
LEMMA StepInv == IInv /\ [Next]_vars => IInv'
<1> SUFFICES ASSUME IInv, [Next]_vars PROVE IInv'
  OBVIOUS
<1>1. CASE TimerShift
  BY <1>1, ShiftInv
<1>2. ASSUME NEW n \in Nodes, AddTimeout(n) PROVE IInv'
  BY <1>2, AddInv DEF AddTimeout
<1>3. ASSUME NEW n \in Nodes, NEW d \in Delays, AddTimeoutDelay(n, d) PROVE IInv'
  <2>1. d \in Nat /\ Add(n, d)
    BY <1>3 DEF AddTimeoutDelay
  <2>2. QED
    BY <2>1, AddInv
<1>4. ASSUME NEW n \in Nodes, Offline(n) PROVE IInv'
  BY <1>4, OfflineInv
<1>5. CASE UNCHANGED vars
  BY <1>5, StutterInv
<1>6. QED
  BY <1>1, <1>2, <1>3, <1>4, <1>5 DEF Next

\* Wheel and nodes of test.cc keep the invariant.
THEOREM TimeWheelInvariant == Spec => []IInv
<1>1. Init => IInv
  BY InitInv
<1>2. IInv /\ [Next]_vars => IInv'
  BY StepInv
<1>3. QED
  BY <1>1, <1>2, PTL DEF Spec

\* The reference count of a node is the number of its entries, and no entry
\* outlives its node (TryKill and delete of TimerShift, test.cc:89-98), unless
\* Offline was called for it: for any wheel, any delays and any number of nodes.
THEOREM WheelSafe == Spec => []WheelInv
<1>1. IInv => WheelInv
  BY DEF IInv
<1>2. QED
  BY <1>1, TimeWheelInvariant, PTL

----------------------------------------------------------------------------
(* The wheel implements IdleTimer. *)

\* Every timeout is less than a turn of the wheel ahead. main adds 5 to an
\* EXPIRE of 10 on a wheel of 16; a longer timeout would fall short by a turn.
DelaysFit == \A d \in Delays : EXPIRE + d < TW_SIZE

\* How far slot s is ahead of slot r.
Distance(r, s) == (s - r) % TW_SIZE

\* It is counted around the wheel.
LEMMA DistanceIs ==
  ASSUME NEW r \in Slots, NEW s \in Slots
  PROVE  Distance(r, s) \in Slots /\ Distance(r, s) = IF s >= r THEN s - r ELSE s - r + TW_SIZE
<1>1. s - r \in Int /\ (IF s >= r THEN s - r \in Slots ELSE (s - r) + TW_SIZE \in Slots)
  BY DEF Slots
<1>2. QED
  BY <1>1, Remainders DEF Distance

\* The slot after r.
LEMMA SlotNext ==
  ASSUME NEW r \in Slots
  PROVE  (r + 1) % TW_SIZE \in Slots /\ (r + 1) % TW_SIZE = IF r = TW_SIZE - 1 THEN 0 ELSE r + 1
<1>1. r + 1 \in Int /\ (IF r = TW_SIZE - 1 THEN (r + 1) - TW_SIZE \in Slots ELSE r + 1 \in Slots)
  BY DEF Slots
<1>2. r = TW_SIZE - 1 => (r + 1) - TW_SIZE = 0
  BY DEF Slots
<1>3. QED
  BY <1>1, <1>2, Remainders

\* A tick brings every other slot nearer.
LEMMA DistanceNext ==
  ASSUME NEW r \in Slots, NEW s \in Slots
  PROVE  /\ s = r => Distance(r, s) = 0
         /\ s # r => Distance(r, s) > 0 /\ Distance((r + 1) % TW_SIZE, s) = Distance(r, s) - 1
<1> DEFINE q == (r + 1) % TW_SIZE
<1>1. q \in Slots /\ q = IF r = TW_SIZE - 1 THEN 0 ELSE r + 1
  BY SlotNext
<1>2. Distance(r, s) = IF s >= r THEN s - r ELSE s - r + TW_SIZE
  BY DistanceIs
<1> HIDE DEF q
<1>3. Distance(q, s) = IF s >= q THEN s - q ELSE s - q + TW_SIZE
  BY <1>1, DistanceIs
<1>4. s = r => Distance(r, s) = 0
  BY <1>2 DEF Slots
<1>5. s # r => Distance(r, s) > 0 /\ Distance(q, s) = Distance(r, s) - 1
  BY <1>1, <1>2, <1>3 DEF Slots
<1>6. QED
  BY <1>4, <1>5 DEF q

\* The slot a timeout of t ticks goes to is t ticks ahead.
LEMMA DistanceAhead ==
  ASSUME NEW r \in Slots, NEW t \in Slots
  PROVE  (r + t) % TW_SIZE \in Slots /\ Distance(r, (r + t) % TW_SIZE) = t
<1> DEFINE q == (r + t) % TW_SIZE
<1>1. r + t \in Int /\ (IF r + t < TW_SIZE THEN r + t \in Slots ELSE (r + t) - TW_SIZE \in Slots)
  BY DEF Slots
<1>2. q \in Slots /\ q = IF r + t < TW_SIZE THEN r + t ELSE (r + t) - TW_SIZE
  BY <1>1, Remainders
<1> HIDE DEF q
<1>3. Distance(r, q) = IF q >= r THEN q - r ELSE q - r + TW_SIZE
  BY <1>2, DistanceIs
<1>4. Distance(r, q) = t
  BY <1>2, <1>3 DEF Slots
<1>5. QED
  BY <1>2, <1>4 DEF q

\* m is how far the furthest entry of n is ahead.
IsLeft(n, m) ==
  /\ m \in Nat
  /\ \A s \in Slots : tw[s][n] > 0 => Distance(iRealTick, s) <= m
  /\ m = 0 \/ \E s \in Slots : tw[s][n] > 0 /\ Distance(iRealTick, s) = m

\* What the refinement needs to know of TicksLeft.
LeftInv == \A n \in Nodes : IsLeft(n, TicksLeft(n)) /\ \A m \in Nat : IsLeft(n, m) => TicksLeft(n) = m

\* TicksLeft is the greatest of the distances.
LEMMA TicksLeftIs == TypeOK => LeftInv
<1> SUFFICES ASSUME TypeOK, NEW n \in Nodes
             PROVE  IsLeft(n, TicksLeft(n)) /\ \A m \in Nat : IsLeft(n, m) => TicksLeft(n) = m
  BY DEF LeftInv
<1> DEFINE Held == {t \in Slots : tw[t][n] > 0}
           Dists == {0} \cup {Distance(iRealTick, s) : s \in Held}
<1>1. TicksLeft(n) = Max(Dists)
  BY DEF TicksLeft, Distance
<1>2. \A s \in Slots : Distance(iRealTick, s) \in Slots
  BY DistanceIs DEF TypeOK
<1>3. Dists \in SUBSET Nat /\ Dists \in SUBSET Int /\ 0 \in Dists /\ \A y \in Dists : y <= TW_SIZE
  BY <1>2 DEF Slots
<1>4. \A m : IsLeft(n, m) <=> m \in Nat /\ m \in Dists /\ \A y \in Dists : m >= y
  BY <1>2 DEF IsLeft, Slots
<1> HIDE DEF Dists
<1>5. PICK m \in Dists : \A y \in Dists : y <= m
  BY <1>3, GreatestOf
<1>6. \A k \in Dists : (\A y \in Dists : k >= y) => Max(Dists) = k
  BY <1>3, MaxIs
<1>7. m \in Nat /\ \A y \in Dists : m >= y
  BY <1>3, <1>5
<1>8. TicksLeft(n) = m /\ IsLeft(n, m)
  BY <1>1, <1>4, <1>5, <1>6, <1>7
<1>9. ASSUME NEW k \in Nat, IsLeft(n, k) PROVE TicksLeft(n) = k
  BY <1>1, <1>4, <1>6, <1>9
<1>10. QED
  BY <1>8, <1>9

\* A node whose entries stay where they are.
LEMMA LeftUnchanged ==
  ASSUME LeftInv, LeftInv', NEW n \in Nodes, iRealTick' = iRealTick, \A s \in Slots : tw'[s][n] = tw[s][n]
  PROVE  TicksLeft(n)' = TicksLeft(n)
<1>1. PICK m \in Nat : m = TicksLeft(n) /\ IsLeft(n, m)
  BY DEF LeftInv, IsLeft
<1>2. IsLeft(n, m)'
  BY <1>1 DEF IsLeft
<1>3. QED
  BY <1>1, <1>2 DEF LeftInv

\* A timeout counts when it is the latest.
LEMMA LeftAfterAdd ==
  ASSUME IInv, LeftInv, LeftInv', NEW n \in Nodes, NEW delay \in Nat, EXPIRE + delay < TW_SIZE, Add(n, delay)
  PROVE  /\ TicksLeft(n)' = IF EXPIRE + delay > TicksLeft(n) THEN EXPIRE + delay ELSE TicksLeft(n)
         /\ \A m \in Nodes \ {n} : TicksLeft(m)' = TicksLeft(m)
<1> DEFINE t == SlotAfter(delay)
           ahead == EXPIRE + delay
<1>1. TypeOK /\ iRealTick \in Slots /\ iRealTick' = iRealTick /\ ahead \in Slots /\ ahead \in Nat
  BY DEF IInv, WheelInv, TypeOK, Add, Slots
<1>2. t \in Slots /\ Distance(iRealTick, t) = ahead
  <2>1. t = (iRealTick + ahead) % TW_SIZE
    <3>1. iRealTick + EXPIRE + delay = iRealTick + ahead
      BY <1>1 DEF Slots
    <3>2. QED
      BY <3>1 DEF SlotAfter
  <2> HIDE DEF t, ahead
  <2>2. QED
    BY <1>1, <2>1, DistanceAhead
<1>3. tw' = [tw EXCEPT ![t][n] = @ + 1]
  BY DEF Add
<1> HIDE DEF t, ahead
<1>4. \A s \in Slots, m \in Nodes : tw'[s][m] = IF s = t /\ m = n THEN tw[s][m] + 1 ELSE tw[s][m]
  BY <1>1, <1>2, <1>3 DEF TypeOK
<1>5. PICK k \in Nat : k = TicksLeft(n) /\ IsLeft(n, k)
  BY DEF LeftInv, IsLeft
<1>6. PICK l \in Nat : l = IF ahead > k THEN ahead ELSE k
  BY <1>1
<1>7. IsLeft(n, l)'
  <2>1. \A s \in Slots : tw'[s][n] > 0 => Distance(iRealTick, s) <= l
    <3>1. SUFFICES ASSUME NEW s \in Slots, tw'[s][n] > 0 PROVE Distance(iRealTick, s) <= l
      OBVIOUS
    <3>2. CASE s = t
      BY <1>1, <1>2, <1>6, <3>2
    <3>3. CASE s # t
      <4>1. Distance(iRealTick, s) <= k /\ Distance(iRealTick, s) \in Nat
        <5>1. Distance(iRealTick, s) \in Nat
          BY <1>1, DistanceIs DEF Slots
        <5>2. tw[s][n] > 0
          BY <1>4, <3>1, <3>3
        <5>3. QED
          BY <1>5, <5>1, <5>2 DEF IsLeft
      <4>2. QED
        BY <1>1, <1>6, <4>1
    <3>4. QED
      BY <3>2, <3>3
  <2>2. tw[t][n] \in Nat /\ tw'[t][n] > 0
    BY <1>1, <1>2, <1>4 DEF TypeOK
  <2>3. \A s \in Slots : tw[s][n] > 0 => tw'[s][n] > 0
    BY <1>4, <2>2
  <2>4. l = 0 \/ \E s \in Slots : tw'[s][n] > 0 /\ Distance(iRealTick, s) = l
    <3>1. CASE l = ahead
      BY <1>2, <2>2, <3>1
    <3>2. CASE l = k
      BY <1>5, <2>3, <3>2 DEF IsLeft
    <3>3. QED
      BY <1>6, <3>1, <3>2
  <2>5. QED
    BY <1>1, <2>1, <2>4 DEF IsLeft
<1>8. TicksLeft(n)' = l
  BY <1>7 DEF LeftInv
<1>9. \A m \in Nodes \ {n} : TicksLeft(m)' = TicksLeft(m)
  BY <1>1, <1>4, LeftUnchanged
<1>10. QED
  BY <1>5, <1>6, <1>8, <1>9 DEF ahead

\* The tick that kills a node is the one that reaches its furthest entry.
LEMMA LeftAfterShift ==
  ASSUME IInv, LeftInv, LeftInv', TimerShift, NEW n \in Nodes, object[n] = "live", n \notin offline
  PROVE  /\ Killed(n) <=> TicksLeft(n) = 0
         /\ TicksLeft(n) # 0 => TicksLeft(n)' = TicksLeft(n) - 1
<1>1. TypeOK /\ iRealTick \in Slots /\ iRealTick' = (iRealTick + 1) % TW_SIZE
  BY DEF IInv, WheelInv, TypeOK, TimerShift
<1>2. \A s \in Slots : tw'[s][n] = (IF s = iRealTick THEN 0 ELSE tw[s][n]) /\ tw[s][n] \in Nat
  BY <1>1, ShiftEntries DEF TypeOK
<1>3. ShiftOf(n)
  BY ShiftOfLive
<1>4. PICK k \in Nat : k = TicksLeft(n) /\ IsLeft(n, k)
  BY DEF LeftInv, IsLeft
<1>5. \A s \in Slots : /\ Distance(iRealTick, s) \in Nat
                       /\ s = iRealTick => Distance(iRealTick, s) = 0
                       /\ s # iRealTick => /\ Distance(iRealTick, s) > 0
                                           /\ Distance(iRealTick', s) = Distance(iRealTick, s) - 1
  BY <1>1, DistanceIs, DistanceNext DEF Slots
<1>6. ASSUME k = 0 PROVE Killed(n)
  <2>1. \A s \in Slots : s # iRealTick => tw[s][n] = 0
    BY <1>2, <1>4, <1>5, <1>6 DEF IsLeft
  <2>2. \A s \in Slots : EntriesOf(n)'[s] = 0
    BY <1>2, <2>1 DEF EntriesOf
  <2>3. EntriesOf(n)' \in [Slots -> Nat]
    BY <1>2, <2>1 DEF EntriesOf
  <2>4. SlotSum(EntriesOf(n)') = 0
    <3>1. PICK h \in [Slots -> Nat] : h = EntriesOf(n)'
      BY <2>3
    <3>2. SlotSum(h) = 0
      BY <2>2, <3>1, SlotSumOfNone
    <3>3. QED
      BY <3>1, <3>2
  <2>5. QED
    BY <1>3, <2>4 DEF ShiftOf
<1>7. ASSUME k # 0 PROVE ~ Killed(n) /\ IsLeft(n, k - 1)'
  <2>1. PICK s \in Slots : tw[s][n] > 0 /\ Distance(iRealTick, s) = k
    BY <1>4, <1>7 DEF IsLeft
  <2>2. s # iRealTick /\ tw'[s][n] > 0 /\ Distance(iRealTick', s) = k - 1
    BY <1>2, <1>5, <1>7, <2>1
  <2>3. ~ Killed(n)
    BY <1>3, <2>2 DEF ShiftOf
  <2>4. ASSUME NEW r \in Slots, tw'[r][n] > 0 PROVE Distance(iRealTick', r) <= k - 1
    BY <1>2, <1>4, <1>5, <2>4 DEF IsLeft
  <2>5. k - 1 \in Nat
    BY <1>7
  <2>6. QED
    BY <2>2, <2>3, <2>4, <2>5 DEF IsLeft
<1>8. k # 0 => TicksLeft(n)' = k - 1
  <2>1. SUFFICES ASSUME k # 0 PROVE TicksLeft(n)' = k - 1
    OBVIOUS
  <2>2. k - 1 \in Nat
    BY <2>1
  <2>3. QED
    BY <1>7, <2>1, <2>2 DEF LeftInv
<1>9. QED
  BY <1>4, <1>6, <1>7, <1>8

\* The abstract state: what IdleTimer sees of nodes and wheel.
AbstractLeft(n) == IF Status(n) = "live" THEN TicksLeft(n) ELSE 0
Same(n) == Status(n)' = Status(n) /\ AbstractLeft(n)' = AbstractLeft(n)

\* A state of the wheel in which all is the same to IdleTimer.
LEMMA AllSame ==
  ASSUME \A n \in Nodes : Same(n)
  PROVE  UNCHANGED Idle!idleVars
<1>1. /\ [n \in Nodes |-> Status(n)]' = [n \in Nodes |-> Status(n)]
      /\ [n \in Nodes |-> AbstractLeft(n)]' = [n \in Nodes |-> AbstractLeft(n)]
  BY DEF Same
<1>2. QED
  BY <1>1 DEF Idle!idleVars, AbstractLeft

\* A timeout of a node that is not offline is a Touch, or nothing when it was
\* offline already.
LEMMA AddRefines ==
  ASSUME IInv, LeftInv, LeftInv', NEW n \in Nodes, NEW delay \in Delays \cup {0}, EXPIRE + delay < TW_SIZE, Add(n, delay)
  PROVE  [Idle!Next]_Idle!idleVars
<1>1. /\ TypeOK /\ NewInv /\ object[n] # "deleted" /\ offline' = offline
      /\ object' = [object EXCEPT ![n] = "live"] /\ delay \in Nat
  BY DEF IInv, WheelInv, Add
<1>2. /\ TicksLeft(n)' = IF EXPIRE + delay > TicksLeft(n) THEN EXPIRE + delay ELSE TicksLeft(n)
      /\ \A m \in Nodes \ {n} : TicksLeft(m)' = TicksLeft(m)
  BY <1>1, LeftAfterAdd
<1>3. \A m \in Nodes \ {n} : Same(m)
  BY <1>1, <1>2 DEF TypeOK, Same, Status, AbstractLeft
<1>4. CASE n \in offline
  <2>1. Same(n)
    BY <1>1, <1>4 DEF Same, Status, AbstractLeft
  <2>2. QED
    BY <1>3, <2>1, AllSame
<1>5. CASE n \notin offline
  <2>1. Status(n) \in {"none", "live"} /\ Status(n)' = "live"
    BY <1>1, <1>5 DEF TypeOK, Status
  <2>2. AbstractLeft(n) = TicksLeft(n)
    <3>1. CASE object[n] = "live"
      BY <1>5, <3>1 DEF Status, AbstractLeft
    <3>2. CASE object[n] # "live"
      <4>1. object[n] = "none"
        BY <1>1, <3>2 DEF TypeOK
      <4>2. \A s \in Slots : tw[s][n] = 0
        BY <1>1, <4>1 DEF NewInv
      <4>3. IsLeft(n, 0)
        BY <4>2 DEF IsLeft
      <4>4. TicksLeft(n) = 0
        BY <4>3 DEF LeftInv
      <4>5. QED
        BY <1>5, <4>1, <4>4 DEF Status, AbstractLeft
    <3>3. QED
      BY <3>1, <3>2
  <2>3. AbstractLeft(n)' = IF EXPIRE + delay > AbstractLeft(n) THEN EXPIRE + delay ELSE AbstractLeft(n)
    BY <1>2, <2>1, <2>2 DEF AbstractLeft
  <2> DEFINE status == [m \in Nodes |-> Status(m)]
             left == [m \in Nodes |-> AbstractLeft(m)]
             t == EXPIRE + delay
  <2>4. status' = [status EXCEPT ![n] = "live"]
    BY <1>3, <2>1 DEF Same
  <2>5. left' = [left EXCEPT ![n] = IF t > @ THEN t ELSE @]
    BY <1>3, <2>3 DEF Same
  <2>6. t \in {EXPIRE + d : d \in Delays \cup {0}}
    OBVIOUS
  <2>7. status[n] \in {"none", "live"}
    BY <2>1
  <2>8. Idle!Touch(n)
    BY <2>4, <2>5, <2>6, <2>7 DEF Idle!Touch, AbstractLeft
  <2>9. QED
    BY <2>8 DEF Idle!Next
<1>6. QED
  BY <1>4, <1>5

\* Offline takes a node out of the promise.
LEMMA OfflineRefines ==
  ASSUME IInv, LeftInv, LeftInv', NEW n \in Nodes, Offline(n)
  PROVE  [Idle!Next]_Idle!idleVars
<1>1. /\ object[n] = "live" /\ offline' = offline \cup {n} /\ object' = object
      /\ tw' = tw /\ iRealTick' = iRealTick
  BY DEF Offline
<1>2. \A m \in Nodes : TicksLeft(m)' = TicksLeft(m)
  BY <1>1, LeftUnchanged
<1>3. \A m \in Nodes \ {n} : Same(m)
  BY <1>1, <1>2 DEF Same, Status, AbstractLeft
<1>4. CASE n \in offline
  <2>1. Same(n)
    BY <1>1, <1>4 DEF Same, Status, AbstractLeft
  <2>2. QED
    BY <1>3, <2>1, AllSame
<1>5. CASE n \notin offline
  <2>1. Status(n) = "live" /\ Status(n)' = "offline" /\ AbstractLeft(n)' = 0
    BY <1>1, <1>5 DEF Status, AbstractLeft
  <2> DEFINE status == [m \in Nodes |-> Status(m)]
             left == [m \in Nodes |-> AbstractLeft(m)]
  <2>2. status' = [status EXCEPT ![n] = "offline"]
    BY <1>3, <2>1 DEF Same
  <2>3. left' = [left EXCEPT ![n] = 0]
    BY <1>3, <2>1 DEF Same
  <2>4. status[n] = "live"
    BY <2>1
  <2>5. Idle!Offline(n)
    BY <2>2, <2>3, <2>4 DEF Idle!Offline, AbstractLeft
  <2>6. QED
    BY <2>5 DEF Idle!Next
<1>6. QED
  BY <1>4, <1>5

\* A tick of the wheel is a Tick of every node.
LEMMA ShiftRefines ==
  ASSUME IInv, LeftInv, LeftInv', TimerShift
  PROVE  [Idle!Next]_Idle!idleVars
<1>1. TypeOK /\ object' = [n \in Nodes |-> IF Killed(n) THEN "deleted" ELSE object[n]] /\ offline' = offline
  BY DEF IInv, WheelInv, TimerShift
<1>2. ASSUME NEW n \in Nodes
      PROVE  /\ Status(n)' = IF Status(n) = "live" /\ AbstractLeft(n) = 0 THEN "killed" ELSE Status(n)
             /\ AbstractLeft(n)' = IF AbstractLeft(n) = 0 THEN 0 ELSE AbstractLeft(n) - 1
  <2>1. CASE n \in offline
    BY <1>1, <2>1 DEF Status, AbstractLeft
  <2>2. CASE n \notin offline /\ object[n] = "live"
    <3>1. Status(n) = "live" /\ AbstractLeft(n) = TicksLeft(n)
      BY <2>2 DEF Status, AbstractLeft
    <3>2. /\ Killed(n) <=> TicksLeft(n) = 0
          /\ TicksLeft(n) # 0 => TicksLeft(n)' = TicksLeft(n) - 1
      BY <2>2, LeftAfterShift
    <3>3. Status(n)' = IF Killed(n) THEN "killed" ELSE "live"
      BY <1>1, <2>2 DEF Status
    <3>4. QED
      BY <3>1, <3>2, <3>3 DEF AbstractLeft
  <2>3. CASE n \notin offline /\ object[n] # "live"
    <3>1. object'[n] = object[n] /\ Status(n)' = Status(n) /\ Status(n) # "live"
      BY <1>1, <2>3 DEF Killed, Status, TypeOK
    <3>2. QED
      BY <3>1 DEF AbstractLeft
  <2>4. QED
    BY <2>1, <2>2, <2>3
<1> DEFINE status == [m \in Nodes |-> Status(m)]
           left == [m \in Nodes |-> AbstractLeft(m)]
<1>3. status' = [n \in Nodes |-> IF status[n] = "live" /\ left[n] = 0 THEN "killed" ELSE status[n]]
  BY <1>2
<1>4. left' = [n \in Nodes |-> IF left[n] = 0 THEN 0 ELSE left[n] - 1]
  BY <1>2
<1>5. Idle!Tick
  BY <1>3, <1>4 DEF Idle!Tick, AbstractLeft
<1>6. QED
  BY <1>5 DEF Idle!Next

\* Every step of the wheel is a step of the idle timer, or none.
LEMMA StepRefines ==
  ASSUME DelaysFit
  PROVE  IInv /\ LeftInv /\ LeftInv' /\ [Next]_vars => [Idle!Next]_Idle!idleVars
<1> SUFFICES ASSUME IInv, LeftInv, LeftInv', [Next]_vars PROVE [Idle!Next]_Idle!idleVars
  OBVIOUS
<1>1. CASE TimerShift
  BY <1>1, ShiftRefines
<1>2. ASSUME NEW n \in Nodes, AddTimeout(n) PROVE [Idle!Next]_Idle!idleVars
  <2>1. EXPIRE + 0 < TW_SIZE /\ 0 \in Delays \cup {0} /\ Add(n, 0)
    BY <1>2 DEF AddTimeout
  <2>2. QED
    BY <2>1, AddRefines
<1>3. ASSUME NEW n \in Nodes, NEW d \in Delays, AddTimeoutDelay(n, d) PROVE [Idle!Next]_Idle!idleVars
  <2>1. EXPIRE + d < TW_SIZE /\ d \in Delays \cup {0} /\ Add(n, d)
    BY <1>3 DEF AddTimeoutDelay, DelaysFit
  <2>2. QED
    BY <2>1, AddRefines
<1>4. ASSUME NEW n \in Nodes, Offline(n) PROVE [Idle!Next]_Idle!idleVars
  BY <1>4, OfflineRefines
<1>5. CASE UNCHANGED vars
  <2>1. \A n \in Nodes : TicksLeft(n)' = TicksLeft(n)
    BY <1>5, LeftUnchanged DEF vars
  <2>2. \A n \in Nodes : Same(n)
    BY <1>5, <2>1 DEF Same, Status, AbstractLeft, vars
  <2>3. QED
    BY <2>2, AllSame
<1>6. QED
  BY <1>1, <1>2, <1>3, <1>4, <1>5 DEF Next

\* No node lives at the start.
LEMMA InitRefines == Init => Idle!Init
<1> SUFFICES ASSUME Init PROVE Idle!Init
  OBVIOUS
<1>1. \A n \in Nodes : Status(n) = "none"
  BY DEF Init, Status
<1>2. QED
  BY <1>1 DEF Idle!Init

\* Counting one reference per list entry (AddTimeout, AddTimeoutDelay and
\* TimerShift of test.cc) makes a node die with the tick that reaches its
\* latest timeout, on any wheel whose turn is longer than every timeout.
THEOREM WheelImplementsIdleTimer ==
  ASSUME DelaysFit
  PROVE  Spec => ImplementsIdleTimer
<1>1. Init => Idle!Init
  BY InitRefines
<1>2. IInv /\ LeftInv /\ LeftInv' /\ [Next]_vars => [Idle!Next]_Idle!idleVars
  BY StepRefines
<1>3. IInv => LeftInv
  BY TicksLeftIs DEF IInv, WheelInv
<1>4. QED
  BY <1>1, <1>2, <1>3, TimeWheelInvariant, PTL DEF Spec, ImplementsIdleTimer, Idle!Spec
=============================================================================
