--------------------------- MODULE CasQueueProofs ---------------------------
(***************************************************************************)
(* Why cas.h is safe with one thread on each side, for any number of       *)
(* pushes and any heap. The list is described by a window lo..hi of a      *)
(* function s on the natural numbers: push writes s[hi + 1], pop leaves    *)
(* s[lo] behind.                                                           *)
(***************************************************************************)
EXTENDS CasQueue, NaturalRecursion

\* The nodes on the list, first to last.
Nodes(s, lo, hi) == {s[k] : k \in lo..hi}

\* From s[lo] the pointers _next lead to s[hi], through nodes that differ, and
\* end there.
Chain(s, lo, hi) ==
  /\ lo \in Nat /\ hi \in Nat /\ lo <= hi
  /\ \A k \in lo..hi : s[k] \in Addr
  /\ \A j, k \in lo..hi : s[j] = s[k] => j = k
  /\ \A k \in lo..(hi - 1) : next[s[k]] = s[k + 1]
  /\ next[s[hi]] = Null
  /\ head = s[lo]

\* t goes on where s ends, with the new node.
Longer(s, lo, hi, t) == t[hi + 1] = newNode /\ \A k \in lo..hi : t[k] = s[k]

\* Where the pushing thread is: oldp is _tail all the time, which is the last
\* node but between the two swaps.
PushInv(s, lo, hi) ==
  /\ pushpc # "new" => i < NumPush /\ oldp = tail
  /\ pushpc # "swing" => tail = s[hi]
  /\ pushpc = "swing" => newNode = s[hi]
  /\ pushpc = "link" => at = tail
  /\ pushpc \in {"tail", "link"} => newNode \in Addr \ Nodes(s, lo, hi) /\ next[newNode] = Null

\* Where the popping thread is: no one else moves _head, and what it deletes is
\* off the list.
PopInv(s, lo, hi) ==
  /\ poppc # "head" => pop_count < NumPush
  /\ poppc \in {"empty", "swap"} => p = head
  /\ poppc = "swap" => lo < hi /\ nxt = s[lo + 1]
  /\ poppc = "delete" => /\ p \in Addr \ Nodes(s, lo, hi)
                         /\ pushpc \in {"tail", "link"} => p # newNode

\* What is allocated.
Unlinked == IF pushpc \in {"tail", "link"} THEN {newNode} ELSE {}
Unfreed == IF poppc = "delete" THEN {p} ELSE {}
LiveInv(s, lo, hi) == live = Nodes(s, lo, hi) \cup Unlinked \cup Unfreed

Shape(s, lo, hi) == Chain(s, lo, hi) /\ PushInv(s, lo, hi) /\ PopInv(s, lo, hi) /\ LiveInv(s, lo, hi)
Shaped == \E s \in [Nat -> Addr], lo, hi \in Nat : Shape(s, lo, hi)

\* The inductive invariant. The destructor runs alone, until the list is empty.
IInv ==
  /\ TypeOK
  /\ mainpc = "join" => Shaped
  /\ mainpc # "join" => PushEnds /\ PopEnds
  /\ mainpc = "destroy" => IF head = Null THEN live = {} ELSE Shaped
  /\ mainpc = "done" => head = Null /\ live = {}

USE DEF Swapped

----------------------------------------------------------------------------
\* The first node left behind (the swap of pop, a turn of the destructor).
LEMMA Shortened ==
  ASSUME NEW s \in [Nat -> Addr], NEW lo \in Nat, NEW hi \in Nat, lo < hi,
         \A j, k \in lo..hi : s[j] = s[k] => j = k
  PROVE  Nodes(s, lo + 1, hi) = Nodes(s, lo, hi) \ {s[lo]}
<1>1. lo..hi = ((lo + 1)..hi) \cup {lo} /\ lo \notin (lo + 1)..hi
  OBVIOUS
<1>2. \A k \in (lo + 1)..hi : s[k] # s[lo]
  BY <1>1
<1>3. Nodes(s, lo, hi) = Nodes(s, lo + 1, hi) \cup {s[lo]}
  BY <1>1 DEF Nodes
<1>4. QED
  BY <1>2, <1>3 DEF Nodes

----------------------------------------------------------------------------
(* The invariant is inductive. *)

USE NullAssumption, HeapAssumption

\* The list is the dummy node, and no thread has done anything.
LEMMA InitInv == Init => IInv
<1> SUFFICES ASSUME Init PROVE IInv
  OBVIOUS
<1>1. TypeOK
  BY DEF Init, TypeOK
<1>2. PICK dummy \in Addr : head = dummy /\ tail = dummy /\ live = {dummy}
  BY DEF Init
<1>3. Shape([k \in Nat |-> dummy], 0, 0)
  BY <1>2 DEF Init, Shape, Chain, PushInv, PopInv, LiveInv, Nodes, Unlinked, Unfreed
<1>4. Shaped
  <2>1. [k \in Nat |-> dummy] \in [Nat -> Addr]
    OBVIOUS
  <2>2. QED
    BY <1>3, <2>1 DEF Shaped
<1>5. QED
  BY <1>1, <1>4 DEF IInv, Init

\* Both threads are at work only before join.
LEMMA ThreadsJoined ==
  ASSUME IInv, PushThread \/ PopThread
  PROVE  mainpc = "join" /\ mainpc' = "join" /\ TypeOK /\ Shaped
BY DEF IInv, TypeOK, PushEnds, PopEnds, PushThread, PopThread, New, ReadTail, Link, Swing,
       ReadHead, ReturnFalse, ReadNext, MoveHead, Delete, pushVars, popVars, queueVars

\* A new node is not on the list and is in the hands of push alone.
LEMMA NewInv == ASSUME IInv, New PROVE IInv'
<1>1. mainpc = "join" /\ mainpc' = "join" /\ TypeOK /\ Shaped
  BY ThreadsJoined DEF PushThread
<1>2. PICK a \in Addr \ live :
         /\ newNode' = a /\ live' = live \cup {a}
         /\ elem' = [elem EXCEPT ![a] = i] /\ next' = [next EXCEPT ![a] = Null]
  BY DEF New
<1>3. PICK s \in [Nat -> Addr], lo \in Nat, hi \in Nat : Shape(s, lo, hi)
  BY <1>1 DEF Shaped
<1>4. TypeOK'
  BY <1>1, <1>2 DEF New, TypeOK, popVars
<1>5. a \notin Nodes(s, lo, hi) /\ \A k \in lo..hi : s[k] # a
  BY <1>3 DEF Shape, LiveInv, Nodes
<1>6. Chain(s, lo, hi)'
  BY <1>1, <1>2, <1>3, <1>5 DEF New, Shape, Chain, TypeOK
<1>7. PushInv(s, lo, hi)'
  BY <1>1, <1>2, <1>3, <1>5 DEF New, Shape, PushInv, TypeOK, Nodes
<1>8. PopInv(s, lo, hi)'
  BY <1>1, <1>2, <1>3, <1>5 DEF New, Shape, PopInv, LiveInv, Unfreed, TypeOK, popVars, Nodes
<1>9. LiveInv(s, lo, hi)'
  BY <1>1, <1>2, <1>3 DEF New, Shape, LiveInv, Unlinked, Unfreed, popVars, Nodes
<1>10. QED
  BY <1>1, <1>4, <1>6, <1>7, <1>8, <1>9 DEF IInv, Shaped, Shape

\* push reads _tail, which only push moves.
LEMMA ReadTailInv == ASSUME IInv, ReadTail PROVE IInv'
<1>1. mainpc = "join" /\ mainpc' = "join" /\ TypeOK /\ Shaped
  BY ThreadsJoined DEF PushThread
<1>2. PICK s \in [Nat -> Addr], lo \in Nat, hi \in Nat : Shape(s, lo, hi)
  BY <1>1 DEF Shaped
<1>3. TypeOK'
  BY <1>1 DEF ReadTail, TypeOK, popVars, queueVars
<1>4. Shape(s, lo, hi)'
  BY <1>2 DEF ReadTail, Shape, Chain, PushInv, PopInv, LiveInv, Unlinked, Unfreed, Nodes, popVars, queueVars
<1>5. QED
  BY <1>1, <1>3, <1>4 DEF IInv, Shaped

\* The first swap succeeds, and the new node is the last one.
LEMMA LinkShape ==
  ASSUME TypeOK, Link, NEW s \in [Nat -> Addr], NEW lo \in Nat, NEW hi \in Nat, Shape(s, lo, hi)
  PROVE  \E t \in [Nat -> Addr] : Longer(s, lo, hi, t) /\ Shape(t, lo, hi + 1)'
<1>1. /\ at = s[hi] /\ at \in Addr /\ next[at] = Null /\ tail = at /\ oldp = tail
      /\ newNode \in Addr \ Nodes(s, lo, hi) /\ next[newNode] = Null
      /\ lo <= hi /\ pushpc' = "swing" /\ next' = [next EXCEPT ![at] = newNode]
  BY DEF Link, Shape, Chain, PushInv
<1>2. PICK a \in Addr : a = newNode
  BY <1>1
<1> DEFINE t == [s EXCEPT ![hi + 1] = a]
<1>3. t \in [Nat -> Addr] /\ t[hi + 1] = newNode /\ \A k \in lo..hi : t[k] = s[k]
  BY <1>2
<1> HIDE DEF t
<1>4. Nodes(t, lo, hi + 1) = Nodes(s, lo, hi) \cup {newNode}
  <2>1. lo..(hi + 1) = (lo..hi) \cup {hi + 1}
    BY <1>1
  <2>2. Nodes(t, lo, hi + 1) = {t[k] : k \in lo..hi} \cup {t[hi + 1]}
    BY <2>1 DEF Nodes
  <2>3. {t[k] : k \in lo..hi} = {s[k] : k \in lo..hi}
    BY <1>3
  <2>4. QED
    BY <1>3, <2>2, <2>3 DEF Nodes
<1>6. Chain(t, lo, hi + 1)'
  <2>1. lo <= hi + 1 /\ lo..(hi + 1) = (lo..hi) \cup {hi + 1}
    BY <1>1
  <2>2. \A k \in lo..(hi + 1) : t[k] \in Addr
    BY <1>1, <1>3, <2>1
  <2>3. \A k \in lo..hi : t[k] # newNode
    BY <1>1, <1>3 DEF Nodes
  <2>4. \A j, k \in lo..(hi + 1) : t[j] = t[k] => j = k
    BY <1>3, <2>1, <2>3 DEF Shape, Chain
  <2>5. \A k \in lo..(hi - 1) : k \in lo..hi /\ k + 1 \in lo..hi /\ k # hi
    OBVIOUS
  <2>6. \A k \in lo..(hi - 1) : next'[t[k]] = t[k + 1]
    <3>1. SUFFICES ASSUME NEW k \in lo..(hi - 1) PROVE next'[t[k]] = t[k + 1]
      OBVIOUS
    <3>2. s[k] # at /\ s[k] \in Addr /\ hi \in lo..hi
      BY <1>1, <2>5 DEF Shape, Chain
    <3>3. next'[s[k]] = next[s[k]]
      BY <1>1, <3>2 DEF TypeOK
    <3>4. QED
      BY <1>3, <2>5, <3>3 DEF Shape, Chain
  <2>7. hi \in lo..hi /\ next'[t[hi]] = t[hi + 1]
    BY <1>1, <1>3 DEF TypeOK
  <2>8. next'[t[hi + 1]] = Null
    BY <1>1, <1>3, <2>3, <2>7 DEF TypeOK
  <2>9. \A k \in lo..((hi + 1) - 1) : k \in lo..(hi - 1) \/ k = hi
    OBVIOUS
  <2>10. head' = t[lo]
    BY <1>1, <1>3 DEF Link, Shape, Chain
  <2>11. \A k \in lo..((hi + 1) - 1) : next'[t[k]] = t[k + 1]
    BY <2>6, <2>7, <2>9
  <2>12. QED
    BY <2>1, <2>2, <2>4, <2>8, <2>10, <2>11 DEF Chain
<1>7. PushInv(t, lo, hi + 1)'
  BY <1>1, <1>3, <1>4 DEF Link, Shape, PushInv
<1>8. PopInv(t, lo, hi + 1)'
  BY <1>1, <1>3, <1>4 DEF Link, Shape, PopInv, popVars
<1>9. LiveInv(t, lo, hi + 1)'
  <2>1. live = Nodes(s, lo, hi) \cup {newNode} \cup Unfreed
    BY DEF Link, Shape, LiveInv, Unlinked
  <2>2. Unlinked' = {} /\ Unfreed' = Unfreed /\ live' = live
    BY <1>1 DEF Link, Unlinked, Unfreed, popVars
  <2>3. Nodes(t, lo, hi + 1)' = Nodes(t, lo, hi + 1)
    BY DEF Nodes
  <2>4. QED
    BY <1>4, <2>1, <2>2, <2>3 DEF LiveInv
<1>10. Shape(t, lo, hi + 1)'
  BY <1>6, <1>7, <1>8, <1>9 DEF Shape
<1>11. Longer(s, lo, hi, t)
  BY <1>3 DEF Longer
<1>12. QED
  BY <1>3, <1>10, <1>11

\* The first swap keeps the invariant.
LEMMA LinkInv == ASSUME IInv, Link PROVE IInv'
<1>1. mainpc = "join" /\ mainpc' = "join" /\ TypeOK /\ Shaped
  BY ThreadsJoined DEF PushThread
<1>2. PICK s \in [Nat -> Addr], lo \in Nat, hi \in Nat : Shape(s, lo, hi)
  BY <1>1 DEF Shaped
<1>3. \E t \in [Nat -> Addr] : Shape(t, lo, hi + 1)' /\ hi + 1 \in Nat
  BY <1>1, <1>2, LinkShape
<1>4. Shaped'
  BY <1>3 DEF Shaped
<1>5. newNode \in Addr /\ at \in Addr /\ next' = [next EXCEPT ![at] = Swapped(@, Null, newNode)]
  BY <1>1, <1>2 DEF Link, Shape, Chain, PushInv
<1>6. TypeOK'
  BY <1>1, <1>5 DEF Link, TypeOK, popVars
<1>7. QED
  BY <1>1, <1>4, <1>6 DEF IInv

\* The second swap succeeds, and _tail is the last node again.
LEMMA SwingInv == ASSUME IInv, Swing PROVE IInv'
<1>1. mainpc = "join" /\ mainpc' = "join" /\ TypeOK /\ Shaped
  BY ThreadsJoined DEF PushThread
<1>2. PICK s \in [Nat -> Addr], lo \in Nat, hi \in Nat : Shape(s, lo, hi)
  BY <1>1 DEF Shaped
<1>3. newNode = s[hi] /\ newNode \in Addr /\ tail' = newNode /\ i < NumPush
  BY <1>2 DEF Swing, Shape, Chain, PushInv
<1>4. TypeOK'
  BY <1>1, <1>3 DEF Swing, TypeOK, popVars
<1>5. Shape(s, lo, hi)'
  BY <1>2, <1>3 DEF Swing, Shape, Chain, PushInv, PopInv, LiveInv, Unlinked, Unfreed, Nodes, popVars
<1>6. QED
  BY <1>1, <1>4, <1>5 DEF IInv, Shaped

----------------------------------------------------------------------------
(* The popping thread. *)

\* pop reads _head, which only pop moves, and the node after it, if there is one.
LEMMA PopReadsInv == ASSUME IInv, ReadHead \/ ReturnFalse \/ ReadNext PROVE IInv'
<1>1. mainpc = "join" /\ mainpc' = "join" /\ TypeOK /\ Shaped
  BY ThreadsJoined DEF PopThread
<1>2. PICK s \in [Nat -> Addr], lo \in Nat, hi \in Nat : Shape(s, lo, hi)
  BY <1>1 DEF Shaped
<1>3. UNCHANGED <<queueVars, pushVars>>
  BY DEF ReadHead, ReturnFalse, ReadNext
<1>4. Chain(s, lo, hi)' /\ PushInv(s, lo, hi)'
  BY <1>2, <1>3 DEF Shape, Chain, PushInv, Nodes, queueVars, pushVars
<1>5. Unfreed = {} /\ Unfreed' = {} /\ Unlinked' = Unlinked
  BY <1>3 DEF ReadHead, ReturnFalse, ReadNext, Unfreed, Unlinked, pushVars
<1>6. LiveInv(s, lo, hi)'
  BY <1>2, <1>3, <1>5 DEF Shape, LiveInv, Nodes, queueVars
<1>7. CASE ReadHead
  <2>1. TypeOK'
    BY <1>1, <1>3, <1>7 DEF ReadHead, TypeOK, queueVars, pushVars
  <2>2. PopInv(s, lo, hi)'
    BY <1>1, <1>2, <1>3, <1>7 DEF ReadHead, PopInv, TypeOK, queueVars
  <2>3. QED
    BY <1>1, <1>4, <1>6, <2>1, <2>2 DEF IInv, Shaped, Shape
<1>8. CASE ReturnFalse
  <2>1. TypeOK'
    BY <1>1, <1>2, <1>3, <1>8 DEF ReturnFalse, TypeOK, Shape, PopInv, queueVars, pushVars
  <2>2. PopInv(s, lo, hi)'
    BY <1>8 DEF ReturnFalse, PopInv
  <2>3. QED
    BY <1>1, <1>4, <1>6, <2>1, <2>2 DEF IInv, Shaped, Shape
<1>9. CASE ReadNext
  <2>1. p = s[lo] /\ p \in Addr /\ lo < hi /\ next[p] = s[lo + 1] /\ pop_count < NumPush
    BY <1>2, <1>9 DEF ReadNext, Shape, Chain, PopInv
  <2>2. TypeOK'
    BY <1>1, <1>3, <1>9, <2>1 DEF ReadNext, TypeOK, queueVars, pushVars
  <2>3. PopInv(s, lo, hi)'
    BY <1>2, <1>3, <1>9, <2>1 DEF ReadNext, Shape, PopInv, queueVars
  <2>4. QED
    BY <1>1, <1>4, <1>6, <2>2, <2>3 DEF IInv, Shaped, Shape
<1>10. QED
  BY <1>7, <1>8, <1>9

\* The swap of _head takes the first node off the list.
LEMMA MoveHeadInv == ASSUME IInv, MoveHead PROVE IInv'
<1>1. mainpc = "join" /\ mainpc' = "join" /\ TypeOK /\ Shaped
  BY ThreadsJoined DEF PopThread
<1>2. PICK s \in [Nat -> Addr], lo \in Nat, hi \in Nat : Shape(s, lo, hi)
  BY <1>1 DEF Shaped
<1>3. /\ lo < hi /\ p = s[lo] /\ p \in Addr /\ head = p /\ head' = s[lo + 1] /\ s[lo + 1] \in Addr
      /\ poppc' = "delete" /\ pop_count < NumPush
      /\ UNCHANGED <<tail, next, elem, live, pushVars, pop_count, p, nxt, mainpc>>
  BY <1>2 DEF MoveHead, Shape, Chain, PopInv
<1>4. Nodes(s, lo + 1, hi) = Nodes(s, lo, hi) \ {p}
  BY <1>2, <1>3, Shortened DEF Shape, Chain
<1>5. p \in Nodes(s, lo, hi) /\ Unfreed = {} /\ Unfreed' = {p} /\ Unlinked' = Unlinked
  BY <1>3 DEF MoveHead, Nodes, Unfreed, Unlinked, pushVars
<1>6. TypeOK'
  BY <1>1, <1>3 DEF TypeOK, pushVars
<1>7. Chain(s, lo + 1, hi)'
  BY <1>2, <1>3 DEF Shape, Chain
<1>8. PushInv(s, lo + 1, hi)'
  BY <1>2, <1>3, <1>4 DEF Shape, PushInv, Nodes, pushVars
<1>9. PopInv(s, lo + 1, hi)'
  BY <1>2, <1>3, <1>4, <1>5 DEF Shape, PushInv, PopInv, Nodes, pushVars
<1>10. LiveInv(s, lo + 1, hi)'
  BY <1>2, <1>3, <1>4, <1>5 DEF Shape, LiveInv, Nodes
<1>11. Shape(s, lo + 1, hi)' /\ lo + 1 \in Nat
  BY <1>7, <1>8, <1>9, <1>10 DEF Shape
<1>12. Shaped'
  BY <1>11, Zenon DEF Shaped
<1>13. QED
  BY <1>1, <1>6, <1>12 DEF IInv

\* What pop deletes is off the list and is no one else's.
LEMMA DeleteInv == ASSUME IInv, Delete PROVE IInv'
<1>1. mainpc = "join" /\ mainpc' = "join" /\ TypeOK /\ Shaped
  BY ThreadsJoined DEF PopThread
<1>2. PICK s \in [Nat -> Addr], lo \in Nat, hi \in Nat : Shape(s, lo, hi)
  BY <1>1 DEF Shaped
<1>3. p \notin Nodes(s, lo, hi) \cup Unlinked /\ pop_count < NumPush
  BY <1>2 DEF Delete, Shape, PopInv, Unlinked
<1>4. TypeOK'
  BY <1>1, <1>3 DEF Delete, TypeOK, pushVars
<1>5. Chain(s, lo, hi)' /\ PushInv(s, lo, hi)' /\ PopInv(s, lo, hi)'
  BY <1>2 DEF Delete, Shape, Chain, PushInv, PopInv, Nodes, pushVars
<1>6. Unfreed = {p} /\ Unfreed' = {} /\ Unlinked' = Unlinked /\ live' = live \ {p}
  BY DEF Delete, Unfreed, Unlinked, pushVars
<1>7. LiveInv(s, lo, hi)'
  BY <1>2, <1>3, <1>6 DEF Shape, LiveInv, Nodes
<1>8. QED
  BY <1>1, <1>4, <1>5, <1>7 DEF IInv, Shaped, Shape

----------------------------------------------------------------------------
(* main. *)

\* When both threads have ended, what is allocated is what is on the list.
LEMMA JoinInv == ASSUME IInv, Join PROVE IInv'
<1>1. TypeOK /\ Shaped
  BY DEF IInv, Join
<1>2. PICK s \in [Nat -> Addr], lo \in Nat, hi \in Nat : Shape(s, lo, hi)
  BY <1>1 DEF Shaped
<1>3. Shape(s, lo, hi)'
  BY <1>2 DEF Join, Shape, Chain, PushInv, PopInv, LiveInv, Unlinked, Unfreed, Nodes, popVars, pushVars, queueVars
<1>4. TypeOK' /\ head' # Null
  BY <1>1, <1>2 DEF Join, Shape, Chain, TypeOK, popVars, pushVars, queueVars
<1>5. PushEnds' /\ PopEnds'
  BY DEF Join, PushEnds, PopEnds, popVars, pushVars
<1>6. QED
  BY <1>3, <1>4, <1>5 DEF IInv, Shaped, Join

\* A turn of the destructor deletes the first node, and the last turn the last.
LEMMA DeleteHeadInv == ASSUME IInv, DeleteHead PROVE IInv'
<1>1. TypeOK /\ Shaped /\ PushEnds /\ PopEnds
  BY DEF IInv, DeleteHead
<1>2. PICK s \in [Nat -> Addr], lo \in Nat, hi \in Nat : Shape(s, lo, hi)
  BY <1>1 DEF Shaped
<1>3. /\ head = s[lo] /\ head \in Addr /\ lo <= hi /\ live = Nodes(s, lo, hi)
      /\ head' = next[head] /\ live' = live \ {head}
      /\ UNCHANGED <<tail, next, elem, pushVars, popVars, mainpc>>
  BY <1>1, <1>2 DEF DeleteHead, Shape, Chain, LiveInv, Unlinked, Unfreed, PushEnds, PopEnds
<1>4. TypeOK' /\ PushEnds' /\ PopEnds'
  BY <1>1, <1>3 DEF TypeOK, PushEnds, PopEnds, pushVars, popVars
<1>5. CASE lo = hi
  <2>1. head' = Null /\ live' = {}
    BY <1>2, <1>3, <1>5 DEF Shape, Chain, Nodes
  <2>2. QED
    BY <1>3, <1>4, <2>1 DEF IInv, DeleteHead
<1>6. CASE lo < hi
  <2>1. Nodes(s, lo + 1, hi) = Nodes(s, lo, hi) \ {head}
    <3>1. \A j, k \in lo..hi : s[j] = s[k] => j = k
      BY <1>2 DEF Shape, Chain
    <3>2. QED
      BY <1>3, <1>6, <3>1, Shortened
  <2>2. head' = s[lo + 1] /\ s[lo + 1] \in Addr
    BY <1>2, <1>3, <1>6 DEF Shape, Chain
  <2>3. Chain(s, lo + 1, hi)'
    BY <1>2, <1>3, <1>6, <2>2 DEF Shape, Chain
  <2>4. PushInv(s, lo + 1, hi)' /\ PopInv(s, lo + 1, hi)'
    BY <1>1, <1>2, <1>3 DEF Shape, PushInv, PopInv, PushEnds, PopEnds, pushVars, popVars
  <2>5. LiveInv(s, lo + 1, hi)'
    BY <1>1, <1>3, <2>1 DEF LiveInv, Unlinked, Unfreed, PushEnds, PopEnds, pushVars, popVars, Nodes
  <2>6. Shape(s, lo + 1, hi)' /\ lo + 1 \in Nat
    BY <2>3, <2>4, <2>5 DEF Shape
  <2>7. Shaped'
    BY <2>6, Zenon DEF Shaped
  <2>8. head' # Null /\ mainpc' = "destroy"
    BY <1>3, <2>2 DEF DeleteHead
  <2>9. QED
    BY <1>4, <2>7, <2>8 DEF IInv
<1>7. QED
  BY <1>3, <1>5, <1>6

\* After the last turn of the destructor nothing is left.
LEMMA ExitInv == ASSUME IInv, Exit PROVE IInv'
BY DEF IInv, Exit, TypeOK, PushEnds, PopEnds, queueVars, pushVars, popVars

\* The invariant is about the variables of the specification only.
LEMMA StutterInv == ASSUME IInv, UNCHANGED vars PROVE IInv'
<1>1. TypeOK' /\ (mainpc' # "join" => PushEnds' /\ PopEnds')
  BY DEF IInv, TypeOK, PushEnds, PopEnds, vars, queueVars, pushVars, popVars
<1>2. ASSUME Shaped PROVE Shaped'
  <2>1. PICK s \in [Nat -> Addr], lo \in Nat, hi \in Nat : Shape(s, lo, hi)
    BY <1>2 DEF Shaped
  <2>2. Chain(s, lo, hi)' /\ PushInv(s, lo, hi)'
    BY <2>1 DEF Shape, Chain, PushInv, Nodes, vars, queueVars, pushVars
  <2>3. PopInv(s, lo, hi)' /\ LiveInv(s, lo, hi)'
    BY <2>1 DEF Shape, PopInv, LiveInv, Unlinked, Unfreed, Nodes, vars, queueVars, pushVars, popVars
  <2>4. QED
    BY <2>2, <2>3 DEF Shaped, Shape
<1>3. QED
  BY <1>1, <1>2 DEF IInv, vars, queueVars

\* Every step of the two threads and of main keeps the invariant.
LEMMA StepInv == IInv /\ [Next]_vars => IInv'
BY NewInv, ReadTailInv, LinkInv, SwingInv, PopReadsInv, MoveHeadInv, DeleteInv, JoinInv, DeleteHeadInv,
   ExitInv, StutterInv DEF Next, PushThread, PopThread, MainThread

----------------------------------------------------------------------------
(* What follows. *)

\* cas.h and cas.cpp keep the invariant.
THEOREM Invariant == Spec => []IInv
<1>1. Init => IInv
  BY InitInv
<1>2. IInv /\ [Next]_vars => IInv'
  BY StepInv
<1>3. QED
  BY <1>1, <1>2, PTL DEF Spec

\* The variables of queue, threads and main keep their types.
THEOREM TypeCorrect == Spec => []TypeOK
<1>1. IInv => TypeOK
  BY DEF IInv
<1>2. QED
  BY <1>1, Invariant, PTL

\* push and pop follow no pointer to a node that was deleted (cas.h:56, 69),
\* nor does the destructor.
THEOREM UsesLiveNodes == Spec => []NoUseAfterFree
<1>1. Shaped => /\ pushpc = "link" => at \in live
                /\ poppc \in {"empty", "swap", "delete"} => p \in live
                /\ head \in live
  BY DEF Shaped, Shape, Chain, PushInv, PopInv, LiveInv, Nodes, Unfreed
<1>2. IInv => NoUseAfterFree
  BY <1>1 DEF IInv, NoUseAfterFree, TypeOK, PushEnds, PopEnds
<1>3. QED
  BY <1>2, Invariant, PTL

\* Neither swap of push ever fails (cas.h:56, 58).
THEOREM SwapsSucceed == Spec => [](LinkSucceeds /\ SwingSucceeds)
<1>1. Shaped => LinkSucceeds /\ SwingSucceeds
  BY DEF Shaped, Shape, Chain, PushInv, LinkSucceeds, SwingSucceeds
<1>2. IInv => LinkSucceeds /\ SwingSucceeds
  BY <1>1 DEF IInv, LinkSucceeds, SwingSucceeds, TypeOK, PushEnds
<1>3. QED
  BY <1>2, Invariant, PTL

\* The nodes of a chain are those reachable from _head: the least node that is
\* not would be the _next of one that is.
LEMMA ChainIsPath ==
  ASSUME TypeOK, NEW s \in [Nat -> Addr], NEW lo \in Nat, NEW hi \in Nat, Chain(s, lo, hi)
  PROVE  Path = Nodes(s, lo, hi)
<1>1. ASSUME NEW S \in SUBSET Addr, head \in S \cup {Null}, \A b \in S : next[b] \in S \cup {Null}
      PROVE  Nodes(s, lo, hi) \subseteq S
  <2> DEFINE Missing == {k \in Nat : k \in lo..hi /\ s[k] \notin S}
  <2>1. SUFFICES ASSUME Missing # {} PROVE FALSE
    BY DEF Nodes
  <2>2. PICK m \in Missing : \A k \in Missing : m <= k
    BY <2>1, LeastOf
  <2>3. s[lo] \in S
    BY <1>1 DEF Chain
  <2>4. m # lo /\ m - 1 \in Nat /\ m - 1 \in lo..(hi - 1) /\ m - 1 \in lo..hi /\ ~ (m <= m - 1)
    BY <2>2, <2>3
  <2>5. s[m - 1] \in S
    BY <2>2, <2>4
  <2>6. next[s[m - 1]] = s[m]
    BY <2>4 DEF Chain
  <2>7. s[m] \in S
    BY <1>1, <2>2, <2>5, <2>6
  <2>8. QED
    BY <2>2, <2>7
<1>2. Nodes(s, lo, hi) \subseteq Addr /\ head \in Nodes(s, lo, hi)
  BY DEF Chain, Nodes
<1>3. \A b \in Nodes(s, lo, hi) : next[b] \in Nodes(s, lo, hi) \cup {Null}
  <2>1. SUFFICES ASSUME NEW k \in lo..hi PROVE next[s[k]] \in Nodes(s, lo, hi) \cup {Null}
    BY DEF Nodes
  <2>2. CASE k = hi
    BY <2>2 DEF Chain
  <2>3. CASE k # hi
    <3>1. k \in lo..(hi - 1) /\ k + 1 \in lo..hi
      BY <2>3
    <3>2. QED
      BY <3>1 DEF Chain, Nodes
  <2>4. QED
    BY <2>2, <2>3
<1>4. Path \subseteq Nodes(s, lo, hi)
  BY <1>2, <1>3 DEF Path
<1>5. Nodes(s, lo, hi) \subseteq Path
  BY <1>1, <1>2 DEF Path
<1>6. QED
  BY <1>4, <1>5

\* What cas_queue checks of the list: no node that was deleted is used, no swap
\* of push fails, and every node alive is on the list or in one thread's hands.
THEOREM ListCorrect == Spec => []ListInv
<1>1. ASSUME Shaped, TypeOK PROVE NoLeak
  <2>1. PICK s \in [Nat -> Addr], lo \in Nat, hi \in Nat : Shape(s, lo, hi)
    BY <1>1 DEF Shaped
  <2>2. Path = Nodes(s, lo, hi)
    BY <1>1, <2>1, ChainIsPath DEF Shape
  <2>3. QED
    BY <2>1, <2>2 DEF Shape, LiveInv, Unlinked, Unfreed, NoLeak
<1>2. ASSUME head = Null, live = {}, PushEnds, PopEnds PROVE NoLeak
  <2>1. Path = {}
    <3>1. {} \in SUBSET Addr /\ head \in {} \cup {Null} /\ \A b \in {} : next[b] \in {} \cup {Null}
      BY <1>2
    <3>2. QED
      BY <3>1 DEF Path
  <2>2. QED
    BY <1>2, <2>1 DEF NoLeak, PushEnds, PopEnds
<1>3. IInv => NoLeak
  BY <1>1, <1>2 DEF IInv, TypeOK
<1>4. ListInv <=> TypeOK /\ NoUseAfterFree /\ LinkSucceeds /\ SwingSucceeds /\ NoLeak
  BY DEF ListInv
<1>5. QED
  BY <1>3, <1>4, Invariant, TypeCorrect, UsesLiveNodes, SwapsSucceed, PTL

\* When the program has ended every node was freed (the destructor of cas.h).
THEOREM NothingLeaks == Spec => [](mainpc = "done" => live = {})
<1>1. IInv => (mainpc = "done" => live = {})
  BY DEF IInv
<1>2. QED
  BY <1>1, Invariant, PTL

----------------------------------------------------------------------------
(* The two threads implement Fifo. *)

\* A window of the list is no longer than the heap is large.
LEMMA WindowFits ==
  ASSUME NEW s \in [Nat -> Addr], NEW lo \in Nat, NEW hi \in Nat, lo <= hi,
         \A j, k \in lo..hi : s[j] = s[k] => j = k
  PROVE  hi - lo < Cardinality(Addr) /\ Cardinality(Addr) \in Nat
<1> DEFINE f == [k \in lo..hi |-> s[k]]
<1>1. IsFiniteSet(lo..hi) /\ Cardinality(lo..hi) = hi - lo + 1
  BY FS_Interval
<1>2. f \in Injection(lo..hi, Addr)
  BY DEF Injection, IsInjective
<1> HIDE DEF f
<1>3. Cardinality(lo..hi) <= Cardinality(Addr)
  BY <1>2, FS_Injection
<1>4. Cardinality(Addr) \in Nat
  BY FS_CardinalityType
<1>5. QED
  BY <1>1, <1>3, <1>4

\* What node is defined by.
IsNode(f) ==
  f = [k \in 0..Cardinality(Addr) |->
         IF k = 0 THEN head ELSE IF f[k - 1] = Null THEN Null ELSE next[f[k - 1]]]

\* The window s[lo], ..., s[hi], and Null behind it.
Walk(s, lo, hi) == [k \in 0..Cardinality(Addr) |-> IF k <= hi - lo THEN s[lo + k] ELSE Null]

\* The list is walked along its window.
LEMMA NodeIsWalk ==
  ASSUME NEW s \in [Nat -> Addr], NEW lo \in Nat, NEW hi \in Nat, Chain(s, lo, hi)
  PROVE  node = Walk(s, lo, hi)
<1> DEFINE C == Cardinality(Addr)
           w == Walk(s, lo, hi)
<1>1. hi - lo < C /\ C \in Nat /\ lo <= hi
  BY WindowFits DEF Chain
<1>2. IsNode(w)
  <2>1. ASSUME NEW k \in 0..C
        PROVE  w[k] = IF k = 0 THEN head ELSE IF w[k - 1] = Null THEN Null ELSE next[w[k - 1]]
    <3>1. CASE k = 0
      BY <1>1, <3>1 DEF Walk, Chain
    <3>2. CASE k # 0 /\ k <= hi - lo
      <4>1. k - 1 \in 0..C /\ k - 1 <= hi - lo /\ lo + (k - 1) \in lo..(hi - 1) /\ lo + (k - 1) \in lo..hi
        BY <1>1, <3>2
      <4>2. w[k - 1] = s[lo + (k - 1)] /\ w[k] = s[lo + k] /\ s[lo + (k - 1)] \in Addr
        BY <1>1, <3>2, <4>1 DEF Walk, Chain
      <4>3. next[s[lo + (k - 1)]] = s[(lo + (k - 1)) + 1] /\ (lo + (k - 1)) + 1 = lo + k
        BY <4>1 DEF Chain
      <4>4. QED
        BY <3>2, <4>2, <4>3
    <3>3. CASE k = hi - lo + 1
      <4>1. k - 1 \in 0..C /\ k - 1 <= hi - lo /\ lo + (k - 1) = hi /\ hi \in lo..hi
        BY <1>1, <3>3
      <4>2. w[k - 1] = s[hi] /\ s[hi] \in Addr /\ w[k] = Null /\ k # 0
        BY <1>1, <3>3, <4>1 DEF Walk, Chain
      <4>3. QED
        BY <4>2 DEF Chain
    <3>4. CASE k > hi - lo + 1
      <4>1. k - 1 \in 0..C /\ ~ (k - 1 <= hi - lo) /\ k # 0
        BY <1>1, <3>4
      <4>2. w[k - 1] = Null /\ w[k] = Null
        BY <1>1, <3>4, <4>1 DEF Walk
      <4>3. QED
        BY <4>1, <4>2
    <3>5. QED
      BY <1>1, <3>1, <3>2, <3>3, <3>4
  <2>2. w = [k \in 0..C |-> w[k]]
    BY DEF Walk
  <2> HIDE DEF w, C
  <2>3. w = [k \in 0..C |->
               IF k = 0 THEN head ELSE IF w[k - 1] = Null THEN Null ELSE next[w[k - 1]]]
    BY <2>1, <2>2
  <2>4. QED
    BY <2>3 DEF IsNode, C
<1> DEFINE first == CHOOSE f : IsNode(f)
<1>3. node = first
  BY DEF node, IsNode
<1>4. IsNode(first)
  <2> HIDE DEF w
  <2>1. \E f : IsNode(f)
    BY <1>2
  <2>2. QED
    BY <2>1
<1> HIDE DEF first, w, C
<1>5. /\ first = [k \in 0..C |-> first[k]]
      /\ \A k \in 0..C : first[k] = IF k = 0 THEN head
                                    ELSE IF first[k - 1] = Null THEN Null ELSE next[first[k - 1]]
  BY <1>4 DEF IsNode, C
<1>6. /\ w = [k \in 0..C |-> w[k]]
      /\ \A k \in 0..C : w[k] = IF k = 0 THEN head
                                ELSE IF w[k - 1] = Null THEN Null ELSE next[w[k - 1]]
  BY <1>2 DEF IsNode, C
<1> DEFINE Same == {k \in 0..C : first[k] = w[k]}
<1>7. 0..C \subseteq Same
  <2>1. 0 \in Same
    <3>1. 0 \in 0..C
      BY <1>1
    <3>2. first[0] = head /\ w[0] = head
      BY <1>5, <1>6, <3>1
    <3>3. QED
      BY <3>1, <3>2
  <2>2. ASSUME NEW k \in 1..C, k - 1 \in Same PROVE k \in Same
    <3>1. k \in 0..C /\ k # 0 /\ first[k - 1] = w[k - 1]
      BY <1>1, <2>2
    <3>2. first[k] = w[k]
      BY <1>5, <1>6, <3>1
    <3>3. QED
      BY <3>1, <3>2
  <2> HIDE DEF Same
  <2>3. QED
    BY <1>1, <2>1, <2>2, InductionUpTo
<1>8. \A k \in 0..C : first[k] = w[k]
  BY <1>7
<1>9. first = w
  BY <1>5, <1>6, <1>8
<1>10. QED
  BY <1>3, <1>9 DEF w

\* The numbers on the list, oldest first.
Numbers(s, lo, hi) == [k \in 1..(hi - lo) |-> elem[s[lo + k]]]

\* What the refinement needs to know of Contents.
ContentsInv == \A s \in [Nat -> Addr], lo, hi \in Nat : Chain(s, lo, hi) => Contents = Numbers(s, lo, hi)

\* Contents walks the window of the list.
LEMMA ContentsAreNumbers == ContentsInv
<1> SUFFICES ASSUME NEW s \in [Nat -> Addr], NEW lo \in Nat, NEW hi \in Nat, Chain(s, lo, hi)
             PROVE  Contents = Numbers(s, lo, hi)
  BY DEF ContentsInv
<1> DEFINE C == Cardinality(Addr)
           length == Cardinality({k \in 1..C : node[k] # Null})
<1>1. hi - lo < C /\ C \in Nat /\ lo <= hi
  BY WindowFits DEF Chain
<1>2. ASSUME NEW k \in 1..C
      PROVE  /\ k <= hi - lo => node[k] = s[lo + k] /\ node[k] # Null
             /\ k > hi - lo => node[k] = Null
  <2>1. k \in 0..C /\ (k <= hi - lo => lo + k \in lo..hi)
    BY <1>1
  <2>2. node[k] = IF k <= hi - lo THEN s[lo + k] ELSE Null
    <3>1. node[k] = Walk(s, lo, hi)[k]
      BY NodeIsWalk
    <3>2. Walk(s, lo, hi)[k] = IF k <= hi - lo THEN s[lo + k] ELSE Null
      BY <2>1 DEF Walk
    <3>3. QED
      BY <3>1, <3>2
  <2>3. k <= hi - lo => s[lo + k] \in Addr
    BY <2>1 DEF Chain
  <2>4. QED
    BY <1>1, <2>2, <2>3
<1>3. \A k \in 1..(hi - lo) : k \in 1..C /\ node[k] = s[lo + k] /\ node[k] # Null
  <2>1. \A k \in 1..(hi - lo) : k \in 1..C /\ k <= hi - lo
    BY <1>1
  <2>2. QED
    BY <1>2, <2>1
<1>4. {k \in 1..C : node[k] # Null} = 1..(hi - lo)
  BY <1>1, <1>2, <1>3
<1>5. length = hi - lo
  <2>1. Cardinality(1..(hi - lo)) = hi - lo
    BY <1>1, FS_Interval
  <2>2. QED
    BY <1>4, <2>1
<1>6. Contents = [k \in 1..length |-> elem[node[k]]]
  BY DEF Contents
<1> HIDE DEF length
<1>7. QED
  BY <1>3, <1>5, <1>6 DEF Numbers

\* The node in the hands of push holds the number it pushes.
NumberInv == pushpc \in {"tail", "link"} => elem[newNode] = i

\* push writes the number before it links the node.
LEMMA NumbersKept == Spec => []NumberInv
<1>1. Init => NumberInv
  BY DEF Init, NumberInv
<1>2. TypeOK /\ NumberInv /\ [Next]_vars => NumberInv'
  <2> SUFFICES ASSUME TypeOK, NumberInv, [Next]_vars PROVE NumberInv'
    OBVIOUS
  <2>1. CASE New
    BY <2>1 DEF New, NumberInv, TypeOK
  <2>2. CASE ReadTail \/ Link \/ Swing
    BY <2>2 DEF ReadTail, Link, Swing, NumberInv, queueVars
  <2>3. CASE PopThread
    BY <2>3 DEF PopThread, ReadHead, ReturnFalse, ReadNext, MoveHead, Delete, NumberInv, queueVars, pushVars
  <2>4. CASE MainThread
    BY <2>4 DEF MainThread, Join, DeleteHead, Exit, NumberInv, queueVars, pushVars
  <2>5. CASE UNCHANGED vars
    BY <2>5 DEF NumberInv, vars, queueVars, pushVars
  <2>6. QED
    BY <2>1, <2>2, <2>3, <2>4, <2>5 DEF Next, PushThread
<1>3. QED
  BY <1>1, <1>2, TypeCorrect, PTL DEF Spec

\* Two windows that hold the same numbers.
LEMMA NumbersSame ==
  ASSUME NEW s \in [Nat -> Addr], NEW lo \in Nat, NEW hi \in Nat,
         \A k \in lo..hi : elem'[s[k]] = elem[s[k]]
  PROVE  Numbers(s, lo, hi)' = Numbers(s, lo, hi)
<1>1. \A k \in 1..(hi - lo) : lo + k \in lo..hi
  OBVIOUS
<1>2. \A k \in 1..(hi - lo) : elem'[s[lo + k]] = elem[s[lo + k]]
  BY <1>1
<1>3. QED
  BY <1>2 DEF Numbers

\* A sequence is a function.
LEMMA SequenceIsFunction ==
  ASSUME NEW S, NEW q \in Seq(S), NEW n, n = Len(q)
  PROVE  q = [k \in 1..n |-> q[k]]
OBVIOUS

\* Numbers put after the last one.
LEMMA NumbersAppended ==
  ASSUME TypeOK, NEW s \in [Nat -> Addr], NEW t \in [Nat -> Addr], NEW lo \in Nat, NEW hi \in Nat,
         lo <= hi, Longer(s, lo, hi, t), elem' = elem, elem[newNode] = i
  PROVE  Numbers(t, lo, hi + 1)' = Append(Numbers(s, lo, hi), i)
<1> DEFINE n == hi - lo
           f == Numbers(s, lo, hi)
           g == Numbers(t, lo, hi + 1)
<1>1. n \in Nat /\ (hi + 1) - lo = n + 1 /\ lo + (n + 1) = hi + 1
  OBVIOUS
<1>2. \A k \in 1..n : lo + k \in lo..hi /\ s[lo + k] \in Addr
  OBVIOUS
<1>3. f \in Seq(0..NumPush) /\ Len(f) = n
  <2>1. f = [k \in 1..n |-> elem[s[lo + k]]]
    BY DEF Numbers
  <2>2. \A k \in 1..n : elem[s[lo + k]] \in 0..NumPush
    BY <1>2 DEF TypeOK
  <2> HIDE DEF n, f
  <2>3. QED
    BY <1>1, <2>1, <2>2
<1>4. g = [k \in 1..(n + 1) |-> elem[t[lo + k]]]
  BY <1>1 DEF Numbers
<1>5. \A k \in 1..n : elem[t[lo + k]] = f[k]
  BY <1>2 DEF Longer, Numbers
<1>6. elem[t[lo + (n + 1)]] = i
  BY <1>1 DEF Longer
<1>7. Numbers(t, lo, hi + 1)' = g
  BY DEF Numbers
<1> HIDE DEF n, f, g
<1>8. i \in 0..NumPush
  BY DEF TypeOK
<1>9. g = Append(f, i)
  <2> DEFINE a == Append(f, i)
  <2>1. a \in Seq(0..NumPush) /\ Len(a) = n + 1
    BY <1>1, <1>3, <1>8
  <2>2. a = [k \in 1..(n + 1) |-> a[k]]
    <3> HIDE DEF a
    <3>1. QED
      BY <2>1, SequenceIsFunction
  <2>3. \A k \in 1..(n + 1) : a[k] = IF k = n + 1 THEN i ELSE f[k]
    BY <1>1, <1>3, <1>8
  <2>4. \A k \in 1..(n + 1) : elem[t[lo + k]] = IF k = n + 1 THEN i ELSE f[k]
    BY <1>1, <1>5, <1>6
  <2> HIDE DEF a
  <2>5. QED
    BY <1>4, <2>2, <2>3, <2>4 DEF a
<1>10. QED
  BY <1>7, <1>9 DEF f

\* The first number taken away.
LEMMA NumbersTail ==
  ASSUME TypeOK, NEW s \in [Nat -> Addr], NEW lo \in Nat, NEW hi \in Nat, lo < hi, elem' = elem
  PROVE  Numbers(s, lo, hi) # <<>> /\ Numbers(s, lo + 1, hi)' = Tail(Numbers(s, lo, hi))
<1> DEFINE n == hi - lo
           f == Numbers(s, lo, hi)
           g == Numbers(s, lo + 1, hi)
<1>1. n \in Nat /\ n > 0 /\ hi - (lo + 1) = n - 1
  OBVIOUS
<1>2. \A k \in 1..n : lo + k \in Nat /\ s[lo + k] \in Addr
  OBVIOUS
<1>3. f \in Seq(0..NumPush) /\ Len(f) = n
  <2>1. f = [k \in 1..n |-> elem[s[lo + k]]]
    BY DEF Numbers
  <2>2. \A k \in 1..n : elem[s[lo + k]] \in 0..NumPush
    BY <1>2 DEF TypeOK
  <2> HIDE DEF n, f
  <2>3. QED
    BY <1>1, <2>1, <2>2
<1>4. g = [k \in 1..(n - 1) |-> elem[s[(lo + 1) + k]]]
  BY <1>1 DEF Numbers
<1>5. \A k \in 1..(n - 1) : k + 1 \in 1..n /\ elem[s[(lo + 1) + k]] = f[k + 1]
  <2>1. \A k \in 1..(n - 1) : k + 1 \in 1..n /\ (lo + 1) + k = lo + (k + 1)
    BY <1>1
  <2>2. \A k \in 1..n : f[k] = elem[s[lo + k]]
    BY DEF Numbers
  <2> HIDE DEF n, f
  <2>3. QED
    BY <2>1, <2>2
<1>6. Numbers(s, lo + 1, hi)' = g
  BY DEF Numbers
<1> HIDE DEF n, f, g
<1>7. f # <<>>
  BY <1>1, <1>3
<1>8. g = Tail(f)
  <2> DEFINE a == Tail(f)
  <2>1. a \in Seq(0..NumPush) /\ Len(a) = n - 1
    BY <1>1, <1>3, <1>7
  <2>2. a = [k \in 1..(n - 1) |-> a[k]]
    <3> HIDE DEF a
    <3>1. QED
      BY <2>1, SequenceIsFunction
  <2>3. \A k \in 1..(n - 1) : a[k] = f[k + 1]
    BY <1>1, <1>3, <1>7
  <2> HIDE DEF a
  <2>4. QED
    BY <1>4, <1>5, <2>2, <2>3 DEF a
<1>9. QED
  BY <1>6, <1>7, <1>8 DEF f

\* The abstract queue and its counter in a state of the two threads.
AbstractQueue == IF mainpc = "join" THEN Contents ELSE <<>>
AbstractPushed == IF pushpc = "swing" THEN i + 1 ELSE i
Unmoved == AbstractQueue' = AbstractQueue /\ AbstractPushed' = AbstractPushed /\ mainpc' = mainpc

\* The empty queue at the start.
LEMMA InitRefines == TypeOK /\ ContentsInv /\ IInv /\ Init => Queue!Init
<1> SUFFICES ASSUME TypeOK, ContentsInv, IInv, Init PROVE Queue!Init
  OBVIOUS
<1>1. PICK dummy \in Addr : head = dummy
  BY DEF Init
<1> DEFINE s == [k \in Nat |-> dummy]
<1>2. s \in [Nat -> Addr] /\ Chain(s, 0, 0)
  BY <1>1 DEF Init, Chain
<1>3. Contents = Numbers(s, 0, 0)
  <2> HIDE DEF s
  <2>1. QED
    BY <1>2 DEF ContentsInv
<1>4. Numbers(s, 0, 0) = <<>>
  BY DEF Numbers
<1>5. QED
  BY <1>3, <1>4 DEF Queue!Init, Init

\* A step that leaves the list and the numbers on it alone.
LEMMA SameContents ==
  ASSUME ContentsInv, ContentsInv', NEW s \in [Nat -> Addr], NEW lo \in Nat, NEW hi \in Nat,
         Chain(s, lo, hi), Chain(s, lo, hi)', \A k \in lo..hi : elem'[s[k]] = elem[s[k]]
  PROVE  Contents' = Contents
<1>1. Contents = Numbers(s, lo, hi) /\ Contents' = Numbers(s, lo, hi)'
  BY DEF ContentsInv
<1>2. QED
  BY <1>1, NumbersSame

\* A new node is not on the list yet.
LEMMA NewRefines == ASSUME IInv, ContentsInv, ContentsInv', New PROVE Unmoved
<1>1. mainpc = "join" /\ mainpc' = "join" /\ TypeOK /\ Shaped
  BY ThreadsJoined DEF PushThread
<1>2. PICK a \in Addr \ live :
         elem' = [elem EXCEPT ![a] = i] /\ next' = [next EXCEPT ![a] = Null]
  BY DEF New
<1>3. PICK s \in [Nat -> Addr], lo \in Nat, hi \in Nat : Shape(s, lo, hi)
  BY <1>1 DEF Shaped
<1>4. \A k \in lo..hi : s[k] # a
  BY <1>3 DEF Shape, LiveInv, Nodes
<1>5. Chain(s, lo, hi) /\ Chain(s, lo, hi)'
  BY <1>1, <1>2, <1>3, <1>4 DEF New, Shape, Chain, TypeOK
<1>6. \A k \in lo..hi : elem'[s[k]] = elem[s[k]]
  BY <1>1, <1>2, <1>4, <1>5 DEF TypeOK, Chain
<1>7. Contents' = Contents
  BY <1>5, <1>6, SameContents
<1>8. QED
  BY <1>1, <1>7 DEF Unmoved, AbstractQueue, AbstractPushed, New

\* The reads of both threads, the second swap of push and the delete of pop.
LEMMA QuietRefines ==
  ASSUME IInv, ContentsInv, ContentsInv', ReadTail \/ Swing \/ ReadHead \/ ReturnFalse \/ ReadNext \/ Delete
  PROVE  Unmoved
<1>1. mainpc = "join" /\ mainpc' = "join" /\ TypeOK /\ Shaped
  BY ThreadsJoined DEF PushThread, PopThread
<1>2. PICK s \in [Nat -> Addr], lo \in Nat, hi \in Nat : Shape(s, lo, hi)
  BY <1>1 DEF Shaped
<1>3. next' = next /\ head' = head /\ elem' = elem
  BY DEF ReadTail, Swing, ReadHead, ReturnFalse, ReadNext, Delete, queueVars
<1>4. Chain(s, lo, hi) /\ Chain(s, lo, hi)'
  BY <1>2, <1>3 DEF Shape, Chain
<1>5. Contents' = Contents
  BY <1>3, <1>4, SameContents
<1>6. AbstractPushed' = AbstractPushed
  BY <1>1 DEF AbstractPushed, ReadTail, Swing, ReadHead, ReturnFalse, ReadNext, Delete, pushVars
<1>7. QED
  BY <1>1, <1>5, <1>6 DEF Unmoved, AbstractQueue

\* The first swap of push is the moment a number enters the queue.
LEMMA LinkRefines ==
  ASSUME IInv, NumberInv, ContentsInv, ContentsInv', Link
  PROVE  /\ mainpc = "join" /\ mainpc' = "join" /\ AbstractPushed < NumPush
         /\ AbstractQueue' = Append(AbstractQueue, AbstractPushed)
         /\ AbstractPushed' = AbstractPushed + 1
<1>1. mainpc = "join" /\ mainpc' = "join" /\ TypeOK /\ Shaped
  BY ThreadsJoined DEF PushThread
<1>2. PICK s \in [Nat -> Addr], lo \in Nat, hi \in Nat : Shape(s, lo, hi)
  BY <1>1 DEF Shaped
<1>3. PICK t \in [Nat -> Addr] : Longer(s, lo, hi, t) /\ Shape(t, lo, hi + 1)'
  BY <1>1, <1>2, LinkShape
<1>4. Chain(s, lo, hi) /\ lo <= hi /\ hi + 1 \in Nat /\ Chain(t, lo, hi + 1)'
  BY <1>2, <1>3 DEF Shape, Chain
<1>5. Contents = Numbers(s, lo, hi) /\ Contents' = Numbers(t, lo, hi + 1)'
  BY <1>4 DEF ContentsInv
<1>6. elem' = elem /\ elem[newNode] = i /\ i < NumPush /\ pushpc = "link" /\ pushpc' = "swing" /\ i' = i
  BY <1>2 DEF Link, NumberInv, Shape, Chain, PushInv
<1>7. Contents' = Append(Contents, i)
  BY <1>1, <1>3, <1>4, <1>5, <1>6, NumbersAppended
<1>8. QED
  BY <1>1, <1>6, <1>7 DEF AbstractQueue, AbstractPushed

\* The swap of pop is the moment the oldest number leaves it.
LEMMA MoveHeadRefines ==
  ASSUME IInv, ContentsInv, ContentsInv', MoveHead
  PROVE  /\ mainpc = "join" /\ mainpc' = "join" /\ AbstractQueue # <<>>
         /\ AbstractQueue' = Tail(AbstractQueue)
         /\ AbstractPushed' = AbstractPushed
<1>1. mainpc = "join" /\ mainpc' = "join" /\ TypeOK /\ Shaped
  BY ThreadsJoined DEF PopThread
<1>2. PICK s \in [Nat -> Addr], lo \in Nat, hi \in Nat : Shape(s, lo, hi)
  BY <1>1 DEF Shaped
<1>3. /\ lo < hi /\ lo + 1 \in Nat /\ head' = s[lo + 1] /\ elem' = elem /\ next' = next
      /\ pushpc' = pushpc /\ i' = i
  BY <1>2 DEF MoveHead, Shape, Chain, PopInv, pushVars
<1>4. Chain(s, lo, hi) /\ Chain(s, lo + 1, hi)'
  BY <1>2, <1>3 DEF Shape, Chain
<1>5. Contents = Numbers(s, lo, hi) /\ Contents' = Numbers(s, lo + 1, hi)'
  BY <1>3, <1>4 DEF ContentsInv
<1>6. Contents # <<>> /\ Contents' = Tail(Contents)
  BY <1>1, <1>3, <1>5, NumbersTail
<1>7. QED
  BY <1>1, <1>3, <1>6 DEF AbstractQueue, AbstractPushed

\* Every step of the threads is a step of the abstract queue, or none.
LEMMA StepRefines ==
  IInv /\ NumberInv /\ ContentsInv /\ ContentsInv' /\ [Next]_vars => [Queue!Next]_Queue!fifoVars
<1> SUFFICES ASSUME IInv, NumberInv, ContentsInv, ContentsInv', [Next]_vars
             PROVE  [Queue!Next]_Queue!fifoVars
  OBVIOUS
<1> USE DEF AbstractQueue, AbstractPushed, Unmoved
<1>1. CASE New
  BY <1>1, NewRefines DEF Queue!fifoVars
<1>2. CASE ReadTail \/ Swing \/ ReadHead \/ ReturnFalse \/ ReadNext \/ Delete
  BY <1>2, QuietRefines DEF Queue!fifoVars
<1>3. CASE Link
  BY <1>3, LinkRefines DEF Queue!Next, Queue!Push
<1>4. CASE MoveHead
  BY <1>4, MoveHeadRefines DEF Queue!Next, Queue!Pop
<1>5. CASE Join
  BY <1>5 DEF Join, PushEnds, pushVars, Queue!Next, Queue!Destroy
<1>6. CASE DeleteHead \/ Exit
  BY <1>6 DEF DeleteHead, Exit, pushVars, Queue!fifoVars
<1>7. CASE UNCHANGED vars
  <2>1. ASSUME mainpc = "join" PROVE Contents' = Contents
    <3>1. PICK s \in [Nat -> Addr], lo \in Nat, hi \in Nat : Shape(s, lo, hi)
      BY <2>1 DEF IInv, Shaped
    <3>2. Chain(s, lo, hi) /\ Chain(s, lo, hi)' /\ elem' = elem
      BY <1>7, <3>1 DEF Shape, Chain, vars, queueVars
    <3>3. QED
      BY <3>2, SameContents
  <2>2. QED
    BY <1>7, <2>1 DEF vars, pushVars, Queue!fifoVars
<1>8. QED
  BY <1>1, <1>2, <1>3, <1>4, <1>5, <1>6, <1>7 DEF Next, PushThread, PopThread, MainThread

\* The two threads and the list of cas.h implement a first-in first-out queue,
\* for any number of pushes and any heap.
THEOREM CasQueueImplementsFifo == Spec => ImplementsFifo
<1>1. TypeOK /\ ContentsInv /\ IInv /\ Init => Queue!Init
  BY InitRefines
<1>2. IInv /\ NumberInv /\ ContentsInv /\ ContentsInv' /\ [Next]_vars => [Queue!Next]_Queue!fifoVars
  BY StepRefines
<1>3. QED
  BY <1>1, <1>2, Invariant, TypeCorrect, NumbersKept, ContentsAreNumbers, PTL
     DEF Spec, ImplementsFifo, Queue!Spec
=============================================================================
