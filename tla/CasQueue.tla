------------------------------ MODULE CasQueue ------------------------------
(***************************************************************************)
(* code/cas/cas.h, a linked queue whose ends move by compare-and-swap, and *)
(* code/cas/cas.cpp, which pushes from one thread and pops from another,   *)
(* joins both and leaves the rest to the destructor. Freed nodes go back to*)
(* the heap and may be allocated again at once.                            *)
(***************************************************************************)
EXTENDS Integers, Sequences, FiniteSets

CONSTANTS Addr,   \* addresses the heap can give to a node
          Null,   \* the null pointer
          NumPush \* FOR_LOOP_NUM, and so a bound on the nodes alive

\* The heap never runs out: a dummy node and one per number pushed.
ASSUME HeapAssumption == IsFiniteSet(Addr) /\ NumPush \in Nat \ {0} /\ Cardinality(Addr) > NumPush
ASSUME NullAssumption == Null \notin Addr

VARIABLES
  head, tail,     \* _head, _tail
  next, elem,     \* _next and _elem of the node at each address
  live,           \* addresses of the nodes allocated and not deleted
  pushpc, i, newNode, oldp, at, \* queue_push and push; at is _tail as read for the swap
  poppc, pop_count, p, nxt,     \* queue_pop and pop; nxt is p->_next as read for the swap
  mainpc          \* "join", "destroy", "done"

queueVars == <<head, tail, next, elem, live>>
pushVars == <<pushpc, i, newNode, oldp, at>>
popVars == <<poppc, pop_count, p, nxt>>
vars == <<queueVars, pushVars, popVars, mainpc>>

Init ==
  /\ \E dummy \in Addr : head = dummy /\ tail = dummy /\ live = {dummy}
  /\ next = [a \in Addr |-> Null] /\ elem = [a \in Addr |-> 0]
  /\ pushpc = "new" /\ i = 0 /\ newNode = Null /\ oldp = Null /\ at = Null
  /\ poppc = "head" /\ pop_count = 0 /\ p = Null /\ nxt = Null
  /\ mainpc = "join"

\* The compare-and-swap of a pointer with value old.
Swapped(value, expected, new) == IF value = expected THEN new ELSE value

----------------------------------------------------------------------------
(* push, called for each i by queue_push. *)

\* A node is allocated with _next null, and _tail is read into oldp.
New ==
  /\ pushpc = "new" /\ i < NumPush
  /\ \E a \in Addr \ live :
       /\ newNode' = a /\ live' = live \cup {a}
       /\ elem' = [elem EXCEPT ![a] = i] /\ next' = [next EXCEPT ![a] = Null]
  /\ oldp' = tail
  /\ pushpc' = "tail"
  /\ UNCHANGED <<head, tail, i, at, popVars, mainpc>>

\* The loop reads _tail again each time.
ReadTail ==
  /\ pushpc = "tail"
  /\ at' = tail /\ pushpc' = "link"
  /\ UNCHANGED <<queueVars, i, newNode, oldp, popVars, mainpc>>

\* The first swap: the new node becomes the last one, or the loop goes on.
Link ==
  /\ pushpc = "link"
  /\ next' = [next EXCEPT ![at] = Swapped(@, Null, newNode)]
  /\ pushpc' = IF next[at] = Null THEN "swing" ELSE "tail"
  /\ UNCHANGED <<head, tail, elem, live, i, newNode, oldp, at, popVars, mainpc>>

\* Mutant of Swing: _tail is not moved.
SwingForgotten ==
  /\ pushpc = "swing"
  /\ i' = i + 1 /\ pushpc' = "new"
  /\ UNCHANGED <<queueVars, newNode, oldp, at, popVars, mainpc>>

\* The second swap; queue_push's loop goes on whether it succeeds or not.
Swing ==
  /\ pushpc = "swing"
  /\ tail' = Swapped(tail, oldp, newNode)
  /\ i' = i + 1 /\ pushpc' = "new"
  /\ UNCHANGED <<head, next, elem, live, newNode, oldp, at, popVars, mainpc>>

----------------------------------------------------------------------------
(* pop, called by queue_pop until it was called NumPush times. *)

\* p = _head.
ReadHead ==
  /\ poppc = "head" /\ pop_count < NumPush
  /\ p' = head /\ poppc' = "empty"
  /\ UNCHANGED <<queueVars, pushVars, pop_count, nxt, mainpc>>

\* pop returns false; the call counts all the same.
ReturnFalse ==
  /\ poppc = "empty" /\ next[p] = Null
  /\ pop_count' = pop_count + 1 /\ poppc' = "head"
  /\ UNCHANGED <<queueVars, pushVars, p, nxt, mainpc>>

\* There is a next node; it is read again for the swap.
ReadNext ==
  /\ poppc = "empty" /\ next[p] # Null
  /\ nxt' = next[p] /\ poppc' = "swap"
  /\ UNCHANGED <<queueVars, pushVars, pop_count, p, mainpc>>

\* Mutant of MoveHead: the head jumps to the last node.
MoveHeadToTail ==
  /\ poppc = "swap"
  /\ head' = Swapped(head, p, tail)
  /\ poppc' = IF head = p THEN "delete" ELSE "head"
  /\ UNCHANGED <<tail, next, elem, live, pushVars, pop_count, p, nxt, mainpc>>

\* The swap of _head; when it fails the loop of pop goes on.
MoveHead ==
  /\ poppc = "swap"
  /\ head' = Swapped(head, p, nxt)
  /\ poppc' = IF head = p THEN "delete" ELSE "head"
  /\ UNCHANGED <<tail, next, elem, live, pushVars, pop_count, p, nxt, mainpc>>

\* pop deletes the old dummy node and returns true.
Delete ==
  /\ poppc = "delete"
  /\ live' = live \ {p}
  /\ pop_count' = pop_count + 1 /\ poppc' = "head"
  /\ UNCHANGED <<head, tail, next, elem, pushVars, p, nxt, mainpc>>

----------------------------------------------------------------------------
(* main joins both threads; the static queue's destructor runs at exit. *)

PushEnds == pushpc = "new" /\ i >= NumPush
PopEnds == poppc = "head" /\ pop_count >= NumPush

Join ==
  /\ mainpc = "join" /\ PushEnds /\ PopEnds
  /\ mainpc' = "destroy"
  /\ UNCHANGED <<queueVars, pushVars, popVars>>

\* Mutant of DeleteHead: the loop stops at the last node.
DeleteHeadKeepsLast ==
  /\ mainpc = "destroy" /\ head # Null /\ next[head] # Null
  /\ head' = next[head] /\ live' = live \ {head}
  /\ UNCHANGED <<tail, next, elem, pushVars, popVars, mainpc>>

\* One turn of ~Queue's loop.
DeleteHead ==
  /\ mainpc = "destroy" /\ head # Null
  /\ head' = next[head] /\ live' = live \ {head}
  /\ UNCHANGED <<tail, next, elem, pushVars, popVars, mainpc>>

\* The list is empty: the program ends.
Exit ==
  /\ mainpc = "destroy" /\ head = Null
  /\ mainpc' = "done"
  /\ UNCHANGED <<queueVars, pushVars, popVars>>

----------------------------------------------------------------------------
PushThread == New \/ ReadTail \/ Link \/ Swing
PopThread == ReadHead \/ ReturnFalse \/ ReadNext \/ MoveHead \/ Delete
MainThread == Join \/ DeleteHead \/ Exit

Next == PushThread \/ PopThread \/ MainThread \/ (mainpc = "done" /\ UNCHANGED vars)

Spec == Init /\ [][Next]_vars

\* The three threads are scheduled.
FairSpec == Spec /\ WF_vars(PushThread) /\ WF_vars(PopThread) /\ WF_vars(MainThread)

----------------------------------------------------------------------------
(* Properties. *)

\* Every variable has its type.
TypeOK ==
  /\ head \in Addr \cup {Null} /\ tail \in Addr
  /\ next \in [Addr -> Addr \cup {Null}] /\ elem \in [Addr -> 0..NumPush] /\ live \subseteq Addr
  /\ pushpc \in {"new", "tail", "link", "swing"} /\ i \in 0..NumPush
  /\ {newNode, oldp, at, p, nxt} \subseteq Addr \cup {Null}
  /\ poppc \in {"head", "empty", "swap", "delete"} /\ pop_count \in 0..NumPush
  /\ mainpc \in {"join", "destroy", "done"}

\* Neither thread dereferences a node the popping thread has deleted, though
\* _tail itself may point to one while the pushing thread is about to swing it.
NoUseAfterFree ==
  /\ pushpc = "link" => at \in live
  /\ poppc \in {"empty", "swap", "delete"} => p \in live
  /\ mainpc = "destroy" /\ head # Null => head \in live

\* With one pushing thread the first swap never fails: push does not loop.
LinkSucceeds == pushpc = "link" => next[at] = Null

\* With one pushing thread the second swap never fails: between two pushes
\* _tail is the last node of the list.
SwingSucceeds == pushpc = "swing" => tail = oldp

\* The nodes on the list: those in every set that has _head and, with a node,
\* its _next.
Path ==
  {a \in Addr : \A S \in SUBSET Addr :
     head \in S \cup {Null} /\ (\A b \in S : next[b] \in S \cup {Null}) => a \in S}

\* Every node alive is on the list, about to be linked to it, or about to be
\* deleted: none leaks, and none on the list was deleted.
NoLeak ==
  live = Path \cup (IF pushpc \in {"tail", "link"} THEN {newNode} ELSE {})
              \cup (IF poppc = "delete" THEN {p} ELSE {})

\* What holds of the list between any two loads and swaps of the two threads
\* (push and pop): no use of a deleted node, no swap of push that fails, and no
\* node lost.
ListInv == TypeOK /\ NoUseAfterFree /\ LinkSucceeds /\ SwingSucceeds /\ NoLeak

\* Both threads end and the destructor frees every node.
AllFreed == <>(mainpc = "done" /\ live = {})

\* The nodes on the list in their order, and Null behind the last one.
node[k \in 0..Cardinality(Addr)] ==
  IF k = 0 THEN head ELSE IF node[k - 1] = Null THEN Null ELSE next[node[k - 1]]

\* The numbers on the list after the dummy node, oldest first.
Contents ==
  LET length == Cardinality({k \in 1..Cardinality(Addr) : node[k] # Null})
  IN [k \in 1..length |-> elem[node[k]]]

Queue == INSTANCE Fifo WITH
  queue <- IF mainpc = "join" THEN Contents ELSE <<>>,
  pushed <- IF pushpc = "swing" THEN i + 1 ELSE i,
  open <- mainpc = "join"

\* The two threads and the list implement a first-in first-out queue.
ImplementsFifo == Queue!Spec
=============================================================================
