------------------------------- MODULE Designs -------------------------------
(***************************************************************************)
(* The data structures among the solutions in leetcode/: each operation of *)
(* a class as a function of what the object holds (own), next to what its  *)
(* user may expect of it (ideal). A call returns the answers of both.      *)
(***************************************************************************)
EXTENDS Integers, Sequences, FiniteSets, SequencesExt, Functions

CONSTANTS DesignValues,      \* positive numbers: values and keys
          DesignCapacity,    \* of caches and of the circular queue
          DesignBound        \* bound: elements in what has no capacity

ASSUME DesignAssumption ==
  /\ DesignValues \subseteq Nat \ {0} /\ DesignCapacity \in Nat \ {0} /\ DesignBound \in Nat

VARIABLES design, own, ideal, returned

designVars == <<design, own, ideal, returned>>

None0 == 0                   \* a null pointer, or the end of a map
Result(o, out) == [own |-> o, out |-> out]

----------------------------------------------------------------------------
(* 146: a list of pairs in order of use and a map from keys to its nodes. *)

FirstFree(used) == CHOOSE x \in 1..(Cardinality(used) + 1) : x \notin used /\ \A y \in 1..(x - 1) : y \in used
PushFront(o, key, value) ==
  LET id == FirstFree({o.list[k].id : k \in DOMAIN o.list})
  IN [list |-> <<[id |-> id, key |-> key, value |-> value]>> \o o.list, map |-> [o.map EXCEPT ![key] = id]]
NodeOf(o, id) == CHOOSE k \in DOMAIN o.list : o.list[k].id = id
Erase(o, id) == [o EXCEPT !.list = RemoveAt(@, NodeOf(o, id))]
LruGet(o, key) ==
  IF o.map[key] = None0 THEN Result(o, -1)
  ELSE LET kv == o.list[NodeOf(o, o.map[key])]
       IN Result(PushFront(Erase(o, o.map[key]), key, kv.value), kv.value)
LruPut(o, key, value) ==
  LET held == {k \in DesignValues : o.map[k] # None0}
      made == IF o.map[key] # None0 THEN Erase(o, o.map[key])
              ELSE IF Cardinality(held) >= DesignCapacity
              THEN [list |-> Front(o.list), map |-> [o.map EXCEPT ![Last(o.list).key] = None0]]
              ELSE o
  IN Result(PushFront(made, key, value), 0)

(* 146 again: a ring of nodes around dummy_, which is node 0. *)

UnlinkNode(o, n) == [o EXCEPT !.next[o.prev[n]] = o.next[n], !.prev[o.next[n]] = o.prev[n]]
LinkFront(o, n) ==
  LET first == o.next[0]
      own0 == [o EXCEPT !.prev[n] = 0, !.next[n] = first]
  IN [[own0 EXCEPT !.prev[first] = n] EXCEPT !.next[0] = n]
GetNode(o, key) == IF o.nodes[key] = None0 THEN o ELSE LinkFront(UnlinkNode(o, o.nodes[key]), o.nodes[key])
RingGet(o, key) == Result(GetNode(o, key), IF o.nodes[key] = None0 THEN -1 ELSE o.value[o.nodes[key]])

\* MUTANT Evict: the node goes, its key stays.
EvictKeepingKey(o) == LET n == o.prev[0] IN [UnlinkNode(o, n) EXCEPT !.live = @ \ {n}]
\* The last node goes when there are more than cap_.
Evict(o) ==
  LET n == o.prev[0]
  IN [UnlinkNode([o EXCEPT !.nodes[o.key[n]] = None0], n) EXCEPT !.live = @ \ {n}]
RingPut(o, key, value) ==
  LET n == FirstFree(o.live)
      new == LinkFront([o EXCEPT !.key[n] = key, !.value[n] = value, !.nodes[key] = n, !.live = @ \cup {n}], n)
  IN Result(IF o.nodes[key] # None0 THEN [GetNode(o, key) EXCEPT !.value[o.nodes[key]] = value]
            ELSE IF Cardinality({k \in DesignValues : new.nodes[k] # None0}) > DesignCapacity THEN Evict(new)
            ELSE new, 0)

\* What users of both expect: pairs, the one used last in front.
HasPair(pairs, key) == \E k \in DOMAIN pairs : pairs[k][1] = key
PairOf(pairs, key) == CHOOSE k \in DOMAIN pairs : pairs[k][1] = key
Without(pairs, key) == IF HasPair(pairs, key) THEN RemoveAt(pairs, PairOf(pairs, key)) ELSE pairs
IdealGet(pairs, key) ==
  IF HasPair(pairs, key)
  THEN LET p == pairs[PairOf(pairs, key)] IN Result(<<p>> \o Without(pairs, key), p[2])
  ELSE Result(pairs, -1)
IdealPut(pairs, key, value) ==
  LET used == <<<<key, value>>>> \o Without(pairs, key)
  IN Result(SubSeq(used, 1, IF Len(used) > DesignCapacity THEN DesignCapacity ELSE Len(used)), 0)

----------------------------------------------------------------------------
(* 707: a chain of nodes behind dummy_, node 0, whose end is -1. *)

Walked(o, steps) ==
  LET cur[k \in 0..steps] == IF k = 0 THEN 0 ELSE o.next[cur[k - 1]] IN cur[steps]
LinkAfter(o, cur, val) ==
  LET n == FirstFree(o.live)
  IN Result([val |-> [o.val EXCEPT ![n] = val], live |-> o.live \cup {n}, size_ |-> o.size_ + 1,
             next |-> [o.next EXCEPT ![n] = o.next[cur], ![cur] = n]], 0)
ListGet(o, index) == Result(o, IF index >= o.size_ THEN -1 ELSE o.val[o.next[Walked(o, index)]])
AddAtTail(o, val) == LinkAfter(o, CHOOSE n \in o.live \cup {0} : o.next[n] = -1, val)
AddAtIndex(o, index, val) == IF index > o.size_ THEN Result(o, 0) ELSE LinkAfter(o, Walked(o, index), val)
DeleteAtIndex(o, index) ==
  LET cur == Walked(o, index)
      d == o.next[cur]
  IN IF index >= o.size_ THEN Result(o, 0)
     ELSE Result([val |-> o.val, live |-> o.live \ {d}, size_ |-> o.size_ - 1,
                  next |-> [o.next EXCEPT ![cur] = o.next[d]]], 0)

(* 622: a ring buffer of k cells. *)

IsEmpty(o) == o.used = 0
IsFull(o) == o.used >= DesignCapacity
EnQueue(o, value) ==
  IF IsFull(o) THEN Result(o, FALSE)
  ELSE Result([o EXCEPT !.used = @ + 1, !.data[o.rear] = value, !.rear = (@ + 1) % DesignCapacity], TRUE)
DeQueue(o) ==
  IF IsEmpty(o) THEN Result(o, FALSE) ELSE Result([o EXCEPT !.used = @ - 1, !.front = (@ + 1) % DesignCapacity], TRUE)
QueueFront(o) == Result(o, IF IsEmpty(o) THEN -1 ELSE o.data[o.front % DesignCapacity])
QueueRear(o) == Result(o, IF IsEmpty(o) THEN -1 ELSE o.data[(o.rear - 1 + DesignCapacity) % DesignCapacity])

(* 155: a stack and the stack of its minima. *)

MinPush(o, val) ==
  Result([data |-> Append(o.data, val),
          sort |-> Append(o.sort, IF o.sort # <<>> /\ Last(o.sort) <= val THEN Last(o.sort) ELSE val)], 0)
MinPop(o) == IF o.data = <<>> THEN Result(o, 0) ELSE Result([data |-> Front(o.data), sort |-> Front(o.sort)], 0)
MinTop(o) == Result(o, IF o.data = <<>> THEN -1 ELSE Last(o.data))
GetMin(o) == Result(o, IF o.sort = <<>> THEN -1 ELSE Last(o.sort))

(* 225: a stack in a queue, which pop turns until the last is in front. *)

StackPop(que) ==
  LET turned == SubSeq(que, Len(que), Len(que)) \o SubSeq(que, 1, Len(que) - 1)
  IN Result(Tail(turned), Head(turned))
StackTop(que) == LET popped == StackPop(que) IN Result(Append(popped.own, popped.out), popped.out)

(* 232: a queue in two stacks. *)

Peek(o) ==
  LET moved == IF o.out = <<>> THEN [in |-> <<>>, out |-> Reverse(o.in)] ELSE o
  IN IF o.in = <<>> /\ o.out = <<>> THEN Result(o, -1) ELSE Result(moved, Last(moved.out))
QueuePop(o) ==
  LET peeked == Peek(o)
  IN IF peeked.out = -1 THEN peeked ELSE Result([peeked.own EXCEPT !.out = Front(@)], peeked.out)

(* 380: an array, and a map from values to their places in it. *)

SetInsert(o, val) ==
  IF o.maps[val] # None0 THEN Result(o, FALSE)
  ELSE Result([nums |-> Append(o.nums, val), maps |-> [o.maps EXCEPT ![val] = Len(o.nums) + 1]], TRUE)
SetRemove(o, val) ==
  LET index == o.maps[val]
      last == Last(o.nums)
  IN IF index = None0 THEN Result(o, FALSE)
     ELSE Result([nums |-> Front([o.nums EXCEPT ![index] = last]),
                  maps |-> [[o.maps EXCEPT ![last] = index] EXCEPT ![val] = None0]], TRUE)

(* 519: cells 0 to 3 of a matrix; map holds what stands for a cell drawn. *)

Cells == 0..3
Flip(o, x) ==
  LET total == o.total - 1
      Mapped(c) == IF o.map[c] = -1 THEN c ELSE o.map[c]
  IN Result([total |-> total, map |-> [o.map EXCEPT ![x] = Mapped(total)]], Mapped(x))

(* 919: a complete tree of numbered nodes, and the queue of those without two children. *)

InsertLevel(o) ==
  LET node == Head(o.que_)
      inode == o.count + 1
  IN IF o.left[node] = None0
     THEN Result([left |-> [o.left EXCEPT ![node] = inode], right |-> o.right,
                  que_ |-> Append(o.que_, inode), count |-> inode], node)
     ELSE Result([left |-> o.left, right |-> [o.right EXCEPT ![node] = inode],
                  que_ |-> Append(Tail(o.que_), inode), count |-> inode], node)

----------------------------------------------------------------------------
Nodes0 == 0..(DesignCapacity + 1)
Empty ==
  [lru |-> [list |-> <<>>, map |-> [k \in DesignValues |-> None0]],
   ring |-> [prev |-> [n \in Nodes0 |-> 0], next |-> [n \in Nodes0 |-> 0], key |-> [n \in Nodes0 |-> 0],
             value |-> [n \in Nodes0 |-> 0], nodes |-> [k \in DesignValues |-> None0], live |-> {}],
   list |-> [next |-> [n \in 0..DesignBound |-> -1], val |-> [n \in 0..DesignBound |-> 0], live |-> {}, size_ |-> 0],
   circular |-> [data |-> [n \in 0..(DesignCapacity - 1) |-> 0], used |-> 0, front |-> 0, rear |-> 0],
   minstack |-> [data |-> <<>>, sort |-> <<>>],
   stack |-> <<>>,
   queue |-> [in |-> <<>>, out |-> <<>>],
   set |-> [nums |-> <<>>, maps |-> [k \in DesignValues |-> None0]],
   flip |-> [total |-> 4, map |-> [c \in Cells |-> -1]],
   tree |-> [left |-> [n \in 1..(DesignBound + 1) |-> None0], right |-> [n \in 1..(DesignBound + 1) |-> None0],
             que_ |-> <<1>>, count |-> 1]]

\* The objects start empty, the tree with its root.
DesignInit(designs) ==
  /\ design \in designs /\ own = Empty[design]
  /\ ideal = CASE design \in {"set", "flip"} -> {} [] design = "tree" -> 1 [] OTHER -> <<>>
  /\ returned = [got |-> 0, due |-> 0]

\* One call: what the object does, and what is due.
Calls(result, due) ==
  /\ own' = result.own /\ ideal' = due.own /\ returned' = [got |-> result.out, due |-> due.out]
  /\ UNCHANGED design

HasRoom == Len(ideal) < DesignBound
DueTop(otherwise) == IF ideal = <<>> THEN otherwise ELSE Last(ideal)
DueFirst(otherwise) == IF ideal = <<>> THEN otherwise ELSE Head(ideal)
DueLess == IF ideal = <<>> THEN <<>> ELSE Front(ideal)
DueRest == IF ideal = <<>> THEN <<>> ELSE Tail(ideal)
Least == CHOOSE v \in ToSet(ideal) : \A w \in ToSet(ideal) : v <= w

CallCache(key, value) ==
  \/ design = "lru" /\ (Calls(LruGet(own, key), IdealGet(ideal, key)) \/ Calls(LruPut(own, key, value), IdealPut(ideal, key, value)))
  \/ design = "ring" /\ (Calls(RingGet(own, key), IdealGet(ideal, key)) \/ Calls(RingPut(own, key, value), IdealPut(ideal, key, value)))
CallList(index, v) ==
  /\ design = "list"
  /\ \/ Calls(ListGet(own, index), Result(ideal, IF index < Len(ideal) THEN ideal[index + 1] ELSE -1))
     \/ HasRoom /\ Calls(LinkAfter(own, 0, v), Result(<<v>> \o ideal, 0))
     \/ HasRoom /\ Calls(AddAtTail(own, v), Result(Append(ideal, v), 0))
     \/ HasRoom /\ Calls(AddAtIndex(own, index, v), Result(IF index > Len(ideal) THEN ideal ELSE InsertAt(ideal, index + 1, v), 0))
     \/ Calls(DeleteAtIndex(own, index), Result(IF index >= Len(ideal) THEN ideal ELSE RemoveAt(ideal, index + 1), 0))
CallCircular(v) ==
  /\ design = "circular"
  /\ \/ Calls(EnQueue(own, v), IF Len(ideal) < DesignCapacity THEN Result(Append(ideal, v), TRUE) ELSE Result(ideal, FALSE))
     \/ Calls(DeQueue(own), Result(DueRest, ideal # <<>>))
     \/ Calls(QueueFront(own), Result(ideal, DueFirst(-1))) \/ Calls(QueueRear(own), Result(ideal, DueTop(-1)))
CallMinStack(v) ==
  /\ design = "minstack"
  /\ \/ HasRoom /\ Calls(MinPush(own, v), Result(Append(ideal, v), 0))
     \/ Calls(MinPop(own), Result(DueLess, 0)) \/ Calls(MinTop(own), Result(ideal, DueTop(-1)))
     \/ Calls(GetMin(own), Result(ideal, IF ideal = <<>> THEN -1 ELSE Least))
CallStack(v) ==
  /\ design = "stack"
  /\ \/ HasRoom /\ Calls(Result(Append(own, v), 0), Result(Append(ideal, v), 0))
     \/ ideal # <<>> /\ (Calls(StackPop(own), Result(Front(ideal), Last(ideal))) \/ Calls(StackTop(own), Result(ideal, Last(ideal))))
     \/ Calls(Result(own, own = <<>>), Result(ideal, ideal = <<>>))
CallQueue(v) ==
  /\ design = "queue"
  /\ \/ HasRoom /\ Calls(Result([own EXCEPT !.in = Append(@, v)], 0), Result(Append(ideal, v), 0))
     \/ Calls(Peek(own), Result(ideal, DueFirst(-1))) \/ Calls(QueuePop(own), Result(DueRest, DueFirst(-1)))
CallSet(v) ==
  /\ design = "set"
  /\ \/ Calls(SetInsert(own, v), Result(ideal \cup {v}, v \notin ideal))
     \/ Calls(SetRemove(own, v), Result(ideal \ {v}, v \in ideal))
     \/ \E k \in DOMAIN own.nums : Calls(Result(own, own.nums[k] \in ideal), Result(ideal, TRUE))
CallFlip ==
  /\ design = "flip"
  /\ \/ own.total > 0 /\ \E x \in 0..(own.total - 1) :
          LET flipped == Flip(own, x)
          IN Calls([flipped EXCEPT !.out = @ \in Cells \ ideal], Result(ideal \cup {flipped.out}, TRUE))
     \/ Calls(Result(Empty.flip, TRUE), Result({}, TRUE))
CallTree == design = "tree" /\ ideal <= DesignBound /\ Calls(InsertLevel(own), Result(ideal + 1, (ideal + 1) \div 2))

DesignNext ==
  \/ CallFlip \/ CallTree
  \/ \E v \in DesignValues : CallCircular(v) \/ CallMinStack(v) \/ CallStack(v) \/ CallQueue(v) \/ CallSet(v)
  \/ \E key, value \in DesignValues : CallCache(key, value)
  \/ \E index \in 0..DesignBound, v \in DesignValues : CallList(index, v)

----------------------------------------------------------------------------
\* Every call returns what its user may expect after all the calls before, and
\* the maps of the caches name the nodes that exist and no others.
DesignsKeepTheirPromise ==
  /\ returned.got = returned.due
  /\ design = "lru" => \A k \in DesignValues :
       own.map[k] # None0 <=> \E n \in ToSet(own.list) : n.id = own.map[k] /\ n.key = k
  /\ design = "ring" => {own.nodes[k] : k \in DesignValues} \ {None0} = own.live
=============================================================================
