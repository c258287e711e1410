-------------------------------- MODULE BTree --------------------------------
(***************************************************************************)
(* The B-tree of code/tree/b-tree.c. A node is its keys and its children;  *)
(* a leaf has none. The arrays of the code may keep old pointers behind    *)
(* the last child, which no operation reads. A freed node that is read, or *)
(* a root that is NULL, is Fault: the process is at the mercy of what the  *)
(* memory holds.                                                           *)
(***************************************************************************)
EXTENDS Integers, Sequences, SequencesExt

Leaf(keys) == [keys |-> keys, kids |-> <<>>]
btree_create == Leaf(<<>>)
NoRoot == Leaf(<<0>>)                     \* NULL; keys are positive
Fault == Leaf(<<-1>>)

\* Part of the keys, or of the children if there are any.
Slice(s, f, l) == IF s = <<>> THEN <<>> ELSE SubSeq(s, f, l)

IsLeaf(x) == x.kids = <<>>
NodeIsFull(x, t) == Len(x.keys) = 2 * t - 1
SetKids(x, i, y) == [x EXCEPT !.kids[i] = y]
ChangeKey(x, i, k) == [x EXCEPT !.keys[i] = k]

\* How many keys come before k: idx of the code.
KeysBefore(x, k) == Cardinality({i \in DOMAIN x.keys : x.keys[i] < k})
KeysUpTo(x, k) == Cardinality({i \in DOMAIN x.keys : x.keys[i] <= k})

\* The child i is cut in two around its middle key, which moves up.
btree_split_child(x, i, t) ==
  LET y == x.kids[i]
      part(f, l, fk, lk) == [keys |-> Slice(y.keys, f, l), kids |-> Slice(y.kids, fk, lk)]
  IN [keys |-> InsertAt(x.keys, i, y.keys[t]),
      kids |-> InsertAt(SetKids(x, i, part(1, t - 1, 1, t)).kids, i + 1, part(t + 1, 2 * t - 1, t + 1, 2 * t))]

RECURSIVE btree_insert_nonfull(_, _, _)
btree_insert_nonfull(x, k, t) ==
  LET i == KeysUpTo(x, k) + 1
      y == IF NodeIsFull(x.kids[i], t) THEN btree_split_child(x, i, t) ELSE x
      j == IF y # x /\ k > y.keys[i] THEN i + 1 ELSE i
  IN IF IsLeaf(x) THEN Leaf(InsertAt(x.keys, i, k))
     ELSE SetKids(y, j, btree_insert_nonfull(y.kids[j], k, t))

btree_insert(root, k, t) ==
  LET top == btree_split_child([keys |-> <<>>, kids |-> <<root>>], 1, t)
      i == IF top.keys[1] < k THEN 2 ELSE 1
  IN IF root = NoRoot THEN Fault
     ELSE IF NodeIsFull(root, t) THEN SetKids(top, i, btree_insert_nonfull(top.kids[i], k, t))
     ELSE btree_insert_nonfull(root, k, t)

\* The children i and i + 1 become one, with the key between them.
btree_merge(x, i) ==
  LET l == x.kids[i]
      r == x.kids[i + 1]
  IN [keys |-> RemoveAt(x.keys, i),
      kids |-> RemoveAt(SetKids(x, i, [keys |-> l.keys \o <<x.keys[i]>> \o r.keys,
                                       kids |-> l.kids \o r.kids]).kids, i + 1)]

\* Child i gets a key through x from the child behind it, or before it.
BorrowFromNext(x, i) ==
  LET c == x.kids[i]
      r == x.kids[i + 1]
      c1 == [keys |-> Append(c.keys, x.keys[i]), kids |-> c.kids \o Slice(r.kids, 1, 1)]
      r1 == [keys |-> Tail(r.keys), kids |-> Slice(r.kids, 2, Len(r.kids))]
  IN SetKids(SetKids(ChangeKey(x, i, Head(r.keys)), i, c1), i + 1, r1)

BorrowFromPrev(x, i) ==
  LET c == x.kids[i]
      l == x.kids[i - 1]
      c1 == [keys |-> <<x.keys[i - 1]>> \o c.keys, kids |-> Slice(l.kids, Len(l.kids), Len(l.kids)) \o c.kids]
      l1 == [keys |-> Front(l.keys), kids |-> Slice(l.kids, 1, Len(l.kids) - 1)]
  IN SetKids(SetKids(ChangeKey(x, i - 1, Last(l.keys)), i, c1), i - 1, l1)

\* x with a child i that may lose a key, and where that child is then.
Refill(x, i, t) ==
  LET left == IF i > 1 THEN Len(x.kids[i - 1].keys) ELSE 0
      right == IF i < Len(x.kids) THEN Len(x.kids[i + 1].keys) ELSE 0
      richR == right > 0 /\ (left = 0 \/ right > left)
  IN IF Len(x.kids[i].keys) # t - 1 THEN [node |-> x, at |-> i]
     ELSE IF left >= t \/ right >= t
     THEN [node |-> IF right >= t /\ richR THEN BorrowFromNext(x, i) ELSE BorrowFromPrev(x, i), at |-> i]
     ELSE IF left = t - 1 THEN [node |-> btree_merge(x, i - 1), at |-> i - 1]
     ELSE [node |-> btree_merge(x, i), at |-> i]

\* Goes on below child i of x. A merge that has emptied x has made the child
\* the root and freed x.
Below(x, i, y) ==
  IF y = Fault THEN Fault ELSE IF x.keys = <<>> THEN y ELSE SetKids(x, i, y)

RECURSIVE btree_delete_key(_, _, _)
btree_delete_key(x, k, t) ==
  LET i == KeysBefore(x, k) + 1
      found == i <= Len(x.keys) /\ x.keys[i] = k
      before == Last(x.kids[i].keys)
      after == Head(x.kids[i + 1].keys)
      r == Refill(x, i, t)
  IN IF IsLeaf(x) THEN IF found THEN Leaf(RemoveAt(x.keys, i)) ELSE x
     ELSE IF ~ found THEN Below(r.node, r.at, btree_delete_key(r.node.kids[r.at], k, t))
     ELSE IF Len(x.kids[i].keys) >= t
     THEN Below(ChangeKey(x, i, before), i, btree_delete_key(x.kids[i], before, t))
     ELSE IF Len(x.kids[i + 1].keys) >= t
     THEN Below(ChangeKey(x, i, after), i + 1, btree_delete_key(x.kids[i + 1], after, t))
     ELSE IF Len(x.keys) = 1 THEN Fault    \* node->childrens[idx] after the node was freed
     ELSE LET m == btree_merge(x, i) IN Below(m, i, btree_delete_key(m.kids[i], k, t))

\* A root whose last key goes is freed and becomes NULL.
btree_delete(root, k, t) ==
  IF root = NoRoot THEN root
  ELSE IF root = Leaf(<<k>>) THEN NoRoot
  ELSE btree_delete_key(root, k, t)

RECURSIVE btree_traverse(_)
btree_traverse(x) ==
  IF IsLeaf(x) THEN x.keys
  ELSE FlattenSeq([i \in DOMAIN x.keys |-> Append(btree_traverse(x.kids[i]), x.keys[i])])
       \o btree_traverse(Last(x.kids))

----------------------------------------------------------------------------
RECURSIVE Depths(_)
Depths(x) == IF IsLeaf(x) THEN {0} ELSE {d + 1 : d \in UNION {Depths(x.kids[i]) : i \in DOMAIN x.kids}}

RECURSIVE Filled(_, _, _)
Filled(x, t, least) ==
  /\ Len(x.keys) \in least..(2 * t - 1)
  /\ IsLeaf(x) \/ Len(x.kids) = Len(x.keys) + 1
  /\ \A i \in DOMAIN x.kids : Filled(x.kids[i], t, t - 1)

\* All leaves at one depth, every node but the root at least half full.
IsBalanced(root, t) == Cardinality(Depths(root)) = 1 /\ Filled(root, t, 0)

\* The deletion of k replaces a key of an inner node by the nearest key of a
\* child that is no leaf: not its neighbour in order.
RECURSIVE Misplaces(_, _, _)
Misplaces(x, k, t) ==
  LET i == KeysBefore(x, k) + 1
      found == i <= Len(x.keys) /\ x.keys[i] = k
      r == Refill(x, i, t)
  IN /\ ~ IsLeaf(x)
     /\ IF ~ found THEN Misplaces(r.node.kids[r.at], k, t)
        ELSE IF \E j \in {i, i + 1} : Len(x.kids[j].keys) >= t THEN ~ IsLeaf(x.kids[i])
        ELSE Len(x.keys) > 1 /\ Misplaces(btree_merge(x, i).kids[i], k, t)
=============================================================================
