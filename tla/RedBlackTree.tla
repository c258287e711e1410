---------------------------- MODULE RedBlackTree ----------------------------
(***************************************************************************)
(* The red-black tree of code/tree/rbtree.c, as operators on a heap: T has *)
(* the root, per node the children, the parent and the key, the set of red *)
(* nodes and the set of nodes allocated. nil = 0 is the sentinel; it is    *)
(* never red, and its parent is written by deletions. The code spells out  *)
(* each case twice, once per side: here the side is a parameter.           *)
(***************************************************************************)
EXTENDS Naturals, Sequences, FiniteSetsExt

nil == 0
Side == {"left", "right"}
Other(s) == IF s = "left" THEN "right" ELSE "left"

\* The parent, and the side of its parent a node is on: the left one if it is
\* the left child, as the code tests.
Parent(T, x) == T.parent[x]
SideOf(T, x) == IF x = T.kid["left"][Parent(T, x)] THEN "left" ELSE "right"

SetColor(T, x, isred) == [T EXCEPT !.red = IF isred THEN @ \cup {x} ELSE @ \ {x}]
SetKid(T, x, s, y) == [T EXCEPT !.kid[s][x] = y]
SetParent(T, x, y) == [T EXCEPT !.parent[x] = y]

\* Make y the child x is, or the root. The code tests for the parent nil, which
\* only the root has (IsRedBlack).
Replace(T, x, y) ==
  IF x = T.root THEN [T EXCEPT !.root = y] ELSE SetKid(T, Parent(T, x), SideOf(T, x), y)

\* MUTANT Rotate: the inner subtree keeps its old parent.
RotateKeepingParent(T, x, s) ==
  LET y == T.kid[Other(s)][x]
      T1 == SetKid(T, x, Other(s), T.kid[s][y])
      T2 == Replace(SetParent(T1, y, Parent(T1, x)), x, y)
  IN SetParent(SetKid(T2, y, s, x), x, y)

\* rbtree_left_rotate is Rotate to the left, rbtree_right_rotate to the right.
Rotate(T, x, s) ==
  LET y == T.kid[Other(s)][x]
      inner == T.kid[s][y]
      T1 == SetKid(T, x, Other(s), inner)
      T2 == IF inner # nil THEN SetParent(T1, inner, x) ELSE T1
      T3 == Replace(SetParent(T2, y, Parent(T2, x)), x, y)
  IN SetParent(SetKid(T3, y, s, x), x, y)

\* One turn of the loop of rbtree_insert_fixup, or the black root at its end.
RECURSIVE InsertFixup(_, _)
InsertFixup(T, z) ==
  LET p == Parent(T, z)
      g == Parent(T, p)
      s == SideOf(T, p)
      uncle == T.kid[Other(s)][g]
      outer == IF z = T.kid[Other(s)][p] THEN p ELSE z
      T1 == IF outer # z THEN Rotate(T, p, s) ELSE T
      q == Parent(T1, outer)
      h == Parent(T1, q)
  IN IF z = T.root \/ p \notin T.red THEN SetColor(T, T.root, FALSE)
     ELSE IF uncle \in T.red
     THEN InsertFixup([T EXCEPT !.red = (@ \ {p, uncle}) \cup {g}], g)
     ELSE InsertFixup(Rotate([T1 EXCEPT !.red = (@ \ {q}) \cup {h}], h, Other(s)), outer)

\* The node with the key, or nil; and the last node on the way to it.
RECURSIVE Descend(_, _, _, _)
Descend(T, x, y, k) ==
  IF x = nil \/ T.key[x] = k THEN [at |-> x, last |-> y]
  ELSE Descend(T, T.kid[IF k < T.key[x] THEN "left" ELSE "right"][x], x, k)

rbtree_search(T, k) == Descend(T, T.root, nil, k).at

\* A node with a key that is there already is not inserted.
rbtree_insert(T, z, k) ==
  LET y == Descend(T, T.root, nil, k).last
      s == IF k < T.key[y] THEN "left" ELSE "right"
      new == [T EXCEPT !.key[z] = k, !.parent[z] = y, !.kid["left"][z] = nil, !.kid["right"][z] = nil,
                       !.red = @ \cup {z}, !.used = @ \cup {z}]
  IN IF rbtree_search(T, k) # nil THEN T
     ELSE InsertFixup(IF y = nil THEN [new EXCEPT !.root = z] ELSE SetKid(new, y, s, z), z)

\* One turn of the loop of rbtree_delete_fixup, or the black node at its end.
RECURSIVE DeleteFixup(_, _)
DeleteFixup(T, x) ==
  LET p == Parent(T, x)
      s == SideOf(T, x)
      w0 == T.kid[Other(s)][p]
      T1 == IF w0 \in T.red THEN Rotate([T EXCEPT !.red = (@ \ {w0}) \cup {p}], p, s) ELSE T
      w1 == T1.kid[Other(s)][p]
      near == T1.kid[s][w1]
      bothBlack == {near, T1.kid[Other(s)][w1]} \cap T1.red = {}
      T2 == IF T1.kid[Other(s)][w1] \notin T1.red
            THEN Rotate([T1 EXCEPT !.red = (@ \ {near}) \cup {w1}], w1, Other(s)) ELSE T1
      w2 == T2.kid[Other(s)][p]
      T3 == SetColor(SetColor(T2, w2, p \in T2.red), p, FALSE)
      T4 == SetColor(T3, T3.kid[Other(s)][w2], FALSE)
      T5 == Rotate(T4, p, s)
  IN IF x = T.root \/ x \in T.red THEN SetColor(T, x, FALSE)
     ELSE IF bothBlack THEN DeleteFixup(SetColor(T1, w1, TRUE), p)
     ELSE DeleteFixup(T5, T5.root)

RECURSIVE rbtree_mini(_, _)
rbtree_mini(T, x) == IF T.kid["left"][x] = nil THEN x ELSE rbtree_mini(T, T.kid["left"][x])

\* The climb, for a node without a right subtree.
RECURSIVE Climb(_, _, _)
Climb(T, x, y) == IF y # nil /\ x = T.kid["right"][y] THEN Climb(T, y, Parent(T, y)) ELSE y

rbtree_successor(T, x) ==
  IF T.kid["right"][x] # nil THEN rbtree_mini(T, T.kid["right"][x]) ELSE Climb(T, x, Parent(T, x))

\* Unlinks z, or its successor whose key z takes over; what is unlinked is
\* returned, and the caller frees it.
rbtree_delete(T, z) ==
  LET y == IF nil \in {T.kid["left"][z], T.kid["right"][z]} THEN z ELSE rbtree_successor(T, z)
      x == IF T.kid["left"][y] # nil THEN T.kid["left"][y] ELSE T.kid["right"][y]
      T1 == Replace(SetParent(T, x, Parent(T, y)), y, x)
      T2 == IF y # z THEN [T1 EXCEPT !.key[z] = T.key[y]] ELSE T1
      T3 == IF y \in T2.red THEN T2 ELSE DeleteFixup(T2, x)
  IN [T3 EXCEPT !.used = @ \ {y}, !.red = @ \ {y}]

rbtree_create(Nodes) ==
  [root |-> nil, kid |-> [s \in Side |-> [x \in Nodes \cup {nil} |-> nil]],
   parent |-> [x \in Nodes \cup {nil} |-> nil], key |-> [x \in Nodes \cup {nil} |-> 0],
   red |-> {}, used |-> {}]

\* The keys in the order of rbtree_traversal.
RECURSIVE rbtree_traversal(_, _)
rbtree_traversal(T, x) ==
  IF x = nil THEN <<>>
  ELSE rbtree_traversal(T, T.kid["left"][x]) \o <<T.key[x]>> \o rbtree_traversal(T, T.kid["right"][x])

----------------------------------------------------------------------------
\* What makes a heap a red-black tree, but for the parent of the root.

RECURSIVE NodesBelow(_, _)
NodesBelow(T, x) ==
  IF x = nil THEN {}
  ELSE {x} \cup NodesBelow(T, T.kid["left"][x]) \cup NodesBelow(T, T.kid["right"][x])

\* The numbers of black nodes on the ways from x down to the sentinel.
RECURSIVE BlackHeights(_, _)
BlackHeights(T, x) ==
  IF x = nil THEN {0}
  ELSE {h + (IF x \in T.red THEN 0 ELSE 1) :
          h \in BlackHeights(T, T.kid["left"][x]) \cup BlackHeights(T, T.kid["right"][x])}

IsRedBlack(T) ==
  /\ {nil, T.root} \cap T.red = {}
  /\ \A x \in T.red, s \in Side : T.kid[s][x] \notin T.red
  /\ Cardinality(BlackHeights(T, T.root)) = 1
  /\ NodesBelow(T, T.root) = T.used
  /\ \A x \in T.used, s \in Side : T.kid[s][x] # nil => T.parent[T.kid[s][x]] = x
=============================================================================
