----------------------------- MODULE OrderedSet -----------------------------
(***************************************************************************)
(* The search trees of code/tree, each driven by the insertions and        *)
(* deletions it offers and compared with the bag of keys it should hold:   *)
(* the binary tree of btree.c, the red-black tree of rbtree.c and the      *)
(* B-tree of b-tree.c.                                                     *)
(***************************************************************************)
EXTENDS RedBlackTree, BTree

CONSTANTS BinaryKeys, RedBlackKeys, BTreeKeys,   \* sets of positive numbers
          TreeKinds      \* pairs of a kind and the t of btree_create

ASSUME OrderedSetAssumption ==
  /\ (BinaryKeys \cup RedBlackKeys \cup BTreeKeys) \subseteq Nat \ {0}
  /\ TreeKinds \subseteq {"binary", "redblack", "btree"} \X (Nat \ {0, 1})

VARIABLES treeKind,      \* "binary", "redblack" or "btree"
          tree,          \* what the kind keeps
          degree,        \* T->t of the B-tree
          contents,      \* how often each key should be in the tree
          misplaced      \* a deletion put a key in the wrong place

treeVars == <<treeKind, tree, degree, contents, misplaced>>

TreeKeys == CASE treeKind = "binary" -> BinaryKeys
          [] treeKind = "redblack" -> RedBlackKeys
          [] treeKind = "btree" -> BTreeKeys

\* bstree_insert: a leaf is added on the way of the key; equal keys go right.
RECURSIVE bstree_insert(_, _)
bstree_insert(x, k) ==
  IF x = <<>> THEN [left |-> <<>>, data |-> k, right |-> <<>>]
  ELSE IF k < x.data THEN [x EXCEPT !.left = bstree_insert(@, k)]
  ELSE [x EXCEPT !.right = bstree_insert(@, k)]

RECURSIVE bstree_traversal(_)
bstree_traversal(x) ==
  IF x = <<>> THEN <<>> ELSE bstree_traversal(x.left) \o <<x.data>> \o bstree_traversal(x.right)

InOrder ==
  CASE treeKind = "binary" -> bstree_traversal(tree)
    [] treeKind = "redblack" -> rbtree_traversal(tree, tree.root)
    [] treeKind = "btree" -> btree_traverse(tree)

\* The same heap with each node renamed after the key it holds: addresses are
\* only compared for equality, and the parent of the sentinel is read only
\* after it was written.
ByKey(T) ==
  LET name(x) == IF x = nil THEN nil ELSE T.key[x]
      at(k) == CHOOSE x \in T.used : T.key[x] = k
      names == {name(x) : x \in T.used}
      renamed(f) == [k \in DOMAIN f |-> IF k \in names THEN name(f[at(k)]) ELSE nil]
  IN [root |-> name(T.root), kid |-> [s \in Side |-> renamed(T.kid[s])], parent |-> renamed(T.parent),
      key |-> [k \in DOMAIN T.key |-> IF k \in names THEN k ELSE 0],
      red |-> {name(x) : x \in T.red}, used |-> names]

IsFault == treeKind = "btree" /\ tree = Fault

\* The B-tree is followed to the first fault or misplaced key: an unordered
\* tree may collect copies of keys without bound.
TreeInUse == tree # Fault /\ ~ misplaced

OrderedSetInit(kinds) ==
  /\ \E kind \in kinds : treeKind = kind[1] /\ degree = kind[2]
  /\ tree = CASE treeKind = "binary" -> <<>>
              [] treeKind = "redblack" -> rbtree_create(RedBlackKeys)
              [] treeKind = "btree" -> btree_create
  /\ contents = [k \in TreeKeys |-> 0]
  /\ misplaced = FALSE

InsertBinary(k) ==
  /\ treeKind = "binary" /\ contents[k] < 2
  /\ tree' = bstree_insert(tree, k)
  /\ contents' = [contents EXCEPT ![k] = @ + 1]
  /\ UNCHANGED <<treeKind, degree, misplaced>>

\* A key that is there is not inserted again.
InsertRedBlack(k) ==
  /\ treeKind = "redblack"
  /\ tree' = rbtree_insert(tree, k, k)
  /\ contents' = [contents EXCEPT ![k] = 1]
  /\ UNCHANGED <<treeKind, degree, misplaced>>

InsertBTree(k) ==
  /\ treeKind = "btree" /\ contents[k] = 0 /\ TreeInUse
  /\ tree' = btree_insert(tree, k, degree)
  /\ contents' = [contents EXCEPT ![k] = 1]
  /\ UNCHANGED <<treeKind, degree, misplaced>>

\* main searches for the key, deletes the node it finds and frees what
\* rbtree_delete returns.
DeleteRedBlack(k) ==
  /\ treeKind = "redblack" /\ rbtree_search(tree, k) # nil
  /\ tree' = ByKey(rbtree_delete(tree, rbtree_search(tree, k)))
  /\ contents' = [contents EXCEPT ![k] = 0]
  /\ UNCHANGED <<treeKind, degree, misplaced>>

DeleteBTree(k) ==
  /\ treeKind = "btree" /\ TreeInUse
  /\ tree' = btree_delete(tree, k, degree)
  /\ contents' = [contents EXCEPT ![k] = 0]
  /\ misplaced' = (misplaced \/ (tree # NoRoot /\ Misplaces(tree, k, degree)))
  /\ UNCHANGED <<treeKind, degree>>

OrderedSetNext ==
  \E k \in TreeKeys :
    \/ InsertBinary(k) \/ InsertRedBlack(k) \/ InsertBTree(k)
    \/ DeleteRedBlack(k) \/ DeleteBTree(k)

----------------------------------------------------------------------------
\* A traversal visits exactly the keys that were inserted and not deleted, in
\* ascending order. In the B-tree that ends with the first deletion that
\* replaces a key by one that is not its neighbour (b-tree.c:279).
TreeHoldsContents ==
  \/ IsFault \/ misplaced
  \/ LET s == IF tree = NoRoot THEN <<>> ELSE InOrder
     IN /\ \A i, j \in DOMAIN s : i < j => s[i] <= s[j]
        /\ \A k \in TreeKeys : Cardinality({i \in DOMAIN s : s[i] = k}) = contents[k]
        /\ \A i \in DOMAIN s : s[i] \in TreeKeys

\* The red-black tree keeps its colours, heights and parents (rbtree.c:123,
\* 223), the B-tree its depth and its half-full nodes (b-tree.c:215).
TreeBalanced ==
  CASE treeKind = "binary" -> TRUE
    [] treeKind = "redblack" -> IsRedBlack(tree) /\ tree.parent[tree.root] = nil
    [] treeKind = "btree" -> tree \in {Fault, NoRoot} \/ IsBalanced(tree, degree)

\* The B-tree goes wrong in two ways only: the root is NULL after its last key
\* was deleted and a key is inserted (b-tree.c:130), or the only key of the
\* root is deleted while both its children are as small as they may be
\* (b-tree.c:301).
FaultsKnown ==
  treeKind = "btree" /\ tree' = Fault /\ tree # Fault =>
    \/ tree = NoRoot
    \/ /\ Len(tree.keys) = 1 /\ contents'[tree.keys[1]] = 0
       /\ \A i \in DOMAIN tree.kids : Len(tree.kids[i].keys) = degree - 1

\* Every insertion and deletion leaves a search tree of the right shape that
\* holds the right keys, and the known faults are the only ones.
TreesKept == [][TreeHoldsContents' /\ TreeBalanced' /\ FaultsKnown]_treeVars
=============================================================================
