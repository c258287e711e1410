--------------------------- MODULE TreeExercises ---------------------------
(***************************************************************************)
(* The solutions in leetcode/ about binary trees, as operators, and below  *)
(* them what the exercises ask for. A tree is Nil or <<val, left, right>>; *)
(* a queue or stack of nodes is a sequence of trees.                       *)
(***************************************************************************)
EXTENDS Integers, Sequences, FiniteSets, SequencesExt, FiniteSetsExt, Functions

Nil == <<>>
Val(t) == t[1]
Left(t) == t[2]
Right(t) == t[3]
Kid(t) == IF t = Nil THEN <<>> ELSE <<t>>         \* if (t != nullptr) push(t)
Kids(t) == Kid(Left(t)) \o Kid(Right(t))
IsLeaf(t) == Left(t) = Nil /\ Right(t) = Nil

----------------------------------------------------------------------------
(* 144, 145, 94: traversals with a stack, whose top is its last element. *)

RECURSIVE PreLoop(_, _), PostLoop(_, _), InLoop(_, _, _)
PreLoop(st, result) ==
  IF st = <<>> THEN result
  ELSE LET node == Last(st)
       IN PreLoop(Front(st) \o Kid(Right(node)) \o Kid(Left(node)), Append(result, Val(node)))
preorderTraversal(root) == PreLoop(Kid(root), <<>>)

PostLoop(st, result) ==
  IF st = <<>> THEN Reverse(result)
  ELSE LET node == Last(st) IN PostLoop(Front(st) \o Kids(node), Append(result, Val(node)))
postorderTraversal(root) == PostLoop(Kid(root), <<>>)

InLoop(cur, st, result) ==
  IF cur # Nil THEN InLoop(Left(cur), Append(st, cur), result)
  ELSE IF st = <<>> THEN result
  ELSE InLoop(Right(Last(st)), Front(st), Append(result, Val(Last(st))))
inorderTraversal(root) == InLoop(root, <<>>, <<>>)

(* 104, 111, 102, 103, 199, 513, 117: the queue before each turn of the    *)
(* outer loop, which takes that many nodes and puts in their children.     *)

RECURSIVE Turns(_)
Turns(qu) ==
  IF qu = <<>> THEN <<>> ELSE <<qu>> \o Turns(FlattenSeq([i \in DOMAIN qu |-> Kids(qu[i])]))
Vals(qu) == [i \in DOMAIN qu |-> Val(qu[i])]

maxDepth(root) == Len(Turns(Kid(root)))
minDepth(root) ==
  LET turns == Turns(Kid(root))
      HasLeaf(h) == \E i \in DOMAIN turns[h] : IsLeaf(turns[h][i])
  IN IF root = Nil THEN 0
     ELSE CHOOSE h \in DOMAIN turns : HasLeaf(h) /\ \A before \in 1..(h - 1) : ~HasLeaf(before)
levelOrder(root) == LET turns == Turns(Kid(root)) IN [h \in DOMAIN turns |-> Vals(turns[h])]
zigzagLevelOrder(root) ==
  LET turns == Turns(Kid(root))
  IN [h \in DOMAIN turns |-> IF h % 2 = 1 THEN Vals(turns[h]) ELSE Reverse(Vals(turns[h]))]
rightSideView(root) == LET turns == Turns(Kid(root)) IN [h \in DOMAIN turns |-> Val(Last(turns[h]))]
findBottomLeftValue(root) == Val(Head(Last(Turns(<<root>>))))
\* The next pointers that were set, as pairs.
connect(root) ==
  LET turns == Turns(Kid(root))
  IN UNION {{<<Val(turns[h][i]), Val(turns[h][i + 1])>> : i \in 1..(Len(turns[h]) - 1)} : h \in DOMAIN turns}

(* 226: the children of each node, 0 for none, swapped in the tree. *)

RECURSIVE SwapLoop(_, _)
SwapLoop(st, children) ==
  IF st = <<>> THEN children
  ELSE LET node == Last(st)
           left == children[node][1]
           right == children[node][2]
       IN SwapLoop(Front(st) \o SelectSeq(<<right, left>>, LAMBDA n : n # 0),
                   [children EXCEPT ![node] = <<right, left>>])
ValOr0(t) == IF t = Nil THEN 0 ELSE Val(t)
RECURSIVE Subtrees(_)
Subtrees(t) == IF t = Nil THEN {} ELSE {t} \cup Subtrees(Left(t)) \cup Subtrees(Right(t))
Children(root) ==
  LET Of(v) == CHOOSE t \in Subtrees(root) : Val(t) = v
  IN [v \in {Val(t) : t \in Subtrees(root)} |-> <<ValOr0(Left(Of(v))), ValOr0(Right(Of(v)))>>]
invertTree(root) == SwapLoop(Vals(Kid(root)), Children(root))

(* 113, 257: paths to leaves, kept in a vector that grows and shrinks. *)

RECURSIVE track(_, _, _, _), travel(_, _)
track(root, sum, targetSum, tracks) ==
  IF root = Nil THEN <<>>
  ELSE LET new == Append(tracks, Val(root))
       IN IF IsLeaf(root) THEN (IF sum + Val(root) = targetSum THEN <<new>> ELSE <<>>)
          ELSE track(Left(root), sum + Val(root), targetSum, new) \o track(Right(root), sum + Val(root), targetSum, new)
pathSum(root, targetSum) == track(root, 0, targetSum, <<>>)
travel(root, nodes) ==
  LET new == Append(nodes, Val(root))
      Below(t) == IF t # Nil THEN travel(t, new) ELSE <<>>
  IN (IF IsLeaf(root) THEN <<new>> ELSE <<>>) \o Below(Left(root)) \o Below(Right(root))
binaryTreePaths(root) == travel(root, <<>>)

(* 501, 99, 450: search trees. *)

RECURSIVE find(_, _), dsf(_, _), deleteNode(_, _), HangLeftmost(_, _)
find(root, s) ==
  IF root = Nil THEN s
  ELSE LET l == find(Left(root), s)
           count == IF l.pre = Val(root) THEN l.count + 1 ELSE 1
           nums == IF count > l.maxcount THEN <<Val(root)>>
                   ELSE IF count = l.maxcount THEN Append(l.nums, Val(root)) ELSE l.nums
       IN find(Right(root), [pre |-> Val(root), count |-> count, nums |-> nums,
                             maxcount |-> IF count > l.maxcount THEN count ELSE l.maxcount])
findMode(root) == find(root, [pre |-> 0, count |-> 0, nums |-> <<>>, maxcount |-> -1]).nums

\* pre, n1 and n2 are values, 0 for nullptr; the second drop ends the walk of a subtree.
dsf(root, s) ==
  IF root = Nil THEN s
  ELSE LET l == dsf(Left(root), s)
           drop == l.pre # 0 /\ l.pre > Val(root)
           found == IF drop THEN [l EXCEPT !.n2 = Val(root), !.n1 = IF l.n1 = 0 THEN l.pre ELSE l.n1] ELSE l
       IN IF drop /\ l.n1 # 0 THEN found ELSE dsf(Right(root), [found EXCEPT !.pre = Val(root)])
\* The values in order after the values of n1 and n2 were swapped.
recoverTree(root) ==
  LET s == dsf(root, [pre |-> 0, n1 |-> 0, n2 |-> 0])
      Swap(v) == CASE v = s.n1 -> s.n2 [] v = s.n2 -> s.n1 [] OTHER -> v
  IN [k \in DOMAIN inorderTraversal(root) |-> Swap(inorderTraversal(root)[k])]

\* MUTANT HangLeftmost: the loop to the leftmost node is missing.
HangHere(t, left) == <<Val(t), left, Right(t)>>
HangLeftmost(t, left) ==
  IF Left(t) = Nil THEN <<Val(t), left, Right(t)>> ELSE <<Val(t), HangLeftmost(Left(t), left), Right(t)>>
deleteNode(root, key) ==
  IF root = Nil THEN Nil
  ELSE IF Val(root) = key
  THEN IF Left(root) = Nil THEN Right(root) ELSE IF Right(root) = Nil THEN Left(root) ELSE HangLeftmost(Right(root), Left(root))
  ELSE IF Val(root) > key THEN <<Val(root), deleteNode(Left(root), key), Right(root)>>
  ELSE <<Val(root), Left(root), deleteNode(Right(root), key)>>

(* 863: up by the map of parents, and down, but not back where it came from. *)

makeparents(root) ==
  [v \in {Val(t) : t \in Subtrees(root)} |->
     IF \E t \in Subtrees(root) : v \in {ValOr0(Left(t)), ValOr0(Right(t))}
     THEN CHOOSE t \in Subtrees(root) : v \in {ValOr0(Left(t)), ValOr0(Right(t))} ELSE Nil]
RECURSIVE search(_, _, _, _, _)
search(parents, from, root, k, step) ==
  IF root = Nil THEN <<>> ELSE IF k = step THEN <<Val(root)>>
  ELSE LET To(t) == IF from # t THEN search(parents, root, t, k, step + 1) ELSE <<>>
       IN To(Left(root)) \o To(Right(root)) \o To(parents[Val(root)])
distanceK(root, target, k) == search(makeparents(root), Nil, target, k, 0)

(* 105, 106, 654: trees from sequences; ranges are half open and count from 0. *)

At(s, i) == s[i + 1]
IndexOf(s, v) == (CHOOSE i \in DOMAIN s : s[i] = v) - 1
RECURSIVE BuildPre(_, _, _, _, _, _), BuildPost(_, _, _, _, _, _), construct(_, _, _)
BuildPre(preorder, pstart, pend, inorder, istart, iend) ==
  LET val == At(preorder, pstart)
      index == IndexOf(inorder, val)
      mid == pstart + 1 + index - istart
  IN IF pstart >= pend THEN Nil
     ELSE <<val, BuildPre(preorder, pstart + 1, mid, inorder, istart, index), BuildPre(preorder, mid, pend, inorder, index + 1, iend)>>
BuildPost(inorder, instart, inend, postorder, poststart, postend) ==
  LET val == At(postorder, postend - 1)
      index == IndexOf(inorder, val)
      mid == poststart + index - instart
  IN IF instart >= inend THEN Nil
     ELSE <<val, BuildPost(inorder, instart, index, postorder, poststart, mid),
            BuildPost(inorder, index + 1, inend, postorder, mid, postend - 1)>>
construct(nums, start, end) ==
  LET index == CHOOSE i \in start..(end - 1) :
                 /\ \A j \in start..(i - 1) : At(nums, j) < At(nums, i)
                 /\ \A j \in i..(end - 1) : At(nums, j) <= At(nums, i)
  IN IF start >= end THEN Nil ELSE <<At(nums, index), construct(nums, start, index), construct(nums, index + 1, end)>>

(* 971: index is how much of the voyage was met; nothing more is met after a failure. *)

RECURSIVE flipMatch(_, _, _)
flipMatch(root, voyage, s) ==
  IF root = Nil THEN s
  ELSE IF Val(root) # At(voyage, s.index) THEN [s EXCEPT !.ok = FALSE]
  ELSE LET index == s.index + 1
           flips == Left(root) # Nil /\ Val(Left(root)) # At(voyage, index)
           met == [s EXCEPT !.index = index, !.result = IF flips THEN Append(@, Val(root)) ELSE @]
           first == flipMatch(IF flips THEN Right(root) ELSE Left(root), voyage, met)
       IN IF first.ok THEN flipMatch(IF flips THEN Left(root) ELSE Right(root), voyage, first) ELSE first
flipMatchVoyage(root, voyage) ==
  LET s == flipMatch(root, voyage, [ok |-> TRUE, result |-> <<>>, index |-> 0]) IN IF s.ok THEN s.result ELSE <<-1>>

(* 222: the nodes of a complete tree, from the heights of two subtrees. *)

RECURSIVE getheight(_), countNodes(_)
getheight(root) == IF root = Nil THEN 0 ELSE 1 + getheight(Left(root))
countNodes(root) ==
  LET hleft == getheight(Left(root))
      hright == getheight(Right(root))
  IN IF root = Nil THEN 0
     ELSE IF hleft = hright THEN 2^hleft + countNodes(Right(root)) ELSE countNodes(Left(root)) + 2^hright

----------------------------------------------------------------------------
(* What the exercises ask for. *)

RECURSIVE Pre(_), Post(_), In(_), Mirror(_), AtDepth(_, _), Paths(_), Depth(_), Insert(_, _)
Pre(t) == IF t = Nil THEN <<>> ELSE <<Val(t)>> \o Pre(Left(t)) \o Pre(Right(t))
Post(t) == IF t = Nil THEN <<>> ELSE Post(Left(t)) \o Post(Right(t)) \o <<Val(t)>>
In(t) == IF t = Nil THEN <<>> ELSE In(Left(t)) \o <<Val(t)>> \o In(Right(t))
Mirror(t) == IF t = Nil THEN Nil ELSE <<Val(t), Mirror(Right(t)), Mirror(Left(t))>>
AtDepth(t, d) == IF t = Nil THEN <<>> ELSE IF d = 1 THEN <<Val(t)>> ELSE AtDepth(Left(t), d - 1) \o AtDepth(Right(t), d - 1)
Depth(t) == IF t = Nil THEN 0 ELSE 1 + Max({Depth(Left(t)), Depth(Right(t))})
Levels(t) == [d \in 1..Depth(t) |-> AtDepth(t, d)]
\* The paths from the root to every node, as sequences of values.
Paths(t) == IF t = Nil THEN {} ELSE {<<Val(t)>>} \cup {<<Val(t)>> \o p : p \in Paths(Left(t)) \cup Paths(Right(t))}
LeafPaths(t) == {p \in Paths(t) : ~\E q \in Paths(t) : Len(q) = Len(p) + 1 /\ Front(q) = p}
Sum(s) == FoldLeft(LAMBDA a, b : a + b, 0, s)
Increasing(s) == \A i, j \in DOMAIN s : i < j => s[i] < s[j]
Times(s, v) == Cardinality({i \in DOMAIN s : s[i] = v})
Insert(t, v) ==
  IF t = Nil THEN <<v, Nil, Nil>>
  ELSE IF v < Val(t) THEN <<Val(t), Insert(Left(t), v), Right(t)>> ELSE <<Val(t), Left(t), Insert(Right(t), v)>>
\* The edges between two nodes, through their last common ancestor.
Distance(t, u, v) ==
  LET To(n) == CHOOSE p \in Paths(t) : Last(p) = n
      common == Max({k \in 1..Min({Len(To(u)), Len(To(v))}) : SubSeq(To(u), 1, k) = SubSeq(To(v), 1, k)})
  IN Len(To(u)) + Len(To(v)) - 2 * common
RECURSIVE Flipped(_, _)
Flipped(t, S) ==
  IF t = Nil THEN Nil
  ELSE IF Val(t) \in S THEN <<Val(t), Flipped(Right(t), S), Flipped(Left(t), S)>>
  ELSE <<Val(t), Flipped(Left(t), S), Flipped(Right(t), S)>>
Flips(t, voyage) == {S \in SUBSET {Val(n) : n \in Subtrees(t)} : Pre(Flipped(t, S)) = voyage}

\* What every solution returns for its tree, and whether that is what was asked.
TreeAnswer(t) ==
  [pre |-> preorderTraversal(t), post |-> postorderTraversal(t), in |-> inorderTraversal(t),
   max |-> maxDepth(t), min |-> minDepth(t), level |-> levelOrder(t), zigzag |-> zigzagLevelOrder(t),
   right |-> rightSideView(t), next |-> connect(t), invert |-> invertTree(t),
   paths |-> IF t = Nil THEN <<>> ELSE binaryTreePaths(t), left |-> IF t = Nil THEN 0 ELSE findBottomLeftValue(t),
   sums |-> [n \in 0..20 |-> pathSum(t, n)],
   far |-> [p \in Paths(t) \X (0..3) |-> distanceK(t, CHOOSE n \in Subtrees(t) : Val(n) = Last(p[1]), p[2])],
   again |-> BuildPre(Pre(t), 0, Len(Pre(t)), In(t), 0, Len(Pre(t))),
   again2 |-> BuildPost(In(t), 0, Len(In(t)), Post(t), 0, Len(In(t)))]
TreeRight(t, a) ==
  LET levels == Levels(t)
  IN /\ a.pre = Pre(t) /\ a.post = Post(t) /\ a.in = In(t) /\ a.again = t /\ a.again2 = t
     /\ a.max = Depth(t) /\ a.min = (IF t = Nil THEN 0 ELSE Min({Len(p) : p \in LeafPaths(t)}))
     /\ a.level = levels
     /\ \A d \in DOMAIN levels : a.zigzag[d] = IF d % 2 = 1 THEN levels[d] ELSE Reverse(levels[d])
     /\ a.right = [d \in DOMAIN levels |-> Last(levels[d])]
     /\ t # Nil => a.left = Head(Last(levels))
     /\ a.next = {<<u, v>> \in ToSet(Pre(t)) \X ToSet(Pre(t)) :
                    \E d \in DOMAIN levels : \E i \in 1..(Len(levels[d]) - 1) : levels[d][i] = u /\ levels[d][i + 1] = v}
     /\ a.invert = Children(Mirror(t))
     /\ ToSet(a.paths) = LeafPaths(t) /\ IsInjective(a.paths)
     /\ \A n \in DOMAIN a.sums : ToSet(a.sums[n]) = {p \in LeafPaths(t) : Sum(p) = n}
     /\ \A c \in DOMAIN a.far : /\ ToSet(a.far[c]) = {v \in ToSet(Pre(t)) : Distance(t, Last(c[1]), v) = c[2]}
                                /\ IsInjective(a.far[c])

\* Search trees, also with equal values: the most frequent values, and what is left after a deletion.
SearchTreeAnswer(t) == [mode |-> findMode(t), deleted |-> [k \in 0..4 |-> deleteNode(t, k)]]
SearchTreeRight(t, a) ==
  LET most == {v \in ToSet(In(t)) : \A u \in ToSet(In(t)) : Times(In(t), u) <= Times(In(t), v)}
  IN /\ ToSet(a.mode) = most /\ IsInjective(a.mode)
     /\ \A k \in DOMAIN a.deleted :
          LET left == In(a.deleted[k])
          IN /\ \A i, j \in DOMAIN left : i < j => left[i] <= left[j]
             /\ \A v \in 0..4 : Times(left, v) = Times(In(t), v) - (IF v = k /\ Times(In(t), v) > 0 THEN 1 ELSE 0)

VoyageRight(t, voyage, a) ==
  LET flips == Flips(t, voyage)
  IN IF flips = {} THEN a = <<-1>>
     ELSE ToSet(a) \in flips /\ IsInjective(a) /\ \A S \in flips : Len(a) <= Cardinality(S)

RECURSIVE IsHeap(_)
IsHeap(t) ==
  t = Nil \/ /\ \A k \in ToSet(Kids(t)) : Val(k) < Val(t)
             /\ IsHeap(Left(t)) /\ IsHeap(Right(t))

\* What the solutions return for each kind of tree, and whether it is right.
TreesAnswer(e, x) ==
  CASE e = "tree" -> TreeAnswer(x)
    [] e = "searchtree" -> SearchTreeAnswer(x)
    [] e = "swapped" -> recoverTree(x)
    [] e = "complete" -> countNodes(x)
    [] e = "voyage" -> flipMatchVoyage(x[1], x[2])
    [] e = "maximum" -> construct(x, 0, Len(x))
TreesRight(e, x, a) ==
  CASE e = "tree" -> TreeRight(x, a)
    [] e = "searchtree" -> SearchTreeRight(x, a)
    [] e = "swapped" -> Increasing(a)
    [] e = "complete" -> a = Len(Pre(x))
    [] e = "voyage" -> VoyageRight(x[1], x[2], a)
    [] e = "maximum" -> In(a) = x /\ IsHeap(a)
============================================================================
