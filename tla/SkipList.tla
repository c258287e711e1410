------------------------------ MODULE SkipList ------------------------------
(***************************************************************************)
(* The skip list of code/timer/skiplist.c, as operators on a heap: Z has   *)
(* the number of levels in use, the length, per level the successor of     *)
(* each node, and per node its score. The header is node 0, and is also    *)
(* NULL, since nothing points back to it. Levels count from 1.             *)
(***************************************************************************)
EXTENDS Integers, Sequences, FiniteSets

CONSTANT ZSKIPLIST_MAXLEVEL

header == 0
NULL == 0
Levels == 1..ZSKIPLIST_MAXLEVEL

zslCreate(Nodes) ==
  [level |-> 1, length |-> 0, forward |-> [i \in Levels |-> [x \in Nodes \cup {header} |-> NULL]],
   score |-> [x \in Nodes |-> 0], height |-> [x \in Nodes |-> 0], allocated |-> {}]

\* NodesFrom x on along level i, the last node before the score.
RECURSIVE Along(_, _, _, _)
Along(Z, i, x, score) ==
  LET y == Z.forward[i][x]
  IN IF y # NULL /\ Z.score[y] < score THEN Along(Z, i, y, score) ELSE x

\* update[i]: the last node before the score on level i, found from the level
\* above; the header on the levels not in use.
RECURSIVE UpdateAt(_, _, _)
UpdateAt(Z, i, score) ==
  IF i > Z.level THEN header ELSE Along(Z, i, UpdateAt(Z, i + 1, score), score)

zslInsert(Z, x, score, level) ==
  LET update == [i \in Levels |-> UpdateAt(Z, i, score)]
      top == IF level > Z.level THEN level ELSE Z.level
  IN [Z EXCEPT !.level = top, !.length = @ + 1, !.score[x] = score, !.height[x] = level,
               !.allocated = @ \cup {x},
               !.forward = [i \in Levels |->
                  IF i > level THEN @[i]
                  ELSE [@[i] EXCEPT ![x] = Z.forward[i][update[i]], ![update[i]] = x]]]

zslMin(Z) == Z.forward[1][header]

\* The levels that stay in use: as many as have a node, and at least one.
RECURSIVE LevelsLeft(_, _)
LevelsLeft(forward, level) ==
  IF level > 1 /\ forward[level][header] = NULL THEN LevelsLeft(forward, level - 1) ELSE level

\* What a node held that is in the list no more: nobody reads it again.
Forget(Z, x) ==
  [Z EXCEPT !.score[x] = 0, !.height[x] = 0, !.forward = [i \in Levels |-> [@[i] EXCEPT ![x] = NULL]]]

\* Takes x out of the levels on which it follows update.
zslDeleteNode(Z, x, update) ==
  LET forward == [i \in Levels |->
        IF i <= Z.level /\ Z.forward[i][update[i]] = x
        THEN [Z.forward[i] EXCEPT ![update[i]] = Z.forward[i][x]] ELSE Z.forward[i]]
  IN Forget([Z EXCEPT !.forward = forward, !.level = LevelsLeft(forward, Z.level), !.length = @ - 1], x)

\* The head leaves the list and is not freed.
zslDeleteHead(Z) ==
  LET x == zslMin(Z)
      forward == [i \in Levels |->
        IF i <= Z.level /\ Z.forward[i][header] = x
        THEN [Z.forward[i] EXCEPT ![header] = Z.forward[i][x]] ELSE Z.forward[i]]
  IN IF x = NULL THEN Z
     ELSE Forget([Z EXCEPT !.forward = forward, !.level = LevelsLeft(forward, Z.level), !.length = @ - 1], x)

\* Deletes and frees the first node with the score of zn.
zslDelete(Z, zn) ==
  LET score == Z.score[zn]
      update == [i \in Levels |-> UpdateAt(Z, i, score)]
      x == Z.forward[1][update[1]]
  IN IF x # NULL /\ Z.score[x] = score
     THEN [zslDeleteNode(Z, x, update) EXCEPT !.allocated = @ \ {x}] ELSE Z

----------------------------------------------------------------------------
\* The nodes of level i, in order.
RECURSIVE NodesFrom(_, _, _)
NodesFrom(Z, i, x) == IF Z.forward[i][x] = NULL THEN <<>> ELSE <<Z.forward[i][x]>> \o NodesFrom(Z, i, Z.forward[i][x])
OnLevel(Z, i) == NodesFrom(Z, i, header)

\* Level i holds, in the order of the level below, the nodes that reach it;
\* scores ascend, the length is right, and no level in use but the first is empty.
IsSkipList(Z) ==
  LET all == OnLevel(Z, 1)
  IN /\ \A j, k \in DOMAIN all : j < k => all[j] # all[k] /\ Z.score[all[j]] <= Z.score[all[k]]
     /\ \A i \in Levels : OnLevel(Z, i) = SelectSeq(all, LAMBDA x : Z.height[x] >= i)
     /\ Z.length = Len(all)
     /\ \A i \in 2..Z.level : OnLevel(Z, i) # <<>>
     /\ \A i \in Levels : i > Z.level => OnLevel(Z, i) = <<>>
     /\ \A j \in DOMAIN all : all[j] \in Z.allocated
=============================================================================
