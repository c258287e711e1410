-------------------------- MODULE SearchExercises --------------------------
(***************************************************************************)
(* The solutions in leetcode/ that search: breadth first with a queue and  *)
(* a set of what was visited, or depth first taking choices back. Below    *)
(* them what they are asked for.                                           *)
(***************************************************************************)
EXTENDS Integers, Sequences, FiniteSets, SequencesExt, FiniteSetsExt, Functions

(* 752: four wheels; q is the queue before a turn of the outer loop. *)

up(str, pos) == [str EXCEPT ![pos] = IF @ = 9 THEN 0 ELSE @ + 1]
down(str, pos) == [str EXCEPT ![pos] = IF @ = 0 THEN 9 ELSE @ - 1]
Start == <<0, 0, 0, 0>>
Turns(cur) == UNION {{up(cur, pos), down(cur, pos)} : pos \in 1..4}
RECURSIVE OpenLoop(_, _, _, _)
OpenLoop(q, visited, steps, target) ==
  LET next == UNION {Turns(cur) : cur \in q} \ visited
  IN IF q = {} THEN -1 ELSE IF target \in q THEN steps
     ELSE OpenLoop(next, visited \cup next, steps + 1, target)
openLock(deadends, target) ==
  IF Start \in deadends THEN -1 ELSE OpenLoop({Start}, deadends \cup {Start}, 0, target)

(* 773: six places, 0 is the empty one; swapos as in the code, counted from 1. *)

swapos == <<{2, 4}, {1, 3, 5}, {2, 6}, {1, 5}, {2, 4, 6}, {3, 5}>>
Moves(cur) ==
  LET idx == CHOOSE i \in 1..6 : cur[i] = 0
  IN {[cur EXCEPT ![idx] = cur[adj], ![adj] = 0] : adj \in swapos[idx]}
RECURSIVE SlideLoop(_, _, _)
\* The start is not put into visited: it may come back once.
SlideLoop(q, visited, step) ==
  LET new == UNION {Moves(cur) : cur \in q} \ visited
  IN IF q = {} THEN -1 ELSE IF <<1, 2, 3, 4, 5, 0>> \in q THEN step
     ELSE SlideLoop(new, visited \cup new, step + 1)
slidingPuzzle(board) == SlideLoop({board[1] \o board[2]}, {}, 0)

(* 51: steps holds the column of the queen of each row. *)

canuse(steps, col) ==
  LET row == Len(steps) + 1
  IN \A r \in DOMAIN steps : steps[r] # col /\ steps[r] # col - (row - r) /\ steps[r] # col + (row - r)
RECURSIVE solve(_, _)
solve(n, steps) ==
  IF Len(steps) = n THEN <<steps>>
  ELSE FlattenSeq([i \in 1..n |-> IF canuse(steps, i) THEN solve(n, Append(steps, i)) ELSE <<>>])
solveNQueens(n) == solve(n, <<>>)

(* 37: a board of nine by nine, 0 for an empty cell; <<>> when there is no way to go on. *)

CanPut(board, row, col, c) ==
  \A i \in 0..8 : c \notin {board[i + 1][col + 1], board[row + 1][i + 1],
                             board[(row \div 3) * 3 + i \div 3 + 1][(col \div 3) * 3 + (i % 3) + 1]}
RECURSIVE SolveFrom(_, _, _), TryFrom(_, _, _)
SolveFrom(board, row, col) ==
  IF col = 9 THEN SolveFrom(board, row + 1, 0)
  ELSE IF row >= 9 THEN board
  ELSE IF board[row + 1][col + 1] # 0 THEN SolveFrom(board, row, col + 1)
  ELSE TryFrom(board, <<row, col>>, 1)
TryFrom(board, at, c) ==
  LET solved == IF CanPut(board, at[1], at[2], c) THEN SolveFrom([board EXCEPT ![at[1] + 1][at[2] + 1] = c], at[1], at[2] + 1) ELSE <<>>
  IN IF c > 9 THEN <<>> ELSE IF solved # <<>> THEN solved ELSE TryFrom(board, at, c + 1)
solveSudoku(board) == SolveFrom(board, 0, 0)

(* 887: the floors that res drops decide about, for each number of eggs. *)

RECURSIVE EggLoop(_, _, _, _)
EggLoop(k, n, dp, res) ==
  IF dp[k] >= n THEN res
  ELSE EggLoop(k, n, [i \in 0..k |-> IF i = 0 THEN 0 ELSE dp[i] + dp[i - 1] + 1], res + 1)
superEggDrop(k, n) == EggLoop(k, n, [i \in 0..k |-> 0], 0)

----------------------------------------------------------------------------
(* What is asked for. *)

\* The fewest steps to a goal that is not further away than most, or -1.
Nearest(from, goal, Next(_), forbidden, most) ==
  LET reach[n \in 0..most] ==
        LET before == reach[n - 1]
        IN IF n = 0 THEN {from} ELSE before \cup (UNION {Next(s) : s \in before} \ forbidden)
      near == {n \in 0..most : goal \in reach[n]}
  IN IF near = {} THEN -1 ELSE Min(near)
QueensRight(n, a) ==
  ToSet(a) = {q \in [1..n -> 1..n] : \A r, s \in 1..n : r < s => q[r] # q[s] /\ q[s] - q[r] \notin {s - r, r - s}}
SudokuRight(board, a) ==
  LET Box(b) == {<<3 * (b \div 3) + r, 3 * (b % 3) + c>> : r, c \in 1..3}
  IN /\ \A r, c \in 1..9 : board[r][c] \in {0, a[r][c]}
     /\ \A k \in 1..9 : /\ {a[k][c] : c \in 1..9} = 1..9 /\ {a[r][k] : r \in 1..9} = 1..9
                        /\ {a[p[1]][p[2]] : p \in Box(k - 1)} = 1..9
\* The worst case of the best first floor.
Eggs(k, n) ==
  LET drops[e \in 1..k, f \in 0..n] ==
        IF e = 1 \/ f = 0 THEN f ELSE 1 + Min({Max({drops[e, f - i], drops[e - 1, i - 1]}) : i \in 1..f})
  IN drops[k, n]

\* What the solutions return, and whether it is right.
SearchAnswer(e, x) ==
  CASE e = "lock" -> openLock(x[1], x[2])
    [] e = "slide" -> slidingPuzzle(x)
    [] e = "queens" -> solveNQueens(x)
    [] e = "sudoku" -> solveSudoku(x)
    [] e = "eggs" -> superEggDrop(x[1], x[2])
SearchRight(e, x, a) ==
  CASE e = "lock" -> a = IF Start \in x[1] THEN -1 ELSE Nearest(Start, x[2], Turns, x[1], 4)
    [] e = "slide" -> a = Nearest(x[1] \o x[2], <<1, 2, 3, 4, 5, 0>>, Moves, {}, 21)
    [] e = "queens" -> QueensRight(x, a) /\ IsInjective(a)
    [] e = "sudoku" -> SudokuRight(x, a)
    [] e = "eggs" -> a = Eggs(x[1], x[2])
=============================================================================
