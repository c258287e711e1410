-------------------------- MODULE ArrayExercises --------------------------
(***************************************************************************)
(* sort.c and the solutions in leetcode/ about arrays, and below them what *)
(* they are asked for.                                                     *)
(***************************************************************************)
EXTENDS Integers, Sequences, FiniteSets, SequencesExt, FiniteSetsExt, Functions

At(s, i) == s[i + 1]                       \* as in C, the first one is number 0
Upto(n) == [k \in 1..n |-> k - 1]          \* the turns of for (i = 0; i < n; ++i)

----------------------------------------------------------------------------
(* sort.c *)

RECURSIVE ShiftUp(_, _, _, _), ShellLoop(_, _)
\* Elements greater than temp move up by gap until its place is found.
ShiftUp(data, j, gap, temp) ==
  IF j >= 0 /\ temp < At(data, j) THEN ShiftUp([data EXCEPT ![j + gap + 1] = At(data, j)], j - gap, gap, temp)
  ELSE [data EXCEPT ![j + gap + 1] = temp]
ShellLoop(data, gap) ==
  IF gap < 1 THEN data
  ELSE ShellLoop(FoldLeft(LAMBDA d, i : IF i < gap THEN d ELSE ShiftUp(d, i - gap, gap, At(d, i)), data, Upto(Len(data))),
                 gap \div 2)
shell_sort(data) == ShellLoop(data, Len(data) \div 2)

RECURSIVE merge(_, _), merge_sort(_)
merge(l, r) ==
  IF l = <<>> THEN r ELSE IF r = <<>> THEN l
  ELSE IF Head(l) > Head(r) THEN <<Head(r)>> \o merge(l, Tail(r)) ELSE <<Head(l)>> \o merge(Tail(l), r)
merge_sort(data) ==
  LET half == (Len(data) - 1) \div 2 + 1         \* start to middle
  IN IF Len(data) <= 1 THEN data
     ELSE merge(merge_sort(SubSeq(data, 1, half)), merge_sort(SubSeq(data, half + 1, Len(data))))

RECURSIVE Partition(_, _, _, _), quick(_, _, _)
\* i and j meet where key belongs; the hole changes sides in each turn.
Partition(data, i, j, key) ==
  LET down == Max({i} \cup {x \in i..j : At(data, x) < key})
      filled == [data EXCEPT ![i + 1] = At(data, down)]
      up == Min({down} \cup {x \in i..down : At(filled, x) > key})
  IN IF i >= j THEN [data |-> [data EXCEPT ![i + 1] = key], i |-> i]
     ELSE Partition([filled EXCEPT ![down + 1] = At(filled, up)], up, down, key)
quick(data, left, right) ==
  IF left >= right THEN data
  ELSE LET p == Partition(data, left, right, At(data, left))
       IN quick(quick(p.data, left, p.i - 1), p.i + 1, right)
quick_sort(data) == quick(data, 0, Len(data) - 1)

(* 35, 34: binary searches. *)

RECURSIVE Insertion(_, _, _, _), RightBorder(_, _, _, _, _), LeftBorder(_, _, _, _, _)
Insertion(nums, target, left, right) ==
  LET mid == left + (right - left) \div 2
  IN IF left >= right THEN right
     ELSE IF At(nums, mid) = target THEN mid
     ELSE IF At(nums, mid) < target THEN Insertion(nums, target, mid + 1, right) ELSE Insertion(nums, target, left, mid)
searchInsert(nums, target) == Insertion(nums, target, 0, Len(nums))

RightBorder(nums, target, left, right, border) ==
  LET mid == left + (right - left) \div 2
  IN IF left > right THEN border
     ELSE IF At(nums, mid) > target THEN RightBorder(nums, target, left, mid - 1, border)
     ELSE RightBorder(nums, target, mid + 1, right, mid + 1)
LeftBorder(nums, target, left, right, border) ==
  LET mid == left + (right - left) \div 2
  IN IF left > right THEN border
     ELSE IF At(nums, mid) < target THEN LeftBorder(nums, target, mid + 1, right, border)
     ELSE LeftBorder(nums, target, left, mid - 1, mid - 1)
searchRange(nums, target) ==
  LET rightborder == RightBorder(nums, target, 0, Len(nums) - 1, -2)
      leftborder == LeftBorder(nums, target, 0, Len(nums) - 1, -2)
  IN IF leftborder = -2 \/ rightborder = -2 \/ leftborder + 1 >= rightborder THEN <<-1, -1>>
     ELSE <<leftborder + 1, rightborder - 1>>

(* 15, 18: sums of a sorted array, the last two by two pointers. *)

Ordered(nums) == SortSeq(nums, LAMBDA a, b : a < b)          \* std::sort
RECURSIVE Pairs(_, _, _, _, _)
Pairs(nums, prefix, j, k, target) ==
  LET sum == At(nums, j) + At(nums, k)
      j2 == Min({k} \cup {x \in (j + 1)..(k - 1) : At(nums, x) # At(nums, j)})
      k2 == Max({j2} \cup {x \in j2..(k - 1) : At(nums, x) # At(nums, k)})
  IN IF j >= k THEN <<>>
     ELSE IF sum > target THEN Pairs(nums, prefix, j, k - 1, target)
     ELSE IF sum < target THEN Pairs(nums, prefix, j + 1, k, target)
     ELSE <<prefix \o <<At(nums, j), At(nums, k)>>>> \o Pairs(nums, prefix, j2, k2, target)
Fresh(nums, i, from) == i = from \/ At(nums, i) # At(nums, i - 1)        \* no value is taken twice
threeSum(unsorted) ==
  LET nums == Ordered(unsorted)
      n == Len(nums)
      From(i) == IF At(nums, i) <= 0 /\ Fresh(nums, i, 0) THEN Pairs(nums, <<At(nums, i)>>, i + 1, n - 1, -At(nums, i)) ELSE <<>>
  IN FlattenSeq([k \in 1..(n - 2) |-> From(k - 1)])
fourSum(unsorted, target) ==
  LET nums == Ordered(unsorted)
      n == Len(nums)
      From(f, s) == IF f < s /\ Fresh(nums, f, 0) /\ Fresh(nums, s, f + 1)
                    THEN Pairs(nums, <<At(nums, f), At(nums, s)>>, s + 1, n - 1, target - At(nums, f) - At(nums, s)) ELSE <<>>
  IN FlattenSeq([f \in 1..(n - 3) |-> FlattenSeq([s \in 1..(n - 2) |-> From(f - 1, s - 1)])])

(* 54: rings of a matrix, and what is left when no ring fits any more. *)

spiralOrder(matrix) ==
  LET row == Len(matrix)
      col == Len(matrix[1])
      Cell(x, y) == matrix[x + 1][y + 1]
      Ring(start) ==
        LET right == col - start - 1
            down == row - start - 1
        IN [y \in 1..(right - start) |-> Cell(start, start + y - 1)]
           \o [x \in 1..(down - start) |-> Cell(start + x - 1, right)]
           \o [y \in 1..(right - start) |-> Cell(down, right - y + 1)]
           \o [x \in 1..(down - start) |-> Cell(down - x + 1, start)]
      rings == Min({row \div 2, col \div 2})
      res == FlattenSeq([k \in 1..rings |-> Ring(k - 1)])
  IN res \o [step \in 1..(row * col - Len(res)) |->
               IF row < col THEN Cell(rings, rings + step - 1) ELSE Cell(rings + step - 1, rings)]

(* 92: a chain of nodes 1 to n behind dummy, node 0, whose end is -1. *)

reverseBetween(n, left, right) ==
  LET chain == [k \in 0..n |-> IF k = n THEN -1 ELSE k + 1]
      Turn(s, i) ==
        LET marked == IF i = left - 1 THEN [s EXCEPT !.betweenpre = s.cur, !.betweenend = s.next[s.cur]] ELSE s
        IN [marked EXCEPT !.pre = s.cur, !.cur = s.next[s.cur],
                          !.next = IF i > left THEN [@ EXCEPT ![s.cur] = s.pre] ELSE @]
      s == FoldLeft(Turn, [next |-> chain, cur |-> 0, pre |-> -1, betweenpre |-> -1, betweenend |-> -1], Upto(right))
      after == s.next[s.cur]
      linked == [[s.next EXCEPT ![s.cur] = s.pre] EXCEPT ![s.betweenpre] = s.cur]
      final == [linked EXCEPT ![s.betweenend] = after]
      node[k \in 1..n] == final[IF k = 1 THEN 0 ELSE node[k - 1]]
  IN [k \in 1..n |-> node[k]]

(* 1252, 1217: counting odd and even. *)

oddCells(m, n, indices) ==
  LET Hits(part, i) == Cardinality({k \in DOMAIN indices : indices[k][part] = i})
  IN Cardinality({c \in (0..(m - 1)) \X (0..(n - 1)) : (Hits(1, c[1]) + Hits(2, c[2])) % 2 = 1})
minCostToMoveChips(position) ==
  LET ou == Cardinality({k \in DOMAIN position : position[k] % 2 = 0}) IN Min({Len(position) - ou, ou})

----------------------------------------------------------------------------
(* What is asked for. *)

Sorted(s) == \A i, j \in DOMAIN s : i < j => s[i] <= s[j]
SortRight(data, a) == Sorted(a) /\ Len(a) = Len(data) /\ \A v \in ToSet(data) :
  Cardinality({i \in DOMAIN a : a[i] = v}) = Cardinality({i \in DOMAIN data : data[i] = v})
RangeRight(nums, target, a) ==
  LET places == {i \in 0..(Len(nums) - 1) : At(nums, i) = target}
  IN a = IF places = {} THEN <<-1, -1>> ELSE <<Min(places), Max(places)>>
Total(s) == FoldLeft(LAMBDA x, y : x + y, 0, s)
\* Every choice of n values with the sum, each once.
SumsRight(nums, n, target, a) ==
  /\ IsInjective(a)
  /\ ToSet(a) = {[k \in 1..n |-> nums[c[k]]] : c \in {f \in [1..n -> DOMAIN nums] :
                   (\A k \in 1..(n - 1) : f[k] < f[k + 1]) /\ Total([k \in 1..n |-> nums[f[k]]]) = target}}
\* The first row, then the spiral of the rest turned to the left.
RECURSIVE Spiral(_)
Spiral(matrix) ==
  LET rest == Tail(matrix)
      col == Len(matrix[1])
  IN IF Len(matrix) = 1 THEN matrix[1]
     ELSE matrix[1] \o Spiral([y \in 1..col |-> [x \in DOMAIN rest |-> rest[x][col - y + 1]]])
OddRight(m, n, indices, a) ==
  a = Cardinality({c \in (0..(m - 1)) \X (0..(n - 1)) :
        Total([k \in DOMAIN indices |-> (IF indices[k][1] = c[1] THEN 1 ELSE 0) + (IF indices[k][2] = c[2] THEN 1 ELSE 0)]) % 2 = 1})
\* Moving a chip by two is free: the best place to bring all to.
ChipsRight(position, a) ==
  a = Min({Total([k \in DOMAIN position |-> (position[k] - p + 100) % 2]) : p \in ToSet(position)})

\* What the solutions return, and whether it is right.
ArrayAnswer(e, x) ==
  CASE e = "sort" -> <<shell_sort(x), merge_sort(x), quick_sort(x)>>
    [] e = "insert" -> searchInsert(x[1], x[2])
    [] e = "range" -> searchRange(x[1], x[2])
    [] e = "three" -> threeSum(x)
    [] e = "four" -> fourSum(x[1], x[2])
    [] e = "spiral" -> spiralOrder(x)
    [] e = "between" -> reverseBetween(x[1], x[2], x[3])
    [] e = "odd" -> oddCells(x[1], x[2], x[3])
    [] e = "chips" -> minCostToMoveChips(x)
ArrayRight(e, x, a) ==
  CASE e = "sort" -> \A k \in DOMAIN a : SortRight(x, a[k])
    [] e = "insert" -> a = Cardinality({i \in DOMAIN x[1] : x[1][i] < x[2]})
    [] e = "range" -> RangeRight(x[1], x[2], a)
    [] e = "three" -> SumsRight(Ordered(x), 3, 0, a)
    [] e = "four" -> SumsRight(Ordered(x[1]), 4, x[2], a)
    [] e = "spiral" -> a = Spiral(x)
    [] e = "between" -> a = [k \in 1..x[1] |-> IF k \in x[2]..x[3] THEN x[2] + x[3] - k ELSE k]
    [] e = "odd" -> OddRight(x[1], x[2], x[3], a)
    [] e = "chips" -> ChipsRight(x, a)
============================================================================
