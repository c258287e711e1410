--------------------------- MODULE TextExercises ---------------------------
(***************************************************************************)
(* kmp.c and the solutions in leetcode/ about texts and numbers, and below *)
(* them what they are asked for. A text is a sequence of characters.       *)
(***************************************************************************)
EXTENDS Integers, Sequences, FiniteSets, SequencesExt, FiniteSetsExt, Functions

At(s, i) == s[i + 1]                       \* as in C, the first one is number 0
Sub(s, start, len) == SubSeq(s, start + 1, Min({start + len, Len(s)}))       \* substr
Turned(s, start, end) == [k \in DOMAIN s |-> IF k - 1 \in start..end THEN s[start + end - (k - 1) + 1] ELSE s[k]]
Space == " "

----------------------------------------------------------------------------
(* kmp.c: how much of the pattern is met, falling back along next. *)

RECURSIVE FallBack(_, _, _, _), Scan(_, _, _, _, _)
FallBack(pattern, next, k, c) ==
  IF k > 0 /\ At(pattern, k) # c THEN FallBack(pattern, next, next[k - 1], c) ELSE k
make_next(pattern) ==
  FoldLeft(LAMBDA next, q :
             LET k == FallBack(pattern, next, next[q - 1], At(pattern, q))
             IN next @@ (q :> IF At(pattern, k) = At(pattern, q) THEN k + 1 ELSE k),
           0 :> 0, [q \in 1..(Len(pattern) - 1) |-> q])
Scan(text, pattern, next, i, q) ==
  IF i >= Len(text) THEN i - q + 1
  ELSE LET back == FallBack(pattern, next, q, At(text, i))
           met == IF At(pattern, back) = At(text, i) THEN back + 1 ELSE back
       IN IF met = Len(pattern) THEN i - met + 1 ELSE Scan(text, pattern, next, i + 1, met)
kmp(text, pattern) == Scan(text, pattern, make_next(pattern), 0, 0)

(* 5: dp says what is a palindrome; the last and longest one found counts. *)

longestPalindrome(s) ==
  LET n == Len(s)
      dp[i \in 0..(n - 1), l \in 1..n] ==
        /\ i + l <= n
        /\ At(s, i) = At(s, i + l - 1)
        /\ l <= 2 \/ dp[i + 1, l - 2]
      len == Max({1} \cup {l \in 2..n : \E i \in 0..(n - l) : dp[i, l]})
      start == IF len = 1 THEN 0 ELSE Max({i \in 0..(n - len) : dp[i, len]})
  IN Sub(s, start, len)

(* 10: a text against a pattern with . and *, both from a place on. *)

RECURSIVE dp(_, _, _, _)
dp(s, sp, p, pp) ==
  LET left == Len(p) - pp
      starred == left > 1 /\ At(p, pp + 1) = "*"
  IN IF pp = Len(p) THEN sp = Len(s)
     ELSE IF sp = Len(s) THEN left % 2 = 0 /\ \A k \in 0..(left \div 2 - 1) : At(p, pp + 2 * k + 1) = "*"
     ELSE IF At(p, pp) \in {At(s, sp), "."}
     THEN IF starred THEN dp(s, sp, p, pp + 2) \/ dp(s, sp + 1, p, pp) ELSE dp(s, sp + 1, p, pp + 1)
     ELSE starred /\ dp(s, sp, p, pp + 2)
isMatch(s, p) == dp(s, 0, p, 0)

(* 76: a window that grows to the right and shrinks as long as it has all of t. *)

Times(s, c) == Cardinality({k \in DOMAIN s : s[k] = c})
RECURSIVE Shrink(_, _, _)
Shrink(s, need, w) ==
  LET c == At(s, w.left)
      counted == c \in DOMAIN need
  IN IF w.matchs # Cardinality(DOMAIN need) THEN w
     ELSE Shrink(s, need, [w EXCEPT !.left = @ + 1,
            !.window = IF counted THEN [@ EXCEPT ![c] = @ - 1] ELSE @,
            !.matchs = IF counted /\ w.window[c] = need[c] THEN @ - 1 ELSE @])
Slide(s, need, w, right) ==
  LET c == At(s, right)
      grown == IF c \notin DOMAIN need THEN w
               ELSE [w EXCEPT !.window[c] = @ + 1, !.matchs = IF w.window[c] + 1 = need[c] THEN @ + 1 ELSE @]
      shrunk == Shrink(s, need, grown)
      len == right - (shrunk.left - 1) + 1
  IN IF shrunk.left # grown.left /\ (w.rlen = -1 \/ len < w.rlen)
     THEN [shrunk EXCEPT !.rlen = len, !.rstart = shrunk.left - 1] ELSE shrunk
minWindow(s, t) ==
  LET need == [c \in ToSet(t) |-> Times(t, c)]
      w == FoldLeft(LAMBDA v, right : Slide(s, need, v, right),
                    [left |-> 0, matchs |-> 0, window |-> [c \in ToSet(t) |-> 0], rstart |-> 0, rlen |-> -1],
                    [k \in DOMAIN s |-> k - 1])
  IN IF w.rlen = -1 THEN <<>> ELSE Sub(s, w.rstart, w.rlen)

(* 93: up to three digits a part, the rest for the fourth; an address is its parts. *)

Number(digits) == FoldLeft(LAMBDA n, d : 10 * n + d, 0, digits)
valid(s, start, end) == ~(end - start > 1 /\ At(s, start) = 0) /\ Number(Sub(s, start, end - start)) <= 255
RECURSIVE dfs(_, _, _, _)
dfs(s, start, steps, ip) ==
  LET end == Len(s)
      tried == {i \in 0..2 : \A j \in 0..i : valid(s, start, start + 1 + j)}
  IN IF start >= end THEN <<>>
     ELSE IF steps = 3 THEN (IF valid(s, start, end) THEN <<Append(ip, Sub(s, start, end))>> ELSE <<>>)
     ELSE FlattenSeq([k \in 1..Cardinality(tried) |-> dfs(s, start + k, steps + 1, Append(ip, Sub(s, start, k)))])
restoreIpAddresses(s) == dfs(s, 0, 0, <<>>)

(* 151, twice: the words of a text in reverse order. *)

WordEnd(s, start) == Min({Len(s)} \cup {k \in start..(Len(s) - 1) : At(s, k) = Space})
RECURSIVE TurnWords(_, _)
TurnWords(s, start) ==
  IF start >= Len(s) THEN s
  ELSE IF At(s, start) = Space THEN TurnWords(s, start + 1)
  ELSE TurnWords(Turned(s, start, WordEnd(s, start) - 1), WordEnd(s, start) + 1)
\* s[slow++] = s[fast] for the characters that are kept.
Kept(s, Keep(_, _)) ==
  FoldLeft(LAMBDA kept, fast : IF Keep(kept, fast) THEN Append(kept, At(s, fast)) ELSE kept, <<>>, [k \in DOMAIN s |-> k - 1])
reverseWords(s) ==
  LET turned == TurnWords(Reverse(s), 0)
      Keep(kept, fast) == At(turned, fast) # Space
                          \/ (kept # <<>> /\ fast < Len(s) - 1 /\ At(turned, fast + 1) # Space)
  IN Kept(turned, Keep)

removeExtraSpaces(s) ==
  LET first == Min({Len(s)} \cup {k \in 0..(Len(s) - 1) : At(s, k) # Space})
      Keep(kept, fast) == fast >= first /\ ~(fast > 1 /\ At(s, fast - 1) = Space /\ At(s, fast) = Space)
      kept0 == Kept(s, Keep)
  IN IF Len(kept0) > 1 /\ Last(kept0) = Space THEN Front(kept0) ELSE kept0
reverseWords2(s) ==
  LET clean == removeExtraSpaces(s) IN TurnWords(Turned(clean, 0, Len(clean) - 1), 0)

(* 844: the next character that is not deleted, from the end. *)

RECURSIVE SkipBack(_, _, _), Compare(_, _, _, _)
SkipBack(s, i, delcount) ==
  IF i < 0 THEN i
  ELSE IF At(s, i) = "#" THEN SkipBack(s, i - 1, delcount + 1)
  ELSE IF delcount > 0 THEN SkipBack(s, i - 1, delcount - 1) ELSE i
Compare(s, t, i, j) ==
  LET a == SkipBack(s, i, 0)
      b == SkipBack(t, j, 0)
  IN IF a >= 0 /\ b >= 0 THEN At(s, a) = At(t, b) /\ Compare(s, t, a - 1, b - 1) ELSE a < 0 /\ b < 0
backspaceCompare(s, t) == Compare(s, t, Len(s) - 1, Len(t) - 1)

(* 859: the places where the texts differ, of which u1 and u2 are the first pair. *)

buddyStrings(s, goal) ==
  LET differ == {k \in DOMAIN s : s[k] # goal[k]}
      first == Min(differ)
  IN /\ Len(s) >= 2 /\ Len(goal) = Len(s)
     /\ Cardinality(differ) <= 2
     /\ \A k \in differ : k # first => s[first] = goal[k] /\ goal[first] = s[k]
     /\ CASE Cardinality(differ) = 0 -> \E c \in ToSet(s) : Times(s, c) > 1
          [] Cardinality(differ) = 1 -> FALSE
          [] OTHER -> TRUE

(* 150: a stack of numbers. *)

Quotient(a, b) ==        \* / in C++ rounds towards zero
  LET Abs(n) == IF n < 0 THEN -n ELSE n
      q == Abs(a) \div Abs(b)
  IN IF (a < 0) = (b < 0) THEN q ELSE -q
Calc(op, n1, n2) ==
  CASE op = "+" -> n1 + n2 [] op = "-" -> n1 - n2 [] op = "*" -> n1 * n2 [] op = "/" -> Quotient(n1, n2)
evalRPN(tokens) ==
  LET Step(st, token) ==
        IF token.op = "num" THEN Append(st, token.n)
        ELSE Append(SubSeq(st, 1, Len(st) - 2), Calc(token.op, st[Len(st) - 1], st[Len(st)]))
  IN Last(FoldLeft(Step, <<>>, tokens))

(* 2081: palindromes, as digits, that are palindromes in base k as well. *)

RECURSIVE Digits(_, _), Mirrors(_, _, _)
Digits(num, k) == IF num < k THEN <<num>> ELSE Append(Digits(num \div k, k), num % k)
nextInt(num) ==
  LET s == Digits(num, 10)
      width == Len(s)
      places == {i \in 0..(width \div 2) : i < width /\ At(s, i) # 9}
      i == Max(places)
      Next(p) == IF p \in {i, width - 1 - i} THEN At(s, p) + 1
                 ELSE IF p > i /\ p < width - 1 - i THEN 0 ELSE At(s, p)
  IN IF places = {} THEN 10^width + 1 ELSE Number([p \in 1..width |-> Next(p - 1)])
\* tokstring puts the least digit first; num is never 0 here.
isGood(s) == \A i \in 0..(Len(s) \div 2 - 1) : At(s, i) = At(s, Len(s) - 1 - i)
Mirrors(num, k, n) ==
  IF n = 0 THEN 0
  ELSE LET next == nextInt(num)
       IN IF isGood(Reverse(Digits(next, k))) THEN next + Mirrors(next, k, n - 1) ELSE Mirrors(next, k, n)
kMirror(k, n) == Mirrors(0, k, n)

----------------------------------------------------------------------------
(* What is asked for. *)

\* A match is reported where the pattern first occurs, and a place where it
\* does not fit when it does not occur.
OccursAt(text, pattern, i) == i + Len(pattern) <= Len(text) /\ SubSeq(text, i + 1, i + Len(pattern)) = pattern
KmpRight(text, pattern, a) ==
  LET found == {i \in 0..Len(text) : OccursAt(text, pattern, i)}
  IN IF found = {} THEN a + Len(pattern) > Len(text) ELSE a = Min(found)

IsPalindrome(s) == s = Reverse(s)
Parts(s) == {SubSeq(s, i, j) : i, j \in DOMAIN s}
PalindromeRight(s, a) == a \in Parts(s) /\ IsPalindrome(a) /\ \A p \in Parts(s) : IsPalindrome(p) => Len(p) <= Len(a)

\* A pattern as the set of texts up to a length that it matches.
RECURSIVE Language(_, _)
Language(p, texts) ==
  LET Fits(c, x) == c \in {x, "."}
      starred == Len(p) > 1 /\ p[2] = "*"
      rest == Language(IF starred THEN Tail(Tail(p)) ELSE Tail(p), texts)
  IN IF p = <<>> THEN {<<>>}
     ELSE {s \in texts : \E k \in 0..Len(s) :
             /\ \A i \in 1..k : Fits(p[1], s[i])
             /\ starred \/ k = 1
             /\ SubSeq(s, k + 1, Len(s)) \in rest}

Covers(w, t) == \A c \in ToSet(t) : Times(w, c) >= Times(t, c)
WindowRight(s, t, a) ==
  LET windows == {w \in Parts(s) : Covers(w, t)}
  IN IF windows = {} THEN a = <<>> ELSE a \in windows /\ \A w \in windows : Len(a) <= Len(w)

IsPart(p) == Len(p) \in 1..3 /\ Number(p) <= 255 /\ (p[1] = 0 => Len(p) = 1)
IpRight(s, a) ==
  ToSet(a) = {ip \in {<<SubSeq(s, 1, i), SubSeq(s, i + 1, j), SubSeq(s, j + 1, k), SubSeq(s, k + 1, Len(s))>> :
                        i, j, k \in DOMAIN s} :
                /\ FlattenSeq(ip) = s
                /\ \A n \in 1..4 : IsPart(ip[n])}

RECURSIVE WordsOf(_, _)
WordsOf(s, word) ==
  LET done == IF word = <<>> THEN <<>> ELSE <<word>>
  IN IF s = <<>> THEN done
     ELSE IF Head(s) = Space THEN done \o WordsOf(Tail(s), <<>>) ELSE WordsOf(Tail(s), Append(word, Head(s)))
WordsRight(s, a) ==
  LET words == Reverse(WordsOf(s, <<>>))
  IN a = FlattenSeq([k \in DOMAIN words |-> IF k = 1 THEN words[k] ELSE <<Space>> \o words[k]])

Typed(s) ==
  LET Key(text, c) == IF c # "#" THEN Append(text, c) ELSE IF text = <<>> THEN <<>> ELSE Front(text)
  IN FoldLeft(Key, <<>>, s)

BuddyRight(s, goal, a) ==
  a <=> \E i, j \in DOMAIN s : i < j /\ goal = [k \in DOMAIN s |-> IF k = i THEN s[j] ELSE IF k = j THEN s[i] ELSE s[k]]

\* Expressions, their tokens and their values.
RECURSIVE Tokens(_), Value(_)
Tokens(e) == IF e.op = "num" THEN <<e>> ELSE Tokens(e.l) \o Tokens(e.r) \o <<[op |-> e.op]>>
Value(e) == IF e.op = "num" THEN e.n ELSE Calc(e.op, Value(e.l), Value(e.r))

MirrorRight(k, n, a) ==
  \E bound \in {b \in 1..a : IsPalindrome(Digits(b, 10)) /\ IsPalindrome(Digits(b, k))} :
    LET mirrors == {b \in 1..bound : IsPalindrome(Digits(b, 10)) /\ IsPalindrome(Digits(b, k))}
    IN Cardinality(mirrors) = n /\ a = FoldSet(LAMBDA x, y : x + y, 0, mirrors)

\* What the solutions return, and whether it is right.
TextAnswer(e, x) ==
  CASE e = "kmp" -> kmp(x[1], x[2])
    [] e = "palindrome" -> longestPalindrome(x)
    [] e = "match" -> isMatch(x[1], x[2])
    [] e = "window" -> minWindow(x[1], x[2])
    [] e = "ip" -> restoreIpAddresses(x)
    [] e = "words" -> <<reverseWords(x), reverseWords2(x)>>
    [] e = "backspace" -> backspaceCompare(x[1], x[2])
    [] e = "buddy" -> buddyStrings(x[1], x[2])
    [] e = "rpn" -> evalRPN(Tokens(x))
    [] e = "mirror" -> kMirror(x[1], x[2])
TextRight(e, x, a) ==
  CASE e = "kmp" -> KmpRight(x[1], x[2], a)
    [] e = "palindrome" -> PalindromeRight(x, a)
    [] e = "match" -> a <=> x[1] \in Language(x[2], Parts(x[1]) \cup {<<>>})
    [] e = "window" -> WindowRight(x[1], x[2], a)
    [] e = "ip" -> IpRight(x, a) /\ IsInjective(a)
    [] e = "words" -> WordsRight(x, a[1]) /\ WordsRight(x, a[2])
    [] e = "backspace" -> a <=> Typed(x[1]) = Typed(x[2])
    [] e = "buddy" -> BuddyRight(x[1], x[2], a)
    [] e = "rpn" -> a = Value(x)
    [] e = "mirror" -> MirrorRight(x[1], x[2], a)
============================================================================
