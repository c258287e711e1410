----------------------------- MODULE MCSamples -----------------------------
\* Instances of Samples that are small enough for TLC.
EXTENDS Samples

MCTreeKinds == {<<"binary", 2>>, <<"redblack", 2>>, <<"btree", 2>>, <<"btree", 3>>}
MCBloomSizes == {<<1, 9000>>, <<200, 500>>}     \* items, and the false positives in ten thousand
MCMurmur(x, seed) == (x * x * 37 + (seed + 11) * (2 * x + 5)) % HashSpan
MCJsonLimits ==
  {[items |-> 4, strings |-> 0, containers |-> 1], [items |-> 3, strings |-> 1, containers |-> 2],
   [items |-> 3, strings |-> 2, containers |-> 1]}

Words == {Item(w) : w \in {"null", "true", "false"}}
Numbers == {Number(n) : n \in {0, -7000000, 120000000, 500000, -12040000}}
Chars == {Text(s) : s \in {<<>>, <<"a", " ">>, <<"\"", "\n">>, <<"\\", Control, "b">>}}
Lists(S) == {List(k) : k \in UNION {[1..n -> S] : n \in 0..2}}
Objects(S) == {Object(<<>>, <<>>)} \cup {Object(<<n>>, <<k>>) : n \in {<<"a">>, <<"\t", "\"">>}, k \in S}
              \cup {Object(<<<<"a">>, <<>>>>, k) : k \in [1..2 -> S]}
Most == (Words \cup Numbers \cup Chars) \ {Item("true"), Number(-7000000), Number(500000)}
Few == {Number(-12040000), Text(<<"\"", "\n">>)}
MCJsonDocs ==
  Words \cup Numbers \cup Chars \cup Lists(Most) \cup Objects(Most) \cup Lists(Objects(Few)) \cup Objects(Lists(Few))

MCDesigns ==
  {"lru", "ring", "list", "circular", "minstack", "stack", "queue", "set", "flip", "tree"}

Seqs(S, lengths) == UNION {[1..n -> S] : n \in lengths}
Tree(v, l, r) == <<v, l, r>>
\* Trees of n nodes whose values count from low on in preorder, and from low on in order.
RECURSIVE PreTrees(_, _), SearchTrees(_, _), HeapTree(_, _)
PreTrees(n, low) ==
  IF n = 0 THEN {<<>>}
  ELSE UNION {{Tree(low, l, r) : l \in PreTrees(k, low + 1), r \in PreTrees(n - 1 - k, low + 1 + k)} : k \in 0..(n - 1)}
SearchTrees(n, low) ==
  IF n = 0 THEN {<<>>}
  ELSE UNION {{Tree(low + k, l, r) : l \in SearchTrees(k, low), r \in SearchTrees(n - 1 - k, low + k + 1)} : k \in 0..(n - 1)}
\* The complete tree of n nodes, where node i has the children 2i and 2i + 1.
HeapTree(i, n) == IF i > n THEN <<>> ELSE Tree(i, HeapTree(2 * i, n), HeapTree(2 * i + 1, n))
RECURSIVE Renamed(_, _)
Renamed(t, f) == IF t = <<>> THEN <<>> ELSE Tree(f[t[1]], Renamed(t[2], f), Renamed(t[3], f))
Perms(n) == {f \in [1..n -> 1..n] : \A i, j \in 1..n : i # j => f[i] # f[j]}
Swaps(n) == {f \in Perms(n) : Cardinality({i \in 1..n : f[i] # i}) = 2}
Climbing(n, m) == {f \in [1..n -> 1..m] : \A i, j \in 1..n : i < j => f[i] <= f[j]}
OfKind(e, S) == {<<e, x>> : x \in S}

TreeQuestions ==
  OfKind("tree", UNION {PreTrees(n, 1) : n \in 0..5})
  \cup OfKind("searchtree", UNION {{Renamed(t, f) : t \in SearchTrees(n, 1), f \in Climbing(n, 3)} : n \in 0..4})
  \cup OfKind("swapped", UNION {{Renamed(t, f) : t \in SearchTrees(n, 1), f \in Swaps(n)} : n \in 2..4})
  \cup OfKind("complete", {HeapTree(1, n) : n \in 0..10})
  \cup OfKind("voyage", UNION {PreTrees(n, 1) \X Perms(n) : n \in 1..4})
  \cup OfKind("maximum", UNION {Perms(n) : n \in 0..4})

Expressions(S, operators) ==
  S \cup {[op |-> o, l |-> l, r |-> r] : o \in operators, l \in S, r \in S}
Num(n) == [op |-> "num", n |-> n]
Quotients == {[op |-> "/", l |-> Num(a), r |-> Num(b)] : a \in {-7, 0, 7}, b \in {-2, 2, 8}}
\* Patterns in which * never comes first or after another *.
Patterns == {p \in Seqs({"a", ".", "*"}, 0..4) : \A k \in DOMAIN p : p[k] = "*" => k > 1 /\ p[k - 1] # "*"}
TextQuestions ==
  OfKind("kmp", Seqs({"a", "b"}, 0..5) \X Seqs({"a", "b"}, 1..4))
  \cup OfKind("palindrome", Seqs({"a", "b"}, 1..6))
  \cup OfKind("match", Seqs({"a", "b"}, 0..3) \X Patterns)
  \cup OfKind("window", Seqs({"a", "b", "c"}, 0..4) \X Seqs({"a", "b"}, 1..3))
  \cup OfKind("ip", Seqs({0, 2, 5}, 4..6))
  \cup OfKind("words", Seqs({"a", "b", " "}, 1..6))
  \cup OfKind("backspace", Seqs({"a", "#"}, 0..4) \X Seqs({"a", "b", "#"}, 0..3))
  \cup OfKind("buddy", {p \in Seqs({"a", "b", "c"}, 0..3) \X Seqs({"a", "b", "c"}, 0..3) : Len(p[1]) = Len(p[2])})
  \cup OfKind("rpn", Expressions(Expressions({Num(n) : n \in {-3, 0, 2}}, {"+", "-", "*"}) \cup Quotients, {"+", "-", "*"}))
  \cup OfKind("mirror", {2, 3} \X (1..4))

Matrix(rows, cols) == [x \in 1..rows |-> [y \in 1..cols |-> 10 * x + y]]
ArrayQuestions ==
  OfKind("sort", Seqs(1..3, 0..5))
  \cup OfKind("insert", {<<SetToSortSeq(S, <), target>> : S \in SUBSET {1, 3, 5, 7}, target \in 0..8})
  \cup OfKind("range", UNION {Climbing(n, 3) \X (0..4) : n \in 0..5})
  \cup OfKind("three", Seqs(-2..2, 3..4))
  \cup OfKind("four", {<<s, target>> : s \in Climbing(5, 4), target \in {8, 10}})
  \cup OfKind("spiral", {Matrix(rows, cols) : rows \in 1..4, cols \in 1..5})
  \cup OfKind("between", {<<n, l, r>> \in (1..5) \X (1..5) \X (1..5) : l <= r /\ r <= n})
  \cup OfKind("odd", {<<2, 3, s>> : s \in Seqs({0, 1} \X (0..2), 0..3)})
  \cup OfKind("chips", Seqs(1..4, 1..4))

Full == [r \in 1..9 |-> [c \in 1..9 |-> ((3 * ((r - 1) % 3) + (r - 1) \div 3 + (c - 1)) % 9) + 1]]
Emptied(cells) == [r \in 1..9 |-> [c \in 1..9 |-> IF <<r, c>> \in cells THEN 0 ELSE Full[r][c]]]
SearchQuestions ==
  OfKind("lock", {<<{}, <<0, 1, 9, 0>>>>, <<{<<0, 0, 0, 0>>}, <<1, 0, 0, 0>>>>, <<{<<0, 0, 0, 1>>, <<0, 0, 0, 9>>}, <<0, 0, 0, 2>>>>,
                  <<{<<1, 0, 0, 0>>, <<9, 0, 0, 0>>, <<0, 1, 0, 0>>, <<0, 9, 0, 0>>,
                     <<0, 0, 1, 0>>, <<0, 0, 9, 0>>, <<0, 0, 0, 1>>, <<0, 0, 0, 9>>}, <<0, 0, 0, 2>>>>})
  \cup OfKind("slide", {<<<<1, 2, 3>>, <<4, 0, 5>>>>, <<<<1, 2, 3>>, <<5, 4, 0>>>>, <<<<4, 1, 2>>, <<5, 0, 3>>>>,
                         <<<<1, 2, 3>>, <<4, 5, 0>>>>})
  \cup OfKind("queens", 1..5)
  \cup OfKind("sudoku", {Emptied({<<r, c>> \in (1..9) \X (1..9) : (r + c) % 5 = k}) : k \in 0..4})
  \cup OfKind("eggs", (1..3) \X (1..9))

Udp(s, d, n, w) ==
  [kind |-> "udp", h_dest |-> "m2", h_source |-> "m1", saddr |-> s, daddr |-> d, source |-> 3, dest |-> 12,
   len |-> n, slot |-> w, ipcheck |-> Stack!in_cksum(<<s, d, n>>),
   check |-> Stack!in_cksum(<<s, d, 3, 12, n>> \o SubSeq(w, 1, n))]
Icmp(t, s, d, n, w) ==
  [kind |-> "icmp", h_dest |-> "m2", h_source |-> "m1", saddr |-> s, daddr |-> d, type |-> t, id |-> 9,
   len |-> n, slot |-> w, ipcheck |-> Stack!in_cksum(<<s, d, n>>),
   check |-> Stack!in_cksum(<<t, 9>> \o SubSeq(w, 1, n))]
Arp(wanted, asker) ==
  [kind |-> "arp", h_dest |-> "all", h_source |-> "m1", oper |-> 1, smac |-> "m1", sip |-> asker, dmac |-> "none", dip |-> wanted]
PacketQuestions ==
  OfKind("packet", {Udp(s, 5, n, w) : s \in {1, 15}, n \in 0..3, w \in [1..3 -> {0, 6, 15}]}
                   \cup {Icmp(t, s, 5, n, w) : t \in {0, 8}, s \in {1, 15}, n \in 0..3, w \in [1..3 -> {0, 6, 15}]}
                   \cup {Arp(wanted, asker) : wanted \in {5, 6}, asker \in {1, 15}} \cup {[kind |-> "igmp"]})

MCExercises == TreeQuestions \cup TextQuestions \cup ArrayQuestions \cup SearchQuestions \cup PacketQuestions
============================================================================
