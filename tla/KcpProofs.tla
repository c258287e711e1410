----------------------------- MODULE KcpProofs ------------------------------
(***************************************************************************)
(* Proofs about KcpEcho, for any sizes, windows and settings. The parts    *)
(* go from the inside out: the operators of Ikcp on buffers, what a good   *)
(* control block is and that every operation of ikcp.c leaves a good one,  *)
(* what links the blocks of two ends over a network that loses, repeats    *)
(* and reorders, and the order in which the applications get messages.     *)
(***************************************************************************)
EXTENDS KcpEcho, NaturalRecursion, SequenceTheorems

----------------------------------------------------------------------------
(* Buffers in the order of sn. *)

Sorted(buf) == \A i, j \in 1..Len(buf) : i < j => buf[i].sn < buf[j].sn

\* Segments are told apart by numbers.
Numbered(S) == \A s \in S : s.sn \in Nat

\* A sequence has as many elements as its length says, and none only when it is empty.
LEMMA SequenceOf ==
  ASSUME NEW S, NEW q \in Seq(S)
  PROVE  /\ Len(q) \in Nat /\ DOMAIN q = 1..Len(q) /\ \A i \in 1..Len(q) : q[i] \in S
         /\ q = <<>> <=> Len(q) = 0
<1>1. Len(q) \in Nat /\ DOMAIN q = 1..Len(q) /\ \A i \in 1..Len(q) : q[i] \in S
  BY LenProperties, ElementOfSeq
<1>2. q = <<>> <=> Len(q) = 0
  BY <1>1, EmptySeq
<1>3. QED
  BY <1>1, <1>2

\* Two sequences, one after the other.
LEMMA Joined ==
  ASSUME NEW S, NEW q \in Seq(S), NEW r \in Seq(S)
  PROVE  /\ q \o r \in Seq(S) /\ Len(q \o r) = Len(q) + Len(r)
         /\ \A i \in 1..(Len(q) + Len(r)) : (q \o r)[i] = IF i <= Len(q) THEN q[i] ELSE r[i - Len(q)]
BY ConcatProperties

\* Before counts the segments at the front of a buffer.
LEMMA BeforeIs ==
  ASSUME NEW S, Numbered(S), NEW buf \in Seq(S), Sorted(buf), NEW sn \in Int
  PROVE  /\ Before(buf, sn) \in 0..Len(buf)
         /\ \A i \in 1..Len(buf) : i <= Before(buf, sn) <=> buf[i].sn < sn
<1> DEFINE T == {i \in DOMAIN buf : buf[i].sn < sn}
<1>1. Len(buf) \in Nat /\ DOMAIN buf = 1..Len(buf) /\ \A i \in 1..Len(buf) : buf[i].sn \in Nat
  BY SequenceOf DEF Numbered
<1>2. PICK n \in 0..Len(buf) : T = 1..n
  <2>1. CASE T = {}
    <3>1. T = 1..0
      BY <2>1
    <3>2. QED
      BY <1>1, <3>1
  <2>2. CASE T # {}
    <3>1. T \in SUBSET Nat /\ \A i \in T : i <= Len(buf)
      BY <1>1
    <3> HIDE DEF T
    <3>2. PICK m \in T : \A i \in T : i <= m
      BY <1>1, <2>2, <3>1, GreatestOf
    <3>3. m \in 1..Len(buf) /\ buf[m].sn < sn
      BY <1>1 DEF T
    <3>4. ASSUME NEW i \in 1..m PROVE i \in T
      <4>1. i \in 1..Len(buf) /\ (i = m \/ i < m)
        BY <1>1, <3>3
      <4>2. buf[i].sn < sn
        <5>1. CASE i = m
          BY <3>3, <5>1
        <5>2. CASE i < m
          <6>1. buf[i].sn < buf[m].sn
            BY <3>3, <4>1, <5>2 DEF Sorted
          <6>2. QED
            BY <1>1, <3>3, <4>1, <6>1
        <5>3. QED
          BY <4>1, <5>1, <5>2
      <4>3. QED
        BY <1>1, <4>1, <4>2 DEF T
    <3>5. ASSUME NEW i \in T PROVE i \in 1..m
      BY <1>1, <3>2, <3>5 DEF T
    <3>6. T = 1..m
      BY <3>4, <3>5
    <3>7. QED
      BY <1>1, <3>3, <3>6
  <2>3. QED
    BY <2>1, <2>2
<1>3. Before(buf, sn) = n
  <2>1. Cardinality(1..n) = n
    <3>1. Cardinality(1..n) = IF 1 > n THEN 0 ELSE n - 1 + 1
      BY FS_Interval
    <3>2. QED
      BY <1>1, <3>1
  <2>2. QED
    BY <1>2, <2>1 DEF Before
<1>4. ASSUME NEW i \in 1..Len(buf) PROVE i <= n <=> buf[i].sn < sn
  <2>1. i \in T <=> buf[i].sn < sn
    BY <1>1
  <2>2. i \in 1..n <=> i <= n
    BY <1>1
  <2>3. QED
    BY <1>2, <2>1, <2>2
<1>5. QED
  BY <1>2, <1>3, <1>4

\* The end of a sequence.
LEMMA EndOf ==
  ASSUME NEW S, NEW q \in Seq(S), NEW n \in 0..Len(q)
  PROVE  LET r == SubSeq(q, n + 1, Len(q))
         IN r \in Seq(S) /\ Len(r) = Len(q) - n /\ \A i \in 1..(Len(q) - n) : r[i] = q[i + n]
<1> DEFINE r == SubSeq(q, n + 1, Len(q))
<1>1. Len(q) \in Nat /\ \A i \in 1..Len(q) : q[i] \in S
  BY SequenceOf
<1>2. \A i \in (n + 1)..Len(q) : q[i] \in S
  BY <1>1
<1>3. /\ r \in Seq(S)
      /\ Len(r) = IF n + 1 <= Len(q) THEN Len(q) - (n + 1) + 1 ELSE 0
      /\ \A i \in 1..(Len(q) - (n + 1) + 1) : r[i] = q[n + 1 + i - 1]
  <2> n + 1 \in Int /\ Len(q) \in Int
    BY <1>1
  <2> HIDE DEF r
  <2>1. QED
    BY <1>2, SubSeqProperties DEF r
<1> HIDE DEF r
<1>4. Len(r) = Len(q) - n
  BY <1>1, <1>3
<1>5. ASSUME NEW i \in 1..(Len(q) - n) PROVE r[i] = q[i + n]
  <2>1. i \in 1..(Len(q) - (n + 1) + 1) /\ n + 1 + i - 1 = i + n
    BY <1>1
  <2>2. QED
    BY <1>3, <2>1
<1>6. QED
  BY <1>3, <1>4, <1>5 DEF r

\* The front of a sequence.
LEMMA FrontOf ==
  ASSUME NEW S, NEW q \in Seq(S), NEW n \in 0..Len(q)
  PROVE  LET r == SubSeq(q, 1, n)
         IN r \in Seq(S) /\ Len(r) = n /\ \A i \in 1..n : r[i] = q[i]
<1> DEFINE r == SubSeq(q, 1, n)
<1>1. Len(q) \in Nat /\ \A i \in 1..Len(q) : q[i] \in S
  BY SequenceOf
<1>2. \A i \in 1..n : q[i] \in S
  BY <1>1
<1>3. /\ r \in Seq(S)
      /\ Len(r) = IF 1 <= n THEN n - 1 + 1 ELSE 0
      /\ \A i \in 1..(n - 1 + 1) : r[i] = q[1 + i - 1]
  <2> 1 \in Int /\ n \in Int
    BY <1>1
  <2> HIDE DEF r
  <2>1. QED
    BY <1>2, SubSeqProperties DEF r
<1> HIDE DEF r
<1>4. Len(r) = n
  BY <1>1, <1>3
<1>5. ASSUME NEW i \in 1..n PROVE r[i] = q[i]
  <2>1. i \in 1..(n - 1 + 1) /\ 1 + i - 1 = i
    BY <1>1
  <2>2. QED
    BY <1>3, <2>1
<1>6. QED
  BY <1>3, <1>4, <1>5 DEF r

\* What is left of a buffer without its first segments.
LEMMA Dropped ==
  ASSUME NEW S, Numbered(S), NEW buf \in Seq(S), Sorted(buf), NEW n \in 0..Len(buf)
  PROVE  LET r == SubSeq(buf, n + 1, Len(buf))
         IN /\ r \in Seq(S) /\ Sorted(r) /\ Len(r) = Len(buf) - n
            /\ \A i \in 1..(Len(buf) - n) : r[i] = buf[i + n]
            /\ Numbers(r) = {buf[i].sn : i \in (n + 1)..Len(buf)}
<1> DEFINE r == SubSeq(buf, n + 1, Len(buf))
<1>1. r \in Seq(S) /\ Len(r) = Len(buf) - n /\ \A i \in 1..(Len(buf) - n) : r[i] = buf[i + n]
  BY EndOf
<1>2. Len(buf) \in Nat /\ DOMAIN r = 1..(Len(buf) - n)
  BY <1>1, SequenceOf
<1> HIDE DEF r
<1>3. Sorted(r)
  <2>1. SUFFICES ASSUME NEW i \in 1..(Len(buf) - n), NEW j \in 1..(Len(buf) - n), i < j
                 PROVE  r[i].sn < r[j].sn
    BY <1>1 DEF Sorted
  <2>2. i + n \in 1..Len(buf) /\ j + n \in 1..Len(buf) /\ i + n < j + n
    BY <1>2, <2>1
  <2>3. QED
    BY <1>1, <2>2 DEF Sorted
<1>4. Numbers(r) = {buf[i].sn : i \in (n + 1)..Len(buf)}
  <2>1. ASSUME NEW i \in 1..(Len(buf) - n) PROVE i + n \in (n + 1)..Len(buf)
    BY <1>2
  <2>2. ASSUME NEW i \in (n + 1)..Len(buf) PROVE i - n \in 1..(Len(buf) - n) /\ (i - n) + n = i
    BY <1>2
  <2>3. Numbers(r) = {r[i].sn : i \in 1..(Len(buf) - n)}
    BY <1>2 DEF Numbers
  <2>4. ASSUME NEW i \in 1..(Len(buf) - n) PROVE r[i].sn \in {buf[h].sn : h \in (n + 1)..Len(buf)}
    BY <1>1, <2>1
  <2>5. ASSUME NEW i \in (n + 1)..Len(buf) PROVE buf[i].sn \in {r[h].sn : h \in 1..(Len(buf) - n)}
    <3>1. r[i - n] = buf[i]
      BY <1>1, <2>2
    <3>2. QED
      BY <2>2, <3>1
  <2>6. QED
    BY <2>3, <2>4, <2>5
<1>5. QED
  BY <1>1, <1>3, <1>4 DEF r

\* A buffer without one of its segments.
LEMMA Removed ==
  ASSUME NEW S, Numbered(S), NEW buf \in Seq(S), Sorted(buf), NEW p \in 1..Len(buf)
  PROVE  LET r == RemoveAt(buf, p)
         IN /\ r \in Seq(S) /\ Sorted(r) /\ Len(r) = Len(buf) - 1
            /\ \A i \in 1..(Len(buf) - 1) : r[i] = buf[IF i < p THEN i ELSE i + 1]
            /\ Numbers(r) = Numbers(buf) \ {buf[p].sn}
<1> DEFINE r == RemoveAt(buf, p)
           a == SubSeq(buf, 1, p - 1)
           b == SubSeq(buf, p + 1, Len(buf))
           at(i) == IF i < p THEN i ELSE i + 1
<1>1. Len(buf) \in Nat /\ DOMAIN buf = 1..Len(buf) /\ \A i \in 1..Len(buf) : buf[i] \in S /\ buf[i].sn \in Nat
  BY SequenceOf DEF Numbered
<1>2. a \in Seq(S) /\ Len(a) = p - 1 /\ \A i \in 1..(p - 1) : a[i] = buf[i]
  <2>1. p - 1 \in 0..Len(buf)
    BY <1>1
  <2> HIDE DEF a
  <2>2. QED
    BY <2>1, FrontOf DEF a
<1>3. b \in Seq(S) /\ Len(b) = Len(buf) - p /\ \A i \in 1..(Len(buf) - p) : b[i] = buf[i + p]
  <2>1. p \in 0..Len(buf)
    BY <1>1
  <2> HIDE DEF b
  <2>2. QED
    BY <2>1, EndOf DEF b
<1>4. r = a \o b
  BY DEF RemoveAt
<1> HIDE DEF a, b, r
<1>5. r \in Seq(S) /\ Len(r) = Len(buf) - 1
  <2>1. a \o b \in Seq(S) /\ Len(a \o b) = Len(a) + Len(b)
    BY <1>2, <1>3, ConcatProperties
  <2>2. QED
    BY <1>1, <1>2, <1>3, <1>4, <2>1
<1>6. ASSUME NEW i \in 1..(Len(buf) - 1) PROVE r[i] = buf[at(i)]
  <2>1. i \in 1..(Len(a) + Len(b))
    BY <1>1, <1>2, <1>3
  <2>2. r[i] = IF i <= Len(a) THEN a[i] ELSE b[i - Len(a)]
    BY <1>2, <1>3, <1>4, <2>1, ConcatProperties
  <2>3. CASE i < p
    <3>1. i <= Len(a) /\ i \in 1..(p - 1)
      BY <1>1, <1>2, <2>3
    <3>2. QED
      BY <1>2, <2>2, <2>3, <3>1
  <2>4. CASE ~ (i < p)
    <3>1. ~ (i <= Len(a)) /\ i - Len(a) \in 1..(Len(buf) - p) /\ i - Len(a) + p = i + 1
      BY <1>1, <1>2, <2>4
    <3>2. QED
      BY <1>3, <2>2, <2>4, <3>1
  <2>5. QED
    BY <2>3, <2>4
<1>7. \A i \in 1..(Len(buf) - 1) : at(i) \in 1..Len(buf) /\ at(i) # p
  BY <1>1
<1>8. DOMAIN r = 1..(Len(buf) - 1)
  BY <1>5, SequenceOf
<1>9. Sorted(r)
  <2>1. SUFFICES ASSUME NEW i \in 1..(Len(buf) - 1), NEW j \in 1..(Len(buf) - 1), i < j
                 PROVE  r[i].sn < r[j].sn
    BY <1>5 DEF Sorted
  <2>2. at(i) < at(j)
    BY <1>1, <2>1
  <2> HIDE DEF at
  <2>3. QED
    BY <1>6, <1>7, <2>2 DEF Sorted
<1>10. Numbers(r) = Numbers(buf) \ {buf[p].sn}
  <2>1. Numbers(r) = {r[i].sn : i \in 1..(Len(buf) - 1)} /\ Numbers(buf) = {buf[i].sn : i \in 1..Len(buf)}
    BY <1>1, <1>8 DEF Numbers
  <2>2. ASSUME NEW i \in 1..Len(buf), i # p PROVE buf[i].sn # buf[p].sn
    <3>1. i < p \/ p < i
      BY <1>1, <2>2
    <3>2. buf[i].sn < buf[p].sn \/ buf[p].sn < buf[i].sn
      BY <3>1 DEF Sorted
    <3>3. QED
      BY <1>1, <3>2
  <2>3. ASSUME NEW i \in 1..(Len(buf) - 1) PROVE r[i].sn \in Numbers(buf) \ {buf[p].sn}
    <3> HIDE DEF at
    <3>1. QED
      BY <1>6, <1>7, <2>1, <2>2
  <2>4. ASSUME NEW i \in 1..Len(buf), i # p PROVE \E h \in 1..(Len(buf) - 1) : at(h) = i
    <3>1. CASE i < p
      <4>1. i \in 1..(Len(buf) - 1) /\ at(i) = i
        BY <1>1, <3>1
      <4>2. QED
        BY <4>1
    <3>2. CASE ~ (i < p)
      <4>1. i - 1 \in 1..(Len(buf) - 1) /\ at(i - 1) = i
        BY <1>1, <2>4, <3>2
      <4>2. QED
        BY <4>1
    <3>3. QED
      BY <3>1, <3>2
  <2> HIDE DEF at
  <2>5. ASSUME NEW i \in 1..Len(buf), i # p PROVE buf[i].sn \in Numbers(r)
    BY <1>6, <2>1, <2>4, <2>5
  <2>6. QED
    BY <2>1, <2>3, <2>5
<1>11. QED
  BY <1>5, <1>6, <1>9, <1>10 DEF r

\* A segment takes the place of its number in a buffer.
LEMMA Inserted ==
  ASSUME NEW S, Numbered(S), NEW buf \in Seq(S), Sorted(buf), NEW s \in S, ~ Holds(buf, s.sn)
  PROVE  LET r == InsertAt(buf, Before(buf, s.sn) + 1, s)
         IN /\ r \in Seq(S) /\ Sorted(r) /\ Len(r) = Len(buf) + 1
            /\ \A i \in 1..Len(r) : r[i] = s \/ \E h \in 1..Len(buf) : r[i] = buf[h]
            /\ Numbers(r) = Numbers(buf) \cup {s.sn}
<1> DEFINE p == Before(buf, s.sn) + 1
           r == InsertAt(buf, p, s)
           a == SubSeq(buf, 1, p - 1)
           b == SubSeq(buf, p, Len(buf))
           N == Len(buf)
<1>1. N \in Nat /\ DOMAIN buf = 1..N /\ s.sn \in Nat /\ \A i \in 1..N : buf[i] \in S /\ buf[i].sn \in Nat
  BY SequenceOf DEF Numbered
<1>2. p \in 1..(N + 1) /\ \A i \in 1..N : i < p <=> buf[i].sn < s.sn
  <2>1. Before(buf, s.sn) \in 0..N /\ \A i \in 1..N : i <= Before(buf, s.sn) <=> buf[i].sn < s.sn
    <3>1. ASSUME NEW sn \in Int
          PROVE  Before(buf, sn) \in 0..Len(buf) /\ \A i \in 1..Len(buf) : i <= Before(buf, sn) <=> buf[i].sn < sn
      <4> HIDE DEF N, r, a, b
      <4>1. QED
        BY BeforeIs
    <3>2. s.sn \in Int
      BY <1>1
    <3>3. QED
      BY <3>1, <3>2
  <2>2. \A i \in 1..N : i < p <=> i <= Before(buf, s.sn)
    BY <1>1, <2>1
  <2>3. QED
    BY <1>1, <2>1, <2>2
<1> HIDE DEF p
<1>3. a \in Seq(S) /\ Len(a) = p - 1 /\ \A i \in 1..(p - 1) : a[i] = buf[i]
  <2>1. p - 1 \in 0..Len(buf)
    BY <1>1, <1>2
  <2> HIDE DEF a
  <2>2. QED
    BY <2>1, FrontOf DEF a
<1>4. b \in Seq(S) /\ Len(b) = N - (p - 1) /\ \A i \in 1..(N - (p - 1)) : b[i] = buf[i + (p - 1)]
  <2>1. p - 1 \in 0..Len(buf) /\ (p - 1) + 1 = p
    BY <1>1, <1>2
  <2>2. b = SubSeq(buf, (p - 1) + 1, Len(buf))
    BY <2>1
  <2> HIDE DEF b
  <2>3. QED
    BY <2>1, <2>2, EndOf
<1>5. r = (a \o <<s>>) \o b
  BY DEF InsertAt
<1> HIDE DEF a, b, r
<1>6. /\ a \o <<s>> \in Seq(S) /\ Len(a \o <<s>>) = p
      /\ \A i \in 1..p : (a \o <<s>>)[i] = IF i < p THEN buf[i] ELSE s
  <2>1. <<s>> \in Seq(S) /\ Len(<<s>>) = 1 /\ <<s>>[1] = s
    OBVIOUS
  <2>2. /\ a \o <<s>> \in Seq(S) /\ Len(a \o <<s>>) = Len(a) + Len(<<s>>)
        /\ \A i \in 1..(Len(a) + Len(<<s>>)) : (a \o <<s>>)[i] = IF i <= Len(a) THEN a[i] ELSE <<s>>[i - Len(a)]
    BY <1>3, <2>1, ConcatProperties
  <2>3. Len(a) + Len(<<s>>) = p
    BY <1>2, <1>3, <2>1
  <2>4. ASSUME NEW i \in 1..p PROVE (a \o <<s>>)[i] = IF i < p THEN buf[i] ELSE s
    <3>1. CASE i < p
      <4>1. i <= Len(a) /\ i \in 1..(p - 1)
        BY <1>2, <1>3, <3>1
      <4>2. QED
        BY <1>3, <2>2, <2>3, <3>1, <4>1
    <3>2. CASE ~ (i < p)
      <4>1. ~ (i <= Len(a)) /\ i - Len(a) = 1
        BY <1>2, <1>3, <3>2
      <4>2. QED
        BY <2>1, <2>2, <2>3, <3>2, <4>1
    <3>3. QED
      BY <3>1, <3>2
  <2>5. QED
    BY <2>2, <2>3, <2>4
<1>7. r \in Seq(S) /\ Len(r) = N + 1
  <2> DEFINE c == a \o <<s>>
  <2> HIDE DEF c
  <2>1. c \in Seq(S) /\ r = c \o b /\ Len(c) = p
    BY <1>5, <1>6 DEF c
  <2>3. r \in Seq(S) /\ Len(r) = Len(c) + Len(b)
    BY <1>4, <2>1, ConcatProperties
  <2>2. QED
    BY <1>1, <1>2, <1>4, <2>1, <2>3
<1>8. ASSUME NEW i \in 1..(N + 1) PROVE r[i] = IF i < p THEN buf[i] ELSE IF i = p THEN s ELSE buf[i - 1]
  <2>1. i \in 1..(Len(a \o <<s>>) + Len(b))
    BY <1>1, <1>2, <1>4, <1>6
  <2>2. r[i] = IF i <= p THEN (a \o <<s>>)[i] ELSE b[i - p]
    BY <1>4, <1>5, <1>6, <2>1, ConcatProperties
  <2>3. CASE i <= p
    <3>1. i \in 1..p /\ (i < p \/ i = p)
      BY <1>2, <2>3
    <3>2. QED
      BY <1>2, <1>6, <2>2, <2>3, <3>1
  <2>4. CASE ~ (i <= p)
    <3>1. ~ (i < p) /\ i # p /\ i - p \in 1..(N - (p - 1)) /\ i - p + (p - 1) = i - 1
      BY <1>1, <1>2, <2>4
    <3>2. QED
      BY <1>4, <2>2, <2>4, <3>1
  <2>5. QED
    BY <2>3, <2>4
<1>9. \A i \in 1..N : buf[i].sn # s.sn
  BY <1>1 DEF Holds
<1>10. Sorted(r)
  <2>1. SUFFICES ASSUME NEW i \in 1..(N + 1), NEW j \in 1..(N + 1), i < j
                 PROVE  r[i].sn < r[j].sn
    BY <1>7 DEF Sorted
  <2>2. CASE j < p
    <3>1. i < p /\ i \in 1..N /\ j \in 1..N
      BY <1>1, <1>2, <2>1, <2>2
    <3>2. QED
      BY <1>8, <2>1, <2>2, <3>1 DEF Sorted
  <2>3. CASE j = p
    <3>1. i < p /\ i \in 1..N /\ ~ (j < p)
      BY <1>1, <1>2, <2>1, <2>3
    <3>2. QED
      BY <1>2, <1>8, <2>3, <3>1
  <2>4. CASE j > p
    <3>1. j - 1 \in 1..N /\ ~ (j < p) /\ j # p /\ ~ (j - 1 < p)
      BY <1>1, <1>2, <2>1, <2>4
    <3>2. r[j] = buf[j - 1] /\ s.sn < buf[j - 1].sn
      BY <1>1, <1>2, <1>8, <1>9, <3>1
    <3>3. CASE i < p
      <4>1. i \in 1..N /\ i < j - 1 /\ r[i] = buf[i]
        BY <1>1, <1>2, <1>8, <3>1, <3>3
      <4>2. QED
        BY <3>1, <3>2, <4>1 DEF Sorted
    <3>4. CASE i = p
      BY <1>2, <1>8, <3>2, <3>4
    <3>5. CASE i > p
      <4>1. i - 1 \in 1..N /\ i - 1 < j - 1 /\ r[i] = buf[i - 1]
        BY <1>1, <1>2, <1>8, <2>1, <3>5
      <4>2. QED
        BY <3>1, <3>2, <4>1 DEF Sorted
    <3>6. QED
      BY <1>2, <3>3, <3>4, <3>5
  <2>5. QED
    BY <1>2, <2>2, <2>3, <2>4
<1>11. ASSUME NEW i \in 1..(N + 1) PROVE r[i] = s \/ \E h \in 1..N : r[i] = buf[h]
  <2>1. i < p => i \in 1..N
    BY <1>1, <1>2
  <2>2. ~ (i < p) /\ i # p => i - 1 \in 1..N
    BY <1>1, <1>2
  <2>3. QED
    BY <1>8, <2>1, <2>2
<1>12. Numbers(r) = Numbers(buf) \cup {s.sn}
  <2>1. Numbers(r) = {r[i].sn : i \in 1..(N + 1)} /\ Numbers(buf) = {buf[i].sn : i \in 1..N}
    BY <1>1, <1>7, SequenceOf DEF Numbers
  <2>2. ASSUME NEW h \in 1..N PROVE buf[h].sn \in Numbers(r)
    <3>1. CASE h < p
      <4>1. h \in 1..(N + 1) /\ r[h] = buf[h]
        BY <1>1, <1>8, <3>1
      <4>2. QED
        BY <2>1, <4>1
    <3>2. CASE ~ (h < p)
      <4>1. h + 1 \in 1..(N + 1) /\ ~ (h + 1 < p) /\ h + 1 # p /\ h + 1 - 1 = h
        BY <1>1, <1>2, <3>2
      <4>2. r[h + 1] = buf[h]
        BY <1>8, <4>1
      <4>3. QED
        BY <2>1, <4>1, <4>2
    <3>3. QED
      BY <3>1, <3>2
  <2>3. s.sn \in Numbers(r)
    <3>1. p \in 1..(N + 1) /\ ~ (p < p) /\ r[p] = s
      BY <1>2, <1>8
    <3>2. QED
      BY <2>1, <3>1
  <2>4. ASSUME NEW i \in 1..(N + 1) PROVE r[i].sn \in Numbers(buf) \cup {s.sn}
    BY <1>11, <2>1
  <2>5. QED
    BY <2>1, <2>2, <2>3, <2>4
<1>13. QED
  BY <1>7, <1>10, <1>11, <1>12 DEF r, p

USE IkcpAssumption

\* The fields of a block: those of its sending side, of its receiving side, the others.
Names == {"snd_una", "snd_nxt", "rcv_nxt", "snd_wnd", "rcv_wnd", "rmt_wnd", "cwnd", "incr", "ssthresh",
          "mtu", "mss", "fastresend", "nocwnd", "snd_queue", "rcv_queue", "snd_buf", "rcv_buf",
          "acklist", "probe", "probing", "updated"}
SendNames == {"snd_una", "snd_nxt", "snd_wnd", "snd_queue", "snd_buf"}
RecvNames == {"rcv_nxt", "rcv_wnd", "rcv_queue", "rcv_buf", "acklist"}
OtherNames == Names \ (SendNames \cup RecvNames)

\* The segments of snd_queue, of rcv_buf and rcv_queue, of snd_buf, of a datagram.
Fragment == [frg : Nat, msg : Nat, len : Int]
DataSegment == [sn : Nat, frg : Nat, msg : Nat, len : Int]
Sending == [sn : Nat, frg : Nat, msg : Nat, len : Int, xmit : Nat, fastack : Nat]
Header == [cmd : {"ack", "push", "wask", "wins"}, sn : Nat, frg : Nat, msg : Nat, len : Int,
           wnd : Int, una : Nat]

\* A fragment as segment n; the segments of snd_buf and of datagrams that carry one
\* of the segments S.
Piece(f, n) == [sn |-> n, frg |-> f.frg, msg |-> f.msg, len |-> f.len]
SendingOf(S) == {s \in Sending : Piece(s, s.sn) \in S}
HeaderOf(S) == {h \in Header : h.cmd = "push" => Piece(h, h.sn) \in S}

\* What an end has received; what has left its send buffer; the number of the next
\* segment for the application, and of the next one the application gives.
Held(k) == 0..(k.rcv_nxt - 1) \cup Numbers(k.rcv_buf)
Gone(k) == 0..(k.snd_nxt - 1) \ Numbers(k.snd_buf)
Passed(k) == k.rcv_nxt - Len(k.rcv_queue)
Given(k) == k.snd_nxt + Len(k.snd_queue)

\* A good block: every field has a value of its kind, only the segments S are in it,
\* the buffers are in the order of sn and inside the windows, and rcv_queue ends where
\* rcv_nxt begins; what acklist will acknowledge has been received.
Shape(k) == k = [x \in Names |-> k[x]]
QueueOK(k, S) ==
  /\ k.snd_queue \in Seq(Fragment)
  /\ \A i \in 1..Len(k.snd_queue) : Piece(k.snd_queue[i], k.snd_nxt + i - 1) \in S
SendOK(k, S) ==
  /\ k.snd_una \in Nat /\ k.snd_nxt \in Nat /\ k.snd_wnd \in Nat
  /\ QueueOK(k, S)
  /\ k.snd_buf \in Seq(SendingOf(S)) /\ Sorted(k.snd_buf)
  /\ \A i \in 1..Len(k.snd_buf) : k.snd_una <= k.snd_buf[i].sn /\ k.snd_buf[i].sn < k.snd_nxt
  /\ k.snd_una = IF k.snd_buf = <<>> THEN k.snd_nxt ELSE k.snd_buf[1].sn
  /\ k.snd_nxt - k.snd_una <= k.snd_wnd
RecvOK(k, S) ==
  /\ k.rcv_nxt \in Nat /\ k.rcv_wnd \in Nat
  /\ k.rcv_queue \in Seq(S)
  /\ \A i \in 1..Len(k.rcv_queue) : k.rcv_queue[i].sn = Passed(k) + i - 1
  /\ Len(k.rcv_queue) <= k.rcv_wnd
  /\ k.rcv_buf \in Seq(S) /\ Sorted(k.rcv_buf)
  /\ \A i \in 1..Len(k.rcv_buf) : k.rcv_nxt <= k.rcv_buf[i].sn /\ k.rcv_buf[i].sn < k.rcv_nxt + k.rcv_wnd
  /\ k.rcv_nxt \in Numbers(k.rcv_buf) => Len(k.rcv_queue) = k.rcv_wnd
  /\ k.acklist \in Seq(Nat) /\ \A i \in 1..Len(k.acklist) : k.acklist[i] \in Held(k)
OtherOK(k) ==
  /\ k.rmt_wnd \in Int /\ k.cwnd \in Int /\ k.incr \in Int /\ k.ssthresh \in Int
  /\ k.mtu \in Int /\ k.mss = Instance(0).mss /\ k.mss \in Nat \ {0} /\ k.fastresend \in Nat
  /\ k.probe \in SUBSET {"ask", "tell"}
  /\ k.nocwnd \in BOOLEAN /\ k.probing \in BOOLEAN /\ k.updated \in BOOLEAN
Good(k, S) == Shape(k) /\ SendOK(k, S) /\ RecvOK(k, S) /\ OtherOK(k)

\* Two blocks agree on the fields F.
Same(k, j, F) == \A y \in F : j[y] = k[y]

\* What the sending side keeps depends on its own fields.
LEMMA SameSend ==
  ASSUME NEW k, NEW j, NEW S, SendOK(k, S), Same(k, j, SendNames)
  PROVE  SendOK(j, S) /\ Gone(j) = Gone(k) /\ Given(j) = Given(k) /\ j.snd_nxt = k.snd_nxt
<1>1. /\ j.snd_una = k.snd_una /\ j.snd_nxt = k.snd_nxt /\ j.snd_wnd = k.snd_wnd
      /\ j.snd_queue = k.snd_queue /\ j.snd_buf = k.snd_buf
  BY DEF Same, SendNames
<1>2. SendOK(j, S)
  BY <1>1 DEF SendOK, QueueOK
<1>3. QED
  BY <1>1, <1>2 DEF Gone, Given

\* What the receiving side keeps depends on its own fields.
LEMMA SameRecv ==
  ASSUME NEW k, NEW j, NEW S, RecvOK(k, S), Same(k, j, RecvNames)
  PROVE  RecvOK(j, S) /\ Held(j) = Held(k) /\ Passed(j) = Passed(k) /\ j.rcv_nxt = k.rcv_nxt
<1>1. /\ j.rcv_nxt = k.rcv_nxt /\ j.rcv_wnd = k.rcv_wnd /\ j.rcv_queue = k.rcv_queue
      /\ j.rcv_buf = k.rcv_buf /\ j.acklist = k.acklist
  BY DEF Same, RecvNames
<1>2. Held(j) = Held(k) /\ Passed(j) = Passed(k)
  BY <1>1 DEF Held, Passed
<1>3. RecvOK(j, S)
  BY <1>1, <1>2 DEF RecvOK
<1>4. QED
  BY <1>1, <1>2, <1>3

\* What the other fields keep depends on these.
LEMMA SameOther ==
  ASSUME NEW k, NEW j, OtherOK(k), Same(k, j, OtherNames)
  PROVE  OtherOK(j) /\ j.fastresend = k.fastresend
<1>1. /\ j.rmt_wnd = k.rmt_wnd /\ j.cwnd = k.cwnd /\ j.incr = k.incr /\ j.ssthresh = k.ssthresh
      /\ j.mtu = k.mtu /\ j.mss = k.mss /\ j.fastresend = k.fastresend /\ j.probe = k.probe
      /\ j.nocwnd = k.nocwnd /\ j.probing = k.probing /\ j.updated = k.updated
  BY DEF Same, OtherNames, Names, SendNames, RecvNames
<1>2. QED
  BY <1>1 DEF OtherOK

----------------------------------------------------------------------------
(* The sending side. *)

\* The parts of segments have numbers.
LEMMA SendingNumbered == ASSUME NEW S PROVE Numbered(SendingOf(S))
BY DEF Numbered, SendingOf, Sending

\* The segments of the receiving side have numbers.
LEMMA DataNumbered == ASSUME NEW S \in SUBSET DataSegment PROVE Numbered(S)
BY DEF Numbered, DataSegment

\* The numbers in a buffer are natural numbers.
LEMMA NumbersOf ==
  ASSUME NEW S, Numbered(S), NEW buf \in Seq(S)
  PROVE  Numbers(buf) = {buf[i].sn : i \in 1..Len(buf)} /\ Numbers(buf) \in SUBSET Nat
BY SequenceOf DEF Numbers, Numbered

\* snd_una is not beyond snd_nxt.
LEMMA UnaIsBounded == ASSUME NEW k, NEW S, SendOK(k, S) PROVE k.snd_una <= k.snd_nxt
<1>1. CASE k.snd_buf = <<>>
  BY <1>1 DEF SendOK
<1>2. CASE k.snd_buf # <<>>
  <2>1. 1 \in 1..Len(k.snd_buf)
    BY <1>2, SequenceOf DEF SendOK
  <2>2. k.snd_buf[1].sn \in Nat
    BY <2>1, SendingNumbered, SequenceOf DEF SendOK, Numbered
  <2>3. QED
    BY <2>1, <2>2 DEF SendOK
<1>3. QED
  BY <1>1, <1>2

\* The send buffer loses segments, and then snd_una is set (ikcp_shrink_buf).
LEMMA Shrunk ==
  ASSUME NEW k, NEW j, NEW S, SendOK(k, S), Same(k, j, SendNames \ {"snd_una", "snd_buf"}),
         j.snd_buf \in Seq(SendingOf(S)), Sorted(j.snd_buf), Numbers(j.snd_buf) \subseteq Numbers(k.snd_buf),
         j.snd_una = IF j.snd_buf = <<>> THEN j.snd_nxt ELSE Head(j.snd_buf).sn
  PROVE  /\ SendOK(j, S) /\ Given(j) = Given(k) /\ j.snd_nxt = k.snd_nxt
         /\ Gone(j) \subseteq Gone(k) \cup (Numbers(k.snd_buf) \ Numbers(j.snd_buf))
<1>1. j.snd_nxt = k.snd_nxt /\ j.snd_wnd = k.snd_wnd /\ j.snd_queue = k.snd_queue
  BY DEF Same, SendNames
<1>2. /\ Numbers(j.snd_buf) = {j.snd_buf[i].sn : i \in 1..Len(j.snd_buf)} /\ Numbers(j.snd_buf) \in SUBSET Nat
      /\ Numbers(k.snd_buf) = {k.snd_buf[i].sn : i \in 1..Len(k.snd_buf)} /\ Numbers(k.snd_buf) \in SUBSET Nat
  <2>1. k.snd_buf \in Seq(SendingOf(S))
    BY DEF SendOK
  <2>2. QED
    BY <2>1, NumbersOf, SendingNumbered
<1>3. \A i \in 1..Len(j.snd_buf) : k.snd_una <= j.snd_buf[i].sn /\ j.snd_buf[i].sn < k.snd_nxt
  <2>1. SUFFICES ASSUME NEW i \in 1..Len(j.snd_buf)
                 PROVE  k.snd_una <= j.snd_buf[i].sn /\ j.snd_buf[i].sn < k.snd_nxt
    OBVIOUS
  <2>2. PICK h \in 1..Len(k.snd_buf) : j.snd_buf[i].sn = k.snd_buf[h].sn
    BY <1>2
  <2>3. QED
    BY <2>2 DEF SendOK
<1>4. Len(j.snd_buf) \in Nat /\ (j.snd_buf = <<>> <=> Len(j.snd_buf) = 0) /\ \A i \in 1..Len(j.snd_buf) : j.snd_buf[i].sn \in Nat
  BY SequenceOf, SendingNumbered DEF Numbered
<1>5. j.snd_una = IF j.snd_buf = <<>> THEN j.snd_nxt ELSE j.snd_buf[1].sn
  BY <1>4
<1>6. /\ k.snd_nxt \in Nat /\ k.snd_una \in Nat /\ k.snd_wnd \in Nat /\ k.snd_una <= k.snd_nxt
      /\ k.snd_nxt - k.snd_una <= k.snd_wnd
  BY UnaIsBounded DEF SendOK
<1>7. j.snd_una \in Nat /\ k.snd_una <= j.snd_una
  <2>1. CASE j.snd_buf = <<>>
    BY <1>1, <1>5, <1>6, <2>1
  <2>2. CASE j.snd_buf # <<>>
    <3>1. 1 \in 1..Len(j.snd_buf)
      BY <1>4, <2>2
    <3>2. QED
      BY <1>3, <1>4, <1>5, <2>2, <3>1
  <2>3. QED
    BY <2>1, <2>2
<1>8. ASSUME NEW i \in 1..Len(j.snd_buf) PROVE j.snd_una <= j.snd_buf[i].sn
  <2>1. 1 \in 1..Len(j.snd_buf) /\ j.snd_buf # <<>> /\ (i = 1 \/ 1 < i)
    BY <1>4
  <2>2. i = 1 \/ j.snd_buf[1].sn < j.snd_buf[i].sn
    BY <2>1 DEF Sorted
  <2>3. QED
    BY <1>4, <1>5, <2>1, <2>2
<1>9. j.snd_nxt - j.snd_una <= j.snd_wnd
  BY <1>1, <1>6, <1>7
<1>10. SendOK(j, S)
  <2>1. QueueOK(j, S)
    BY <1>1 DEF SendOK, QueueOK
  <2>2. QED
    BY <1>1, <1>3, <1>5, <1>6, <1>7, <1>8, <1>9, <2>1 DEF SendOK
<1>11. Gone(j) \subseteq Gone(k) \cup (Numbers(k.snd_buf) \ Numbers(j.snd_buf))
  BY <1>1 DEF Gone
<1>12. QED
  BY <1>1, <1>10, <1>11 DEF Given

\* The changes of an end: nothing it held is lost, of what it sends only the
\* segments G leave the send buffer, and only the segments P are new to it.
Changes(k, j, G, P) ==
  /\ Held(k) \subseteq Held(j) /\ Held(j) \subseteq Held(k) \cup P /\ k.rcv_nxt <= j.rcv_nxt
  /\ Gone(j) \subseteq Gone(k) \cup G /\ k.snd_nxt <= j.snd_nxt
  /\ j.fastresend = k.fastresend

\* No segment enters or leaves by way of the application.
Inside(k, j) == Given(j) = Given(k) /\ Passed(j) = Passed(k)

\* A message una: the window of the peer, ikcp_parse_una, ikcp_shrink_buf.
Seen(k, wnd, una) == ikcp_shrink_buf(ikcp_parse_una([k EXCEPT !.rmt_wnd = wnd], una))

\* A segment of a datagram first tells what the peer has received.
LEMMA SeenIs ==
  ASSUME NEW k, NEW S, Good(k, S), NEW wnd \in Int, NEW una \in Nat
  PROVE  LET j == Seen(k, wnd, una)
         IN Good(j, S) /\ Changes(k, j, 0..(una - 1), {}) /\ Inside(k, j)
<1> DEFINE a == [k EXCEPT !.rmt_wnd = wnd]
           n == Before(a.snd_buf, una)
           rest == SubSeq(a.snd_buf, n + 1, Len(a.snd_buf))
           b == ikcp_parse_una(a, una)
           head == IF b.snd_buf = <<>> THEN b.snd_nxt ELSE Head(b.snd_buf).sn
           j == ikcp_shrink_buf(b)
<1>1. Shape(k) /\ SendOK(k, S) /\ RecvOK(k, S) /\ OtherOK(k)
  BY DEF Good
<1>2. Shape(a) /\ a.rmt_wnd = wnd /\ Same(k, a, Names \ {"rmt_wnd"})
  BY <1>1 DEF Shape, Same, Names
<1>3. b = [a EXCEPT !.snd_buf = rest]
  BY DEF ikcp_parse_una
<1> HIDE DEF a, b, rest
<1>4. Shape(b) /\ b.snd_buf = rest /\ Same(a, b, Names \ {"snd_buf"})
  BY <1>2, <1>3 DEF Shape, Same, Names
<1>5. j = [b EXCEPT !.snd_una = head]
  BY DEF ikcp_shrink_buf
<1> HIDE DEF j, head
<1>6. Shape(j) /\ j.snd_una = head /\ Same(b, j, Names \ {"snd_una"})
  BY <1>4, <1>5 DEF Shape, Same, Names
<1>7. Same(k, j, Names \ {"rmt_wnd", "snd_buf", "snd_una"}) /\ j.rmt_wnd = wnd /\ j.snd_buf = rest
      /\ j.snd_una = IF j.snd_buf = <<>> THEN j.snd_nxt ELSE Head(j.snd_buf).sn
  <2>1. Same(k, j, Names \ {"rmt_wnd", "snd_buf", "snd_una"})
    BY <1>2, <1>4, <1>6 DEF Same
  <2>2. j.rmt_wnd = wnd /\ j.snd_buf = rest /\ j.snd_nxt = b.snd_nxt
    BY <1>2, <1>4, <1>6 DEF Same, Names
  <2>3. QED
    BY <1>4, <1>6, <2>1, <2>2 DEF head
<1>8. a.snd_buf = k.snd_buf
  BY <1>2 DEF Same, Names
<1>9. n \in 0..Len(k.snd_buf) /\ \A i \in 1..Len(k.snd_buf) : i <= n <=> k.snd_buf[i].sn < una
  <2>1. n = Before(k.snd_buf, una) /\ una \in Int
    BY <1>8
  <2>2. k.snd_buf \in Seq(SendingOf(S)) /\ Sorted(k.snd_buf) /\ Numbered(SendingOf(S))
    BY <1>1, SendingNumbered DEF SendOK
  <2> HIDE DEF n
  <2>3. QED
    BY <2>1, <2>2, BeforeIs
<1> HIDE DEF n
<1>10. rest \in Seq(SendingOf(S)) /\ Sorted(rest) /\ Numbers(rest) = {k.snd_buf[i].sn : i \in (n + 1)..Len(k.snd_buf)}
  <2>1. k.snd_buf \in Seq(SendingOf(S)) /\ Sorted(k.snd_buf)
    BY <1>1 DEF SendOK
  <2>2. rest = SubSeq(k.snd_buf, n + 1, Len(k.snd_buf))
    BY <1>8 DEF rest
  <2>3. QED
    <3> DEFINE T == SendingOf(S)
               buf == k.snd_buf
    <3>1. Numbered(T) /\ buf \in Seq(T) /\ Sorted(buf) /\ n \in 0..Len(buf) /\ rest = SubSeq(buf, n + 1, Len(buf))
      BY <1>9, <2>1, <2>2, SendingNumbered
    <3> HIDE DEF T, buf, rest
    <3>2. rest \in Seq(T) /\ Sorted(rest) /\ Numbers(rest) = {buf[i].sn : i \in (n + 1)..Len(buf)}
      BY <3>1, Dropped
    <3>3. QED
      BY <3>2 DEF T, buf
<1>11. Numbers(k.snd_buf) = {k.snd_buf[i].sn : i \in 1..Len(k.snd_buf)} /\ Numbers(k.snd_buf) \in SUBSET Nat
       /\ Len(k.snd_buf) \in Nat
  BY <1>1, NumbersOf, SendingNumbered, SequenceOf DEF SendOK
<1>12. Numbers(rest) \subseteq Numbers(k.snd_buf)
  BY <1>9, <1>10, <1>11
<1>13. Numbers(k.snd_buf) \ Numbers(rest) \subseteq 0..(una - 1)
  <2>1. ASSUME NEW i \in 1..Len(k.snd_buf), ~ (i <= n) PROVE k.snd_buf[i].sn \in Numbers(rest)
    <3>1. i \in (n + 1)..Len(k.snd_buf)
      BY <1>9, <1>11, <2>1
    <3>2. QED
      BY <1>10, <3>1
  <2>2. SUFFICES ASSUME NEW x \in Numbers(k.snd_buf), x \notin Numbers(rest) PROVE x \in 0..(una - 1)
    OBVIOUS
  <2>3. PICK i \in 1..Len(k.snd_buf) : x = k.snd_buf[i].sn
    BY <1>11
  <2>4. x < una /\ x \in Nat
    BY <1>9, <1>11, <2>1, <2>2, <2>3
  <2>5. QED
    BY <2>4
<1>14. Same(k, j, SendNames \ {"snd_una", "snd_buf"}) /\ Same(k, j, RecvNames) /\ Same(k, j, OtherNames \ {"rmt_wnd"})
  BY <1>7 DEF Same, Names, SendNames, RecvNames, OtherNames
<1>15. SendOK(j, S) /\ Given(j) = Given(k) /\ j.snd_nxt = k.snd_nxt /\ Gone(j) \subseteq Gone(k) \cup 0..(una - 1)
  <2>1. /\ SendOK(j, S) /\ Given(j) = Given(k) /\ j.snd_nxt = k.snd_nxt
        /\ Gone(j) \subseteq Gone(k) \cup (Numbers(k.snd_buf) \ Numbers(j.snd_buf))
    BY <1>1, <1>7, <1>10, <1>12, <1>14, Shrunk
  <2>2. QED
    BY <1>7, <1>13, <2>1
<1>16. RecvOK(j, S) /\ Held(j) = Held(k) /\ Passed(j) = Passed(k) /\ j.rcv_nxt = k.rcv_nxt
  BY <1>1, <1>14, SameRecv
<1>17. OtherOK(j) /\ j.fastresend = k.fastresend
  <2>1. /\ j.cwnd = k.cwnd /\ j.incr = k.incr /\ j.ssthresh = k.ssthresh
        /\ j.mtu = k.mtu /\ j.mss = k.mss /\ j.fastresend = k.fastresend /\ j.probe = k.probe
        /\ j.nocwnd = k.nocwnd /\ j.probing = k.probing /\ j.updated = k.updated
    BY <1>14 DEF Same, OtherNames, Names, SendNames, RecvNames
  <2>2. QED
    BY <1>1, <1>7, <2>1 DEF OtherOK
<1>18. k.snd_nxt \in Nat /\ k.rcv_nxt \in Nat
  BY <1>1 DEF SendOK, RecvOK
<1>19. QED
  BY <1>6, <1>15, <1>16, <1>17, <1>18 DEF Good, Changes, Inside, Seen, j, b, a

\* Where a buffer holds a number.
LEMMA HoldsAt ==
  ASSUME NEW S, Numbered(S), NEW buf \in Seq(S), Sorted(buf), NEW sn \in Int, Holds(buf, sn)
  PROVE  Before(buf, sn) + 1 \in 1..Len(buf) /\ buf[Before(buf, sn) + 1].sn = sn
<1>1. Len(buf) \in Nat /\ DOMAIN buf = 1..Len(buf) /\ \A i \in 1..Len(buf) : buf[i].sn \in Nat
  BY SequenceOf DEF Numbered
<1>2. PICK p \in 1..Len(buf) : buf[p].sn = sn
  BY <1>1 DEF Holds
<1> DEFINE n == Before(buf, sn)
<1>3. n \in 0..Len(buf) /\ \A i \in 1..Len(buf) : i <= n <=> buf[i].sn < sn
  BY BeforeIs
<1> HIDE DEF n
<1>4. ~ (p <= n)
  BY <1>1, <1>2, <1>3
<1>5. n + 1 \in 1..Len(buf) /\ ~ (n + 1 <= n)
  BY <1>1, <1>3, <1>4
<1>6. ~ (n + 1 < p)
  <2>1. n + 1 < p => buf[n + 1].sn < sn
    BY <1>2, <1>5 DEF Sorted
  <2>2. QED
    BY <1>3, <1>5, <2>1
<1>7. p = n + 1
  BY <1>1, <1>3, <1>4, <1>6
<1>8. QED
  BY <1>2, <1>7 DEF n

\* An acknowledgement takes its segment from the send buffer.
LEMMA InputAckIs ==
  ASSUME NEW k, NEW S, Good(k, S), NEW h \in Header
  PROVE  LET j == InputAck(k, h)
         IN Good(j, S) /\ Changes(k, j, {h.sn}, {}) /\ Inside(k, j)
<1> DEFINE sn == h.sn
           b == ikcp_parse_ack(k, sn)
           head == IF b.snd_buf = <<>> THEN b.snd_nxt ELSE Head(b.snd_buf).sn
           j == ikcp_shrink_buf(b)
<1>1. Shape(k) /\ SendOK(k, S) /\ RecvOK(k, S) /\ OtherOK(k)
  BY DEF Good
<1>2. sn \in Nat
  BY DEF Header
<1>3. /\ k.snd_buf \in Seq(SendingOf(S)) /\ Sorted(k.snd_buf) /\ Numbered(SendingOf(S))
      /\ Numbers(k.snd_buf) \in SUBSET Nat
  BY <1>1, SendingNumbered, NumbersOf DEF SendOK
<1> HIDE DEF sn, b
<1>4. /\ Shape(b) /\ Same(k, b, Names \ {"snd_buf"})
      /\ b.snd_buf \in Seq(SendingOf(S)) /\ Sorted(b.snd_buf)
      /\ Numbers(b.snd_buf) \subseteq Numbers(k.snd_buf) /\ Numbers(k.snd_buf) \ Numbers(b.snd_buf) \subseteq {sn}
  <2>1. CASE Outstanding(k, sn) /\ Holds(k.snd_buf, sn)
    <3> DEFINE p == Before(k.snd_buf, sn) + 1
               r == RemoveAt(k.snd_buf, p)
    <3>1. b = [k EXCEPT !.snd_buf = r]
      BY <2>1 DEF b, ikcp_parse_ack
    <3>2. p \in 1..Len(k.snd_buf) /\ k.snd_buf[p].sn = sn
      BY <1>2, <1>3, <2>1, HoldsAt
    <3> HIDE DEF p
    <3>3. r \in Seq(SendingOf(S)) /\ Sorted(r) /\ Numbers(r) = Numbers(k.snd_buf) \ {k.snd_buf[p].sn}
      BY <1>3, <3>2, Removed
    <3> HIDE DEF r
    <3>4. Shape(b) /\ Same(k, b, Names \ {"snd_buf"}) /\ b.snd_buf = r
      BY <1>1, <3>1 DEF Shape, Same, Names
    <3>5. QED
      BY <3>2, <3>3, <3>4
  <2>2. CASE ~ (Outstanding(k, sn) /\ Holds(k.snd_buf, sn))
    <3>1. b = k
      BY <2>2 DEF b, ikcp_parse_ack
    <3>2. QED
      BY <1>1, <1>3, <3>1 DEF Same
  <2>3. QED
    BY <2>1, <2>2
<1>5. j = [b EXCEPT !.snd_una = head]
  BY DEF ikcp_shrink_buf
<1> HIDE DEF j, head
<1>6. Shape(j) /\ j.snd_una = head /\ Same(b, j, Names \ {"snd_una"})
  BY <1>4, <1>5 DEF Shape, Same, Names
<1>7. /\ j.snd_buf = b.snd_buf /\ j.snd_una = IF j.snd_buf = <<>> THEN j.snd_nxt ELSE Head(j.snd_buf).sn
      /\ Same(k, j, SendNames \ {"snd_una", "snd_buf"}) /\ Same(k, j, RecvNames) /\ Same(k, j, OtherNames)
  <2>1. j.snd_buf = b.snd_buf /\ j.snd_nxt = b.snd_nxt
    BY <1>6 DEF Same, Names
  <2>2. Same(k, j, SendNames \ {"snd_una", "snd_buf"}) /\ Same(k, j, RecvNames) /\ Same(k, j, OtherNames)
    BY <1>4, <1>6 DEF Same, Names, SendNames, RecvNames, OtherNames
  <2>3. QED
    BY <1>6, <2>1, <2>2 DEF head
<1>8. /\ SendOK(j, S) /\ Given(j) = Given(k) /\ j.snd_nxt = k.snd_nxt
      /\ Gone(j) \subseteq Gone(k) \cup (Numbers(k.snd_buf) \ Numbers(j.snd_buf))
  BY <1>1, <1>4, <1>7, Shrunk
<1>9. RecvOK(j, S) /\ Held(j) = Held(k) /\ Passed(j) = Passed(k) /\ j.rcv_nxt = k.rcv_nxt
  BY <1>1, <1>7, SameRecv
<1>10. OtherOK(j) /\ j.fastresend = k.fastresend
  BY <1>1, <1>7, SameOther
<1>11. k.snd_nxt \in Nat /\ k.rcv_nxt \in Nat
  BY <1>1 DEF SendOK, RecvOK
<1>12. Gone(j) \subseteq Gone(k) \cup {sn}
  BY <1>4, <1>7, <1>8
<1>13. QED
  BY <1>6, <1>8, <1>9, <1>10, <1>11, <1>12 DEF Good, Changes, Inside, InputAck, j, b, sn

----------------------------------------------------------------------------
(* The receiving side. *)

\* What MoveAvailable asks of a block: rcv_buf may hold what is next.
BufferOK(k, S) ==
  /\ k.rcv_nxt \in Nat /\ k.rcv_wnd \in Nat
  /\ k.rcv_queue \in Seq(S)
  /\ \A i \in 1..Len(k.rcv_queue) : k.rcv_queue[i].sn = Passed(k) + i - 1
  /\ Len(k.rcv_queue) <= k.rcv_wnd
  /\ k.rcv_buf \in Seq(S) /\ Sorted(k.rcv_buf)
  /\ \A i \in 1..Len(k.rcv_buf) : k.rcv_nxt <= k.rcv_buf[i].sn /\ k.rcv_buf[i].sn < k.rcv_nxt + k.rcv_wnd
  /\ k.acklist \in Seq(Nat)

\* MoveAvailable leaves nothing that could be moved.
LEMMA MoveAvailableIs ==
  ASSUME NEW S \in SUBSET DataSegment, NEW k, Shape(k), BufferOK(k, S)
  PROVE  LET j == MoveAvailable(k)
         IN /\ Shape(j) /\ Same(k, j, Names \ {"rcv_queue", "rcv_buf", "rcv_nxt"})
            /\ BufferOK(j, S) /\ Held(j) = Held(k) /\ Passed(j) = Passed(k) /\ k.rcv_nxt <= j.rcv_nxt
            /\ j.rcv_nxt \in Numbers(j.rcv_buf) => Len(j.rcv_queue) = j.rcv_wnd
<1> DEFINE buf == k.rcv_buf
           q == k.rcv_queue
           N == Len(buf)
           M == {m \in 0..N : Ready(k, m)}
           n == Max(M)
           front == SubSeq(buf, 1, n)
           rest == SubSeq(buf, n + 1, N)
           j == MoveAvailable(k)
<1>1. /\ buf \in Seq(S) /\ Sorted(buf) /\ q \in Seq(S) /\ Numbered(S)
      /\ N \in Nat /\ Len(q) \in Nat /\ \A i \in 1..N : buf[i] \in S /\ buf[i].sn \in Nat
      /\ k.rcv_nxt \in Nat /\ k.rcv_wnd \in Nat /\ Len(q) <= k.rcv_wnd
  BY DataNumbered, SequenceOf DEF BufferOK, Numbered
<1>2. \A m \in 0..N : Ready(k, m) <=>
        (\A i \in 1..m : buf[i].sn = k.rcv_nxt + i - 1) /\ Len(q) + m <= k.rcv_wnd
  BY <1>1 DEF Ready, Largest
<1>3. n \in M /\ \A m \in M : m <= n
  <2>1. M \in SUBSET Nat /\ M # {} /\ \A m \in M : m <= N
    <3>1. 0 \in M
      BY <1>1, <1>2
    <3>2. QED
      BY <1>1, <3>1
  <2> HIDE DEF M
  <2>2. PICK g \in M : \A m \in M : m <= g
    BY <1>1, <2>1, GreatestOf
  <2>3. \A m \in M : g >= m
    BY <2>1, <2>2
  <2>4. n \in M /\ \A m \in M : n >= m
    BY <2>3 DEF Max
  <2>5. QED
    BY <2>1, <2>4
<1> HIDE DEF n, M
<1>4. n \in 0..N /\ Len(q) + n <= k.rcv_wnd /\ \A i \in 1..n : buf[i].sn = k.rcv_nxt + i - 1
  BY <1>2, <1>3 DEF M
<1>0. N \in Nat /\ Len(q) \in Nat /\ k.rcv_nxt \in Nat /\ k.rcv_wnd \in Nat /\ n \in Nat /\ n <= N /\ Len(q) + n <= k.rcv_wnd
  BY <1>1, <1>4
<1>5. n = N \/ buf[n + 1].sn # k.rcv_nxt + n \/ Len(q) + n = k.rcv_wnd
  <2>1. SUFFICES ASSUME n # N, buf[n + 1].sn = k.rcv_nxt + n, Len(q) + n # k.rcv_wnd PROVE FALSE
    OBVIOUS
  <2>2. n + 1 \in 0..N /\ Len(q) + (n + 1) <= k.rcv_wnd
    <3> HIDE DEF N, q
    <3>1. n + 1 \in 0..N
      BY <1>0, <2>1
    <3>2. Len(q) + n < k.rcv_wnd
      BY <1>0, <2>1
    <3>3. QED
      BY <1>0, <3>1, <3>2
  <2>3. \A i \in 1..(n + 1) : buf[i].sn = k.rcv_nxt + i - 1
    <3>1. \A i \in 1..(n + 1) : i \in 1..n \/ i = n + 1
      BY <1>4
    <3>2. k.rcv_nxt + (n + 1) - 1 = k.rcv_nxt + n
      BY <1>1, <1>4
    <3>3. QED
      BY <1>4, <2>1, <3>1, <3>2
  <2>4. n + 1 \in M
    BY <1>2, <2>2, <2>3 DEF M
  <2>5. n + 1 <= n
    BY <1>3, <2>4
  <2>6. QED
    BY <1>4, <2>5
<1>6. j = [k EXCEPT !.rcv_queue = q \o front, !.rcv_buf = rest, !.rcv_nxt = k.rcv_nxt + n]
  BY DEF MoveAvailable, n, M
<1>7. front \in Seq(S) /\ Len(front) = n /\ \A i \in 1..n : front[i] = buf[i]
  BY <1>1, <1>4, FrontOf
<1>8. /\ rest \in Seq(S) /\ Sorted(rest) /\ Len(rest) = N - n
      /\ \A i \in 1..(N - n) : rest[i] = buf[i + n]
      /\ Numbers(rest) = {buf[i].sn : i \in (n + 1)..N}
  <2> HIDE DEF buf
  <2>1. QED
    BY <1>1, <1>4, Dropped
<1> HIDE DEF front, rest, j
<1>9. /\ Shape(j) /\ Same(k, j, Names \ {"rcv_queue", "rcv_buf", "rcv_nxt"})
      /\ j.rcv_queue = q \o front /\ j.rcv_buf = rest /\ j.rcv_nxt = k.rcv_nxt + n
  BY <1>6 DEF Shape, Same, Names
<1>10. j.rcv_wnd = k.rcv_wnd /\ j.acklist = k.acklist
  BY <1>9 DEF Same, Names
<1>11. /\ q \o front \in Seq(S) /\ Len(q \o front) = Len(q) + n
       /\ \A i \in 1..(Len(q) + n) : (q \o front)[i] = IF i <= Len(q) THEN q[i] ELSE front[i - Len(q)]
  <2>1. q \in Seq(S) /\ front \in Seq(S) /\ Len(front) = n
    BY <1>1, <1>7
  <2> HIDE DEF q
  <2>2. QED
    BY <2>1, Joined
<1>12. Passed(j) = Passed(k) /\ Passed(k) = k.rcv_nxt - Len(q)
  BY <1>1, <1>4, <1>9, <1>11 DEF Passed
<1>13. ASSUME NEW i \in 1..(Len(q) + n) PROVE j.rcv_queue[i].sn = Passed(j) + i - 1
  <2>1. CASE i <= Len(q)
    <3>1. i \in 1..Len(q) /\ j.rcv_queue[i] = q[i]
      BY <1>1, <1>9, <1>11, <2>1
    <3>2. QED
      BY <1>12, <3>1 DEF BufferOK
  <2>2. CASE ~ (i <= Len(q))
    <3>1. i - Len(q) \in 1..n /\ j.rcv_queue[i] = front[i - Len(q)]
      <4>1. i - Len(q) \in 1..n
        BY <1>1, <1>4, <2>2
      <4>2. QED
        BY <1>9, <1>11, <2>2, <4>1
    <3>2. j.rcv_queue[i].sn = k.rcv_nxt + (i - Len(q)) - 1
      BY <1>4, <1>7, <3>1
    <3>3. QED
      BY <1>1, <1>4, <1>12, <3>2
  <2>3. QED
    BY <2>1, <2>2
<1>14. ASSUME NEW h \in (n + 1)..N PROVE h \in 1..N /\ k.rcv_nxt + n <= buf[h].sn /\ buf[h].sn < k.rcv_nxt + n + k.rcv_wnd
  <2>1. h \in 1..N /\ k.rcv_nxt <= buf[h].sn /\ buf[h].sn < k.rcv_nxt + k.rcv_wnd
    BY <1>1, <1>4 DEF BufferOK
  <2>2. CASE n = 0
    BY <1>1, <2>1, <2>2
  <2>3. CASE n # 0
    <3>1. n \in 1..n /\ n \in 1..N /\ n < h
      BY <1>1, <1>4, <2>3
    <3>2. buf[n].sn = k.rcv_nxt + n - 1 /\ buf[n].sn < buf[h].sn
      <4>1. buf[n].sn < buf[h].sn
        BY <1>1, <2>1, <3>1 DEF Sorted
      <4>2. QED
        BY <1>4, <3>1, <4>1
    <3>3. k.rcv_nxt + n <= buf[h].sn
      <4>1. buf[h].sn \in Nat /\ buf[n].sn \in Nat
        BY <1>1, <2>1, <3>1
      <4>2. QED
        <5> DEFINE x == buf[h].sn
                   y == buf[n].sn
        <5>1. x \in Nat /\ y \in Nat /\ y = k.rcv_nxt + n - 1 /\ y < x
          BY <3>2, <4>1
        <5> HIDE DEF x, y
        <5>2. k.rcv_nxt + n <= x
          BY <1>0, <5>1
        <5>3. QED
          BY <5>2 DEF x
    <3>4. buf[h].sn < k.rcv_nxt + n + k.rcv_wnd
      <4>1. buf[h].sn \in Nat
        BY <1>1, <2>1
      <4>2. QED
        BY <1>0, <2>1, <4>1
    <3>5. QED
      BY <2>1, <3>3, <3>4
  <2>4. QED
    BY <2>2, <2>3
<1>15. ASSUME NEW i \in 1..(N - n) PROVE j.rcv_nxt <= rest[i].sn /\ rest[i].sn < j.rcv_nxt + j.rcv_wnd
  <2>1. i + n \in (n + 1)..N
    BY <1>1, <1>4
  <2>2. QED
    BY <1>8, <1>9, <1>10, <1>14, <2>1
<1>16. BufferOK(j, S)
  <2>1. j.rcv_nxt \in Nat /\ j.rcv_wnd \in Nat /\ j.acklist \in Seq(Nat)
    BY <1>1, <1>4, <1>9, <1>10 DEF BufferOK
  <2>2. j.rcv_queue \in Seq(S) /\ Len(j.rcv_queue) = Len(q) + n /\ Len(j.rcv_queue) <= j.rcv_wnd
    BY <1>4, <1>9, <1>10, <1>11
  <2>3. QED
    BY <1>8, <1>9, <1>13, <1>15, <2>1, <2>2 DEF BufferOK
<1>17. Held(j) = Held(k)
  <2>1. Numbers(buf) = {buf[i].sn : i \in 1..N}
    BY <1>1, NumbersOf
  <2>2. ASSUME NEW x \in Held(k) PROVE x \in Held(j)
    <3>1. CASE x \in 0..(k.rcv_nxt - 1)
      <4>1. x \in 0..(j.rcv_nxt - 1)
        BY <1>1, <1>4, <1>9, <3>1
      <4>2. QED
        BY <4>1 DEF Held
    <3>2. CASE x \in Numbers(buf)
      <4>1. PICK i \in 1..N : x = buf[i].sn
        BY <2>1, <3>2
      <4>2. CASE i <= n
        <5>1. x = k.rcv_nxt + i - 1
          BY <1>4, <4>1, <4>2
        <5>2. x \in 0..(j.rcv_nxt - 1)
          BY <1>1, <1>4, <1>9, <4>2, <5>1
        <5>3. QED
          BY <5>2 DEF Held
      <4>3. CASE ~ (i <= n)
        <5>1. i \in (n + 1)..N
          BY <1>1, <1>4, <4>3
        <5>2. QED
          BY <1>8, <1>9, <4>1, <5>1 DEF Held
      <4>4. QED
        BY <4>2, <4>3
    <3>3. QED
      BY <3>1, <3>2 DEF Held
  <2>3. ASSUME NEW x \in Held(j) PROVE x \in Held(k)
    <3>1. CASE x \in 0..(j.rcv_nxt - 1)
      <4>1. CASE x < k.rcv_nxt
        BY <1>1, <1>4, <1>9, <3>1, <4>1 DEF Held
      <4>2. CASE ~ (x < k.rcv_nxt)
        <5>1. x - k.rcv_nxt + 1 \in 1..n /\ x = k.rcv_nxt + (x - k.rcv_nxt + 1) - 1
          <6>1. x \in Nat /\ x <= k.rcv_nxt + n - 1 /\ k.rcv_nxt <= x
            BY <1>0, <1>9, <3>1, <4>2
          <6>2. QED
            BY <1>0, <6>1
        <5>2. x - k.rcv_nxt + 1 \in 1..N
          BY <1>1, <1>4, <5>1
        <5>3. buf[x - k.rcv_nxt + 1].sn = x
          BY <1>4, <5>1
        <5>4. QED
          BY <2>1, <5>2, <5>3 DEF Held
      <4>3. QED
        BY <4>1, <4>2
    <3>2. CASE x \in Numbers(rest)
      <4>1. PICK i \in (n + 1)..N : x = buf[i].sn
        BY <1>8, <3>2
      <4>2. QED
        BY <1>14, <2>1, <4>1 DEF Held
    <3>3. QED
      BY <1>9, <3>1, <3>2 DEF Held
  <2>4. QED
    BY <2>2, <2>3
<1>18. ASSUME j.rcv_nxt \in Numbers(j.rcv_buf) PROVE Len(j.rcv_queue) = j.rcv_wnd
  <2>1. PICK i \in (n + 1)..N : k.rcv_nxt + n = buf[i].sn
    <3>1. j.rcv_nxt \in Numbers(rest)
      BY <1>9, <1>18
    <3>2. QED
      BY <1>8, <1>9, <3>1
  <2>2. n + 1 \in (n + 1)..N /\ n # N /\ (i = n + 1 \/ n + 1 < i)
    BY <1>1, <1>4
  <2>3. k.rcv_nxt + n <= buf[n + 1].sn /\ n + 1 \in 1..N /\ i \in 1..N /\ buf[n + 1].sn \in Nat
    BY <1>1, <1>14, <2>2
  <2>4. i = n + 1
    <3>1. n + 1 < i => buf[n + 1].sn < buf[i].sn
      BY <1>1, <2>3 DEF Sorted
    <3>2. QED
      BY <1>1, <1>4, <2>1, <2>2, <2>3, <3>1
  <2>5. Len(q) + n = k.rcv_wnd
    BY <1>5, <2>1, <2>2, <2>4
  <2>6. QED
    BY <1>9, <1>10, <1>11, <2>5
<1>19. k.rcv_nxt <= j.rcv_nxt
  BY <1>1, <1>4, <1>9
<1>20. QED
  BY <1>9, <1>12, <1>16, <1>17, <1>18, <1>19 DEF j

\* A segment of data is acknowledged; inside the window it takes its place.
LEMMA InputPushIs ==
  ASSUME NEW S \in SUBSET DataSegment, NEW k, Good(k, S), NEW h \in HeaderOf(S), h.cmd = "push"
  PROVE  LET j == InputPush(k, h)
         IN Good(j, S) /\ Changes(k, j, {}, {h.sn}) /\ Inside(k, j)
<1> DEFINE sn == h.sn
           data == Piece(h, h.sn)
           acked == ikcp_ack_push(k, sn)
           b == IF Holds(acked.rcv_buf, sn) THEN acked
                ELSE [acked EXCEPT !.rcv_buf = InsertAt(acked.rcv_buf, Before(acked.rcv_buf, sn) + 1, data)]
           j == InputPush(k, h)
<1>1. Shape(k) /\ SendOK(k, S) /\ RecvOK(k, S) /\ OtherOK(k)
  BY DEF Good
<1>2. sn \in Nat /\ data \in S /\ data.sn = sn
  BY DEF HeaderOf, Header, Piece
<1>3. /\ k.rcv_nxt \in Nat /\ k.rcv_wnd \in Nat /\ k.snd_nxt \in Nat /\ k.acklist \in Seq(Nat)
      /\ \A i \in 1..Len(k.acklist) : k.acklist[i] \in Held(k)
      /\ k.rcv_buf \in Seq(S) /\ Sorted(k.rcv_buf) /\ Numbered(S)
      /\ Numbers(k.rcv_buf) = {k.rcv_buf[i].sn : i \in 1..Len(k.rcv_buf)}
  <2>1. /\ k.rcv_nxt \in Nat /\ k.rcv_wnd \in Nat /\ k.acklist \in Seq(Nat)
        /\ \A i \in 1..Len(k.acklist) : k.acklist[i] \in Held(k)
        /\ k.rcv_buf \in Seq(S) /\ Sorted(k.rcv_buf)
    BY <1>1 DEF RecvOK
  <2>2. k.snd_nxt \in Nat
    BY <1>1 DEF SendOK
  <2>3. Numbered(S)
    BY DataNumbered
  <2>4. Numbers(k.rcv_buf) = {k.rcv_buf[i].sn : i \in 1..Len(k.rcv_buf)}
    BY <2>1, <2>3, NumbersOf
  <2>5. QED
    BY <2>1, <2>2, <2>3, <2>4
<1>4. acked = [k EXCEPT !.acklist = Append(k.acklist, sn)]
  BY DEF ikcp_ack_push
<1> HIDE DEF acked
<1>5. Shape(acked) /\ Same(k, acked, Names \ {"acklist"}) /\ acked.acklist = Append(k.acklist, sn)
  BY <1>1, <1>4 DEF Shape, Same, Names
<1>6. /\ acked.rcv_nxt = k.rcv_nxt /\ acked.rcv_wnd = k.rcv_wnd /\ acked.rcv_buf = k.rcv_buf
      /\ acked.rcv_queue = k.rcv_queue /\ Held(acked) = Held(k) /\ Passed(acked) = Passed(k)
  BY <1>5 DEF Same, Names, Held, Passed
<1>7. acked.acklist \in Seq(Nat) /\ \A i \in 1..Len(acked.acklist) : acked.acklist[i] \in Held(k) \cup {sn}
  <2>1. /\ acked.acklist \in Seq(Nat) /\ Len(acked.acklist) = Len(k.acklist) + 1 /\ Len(k.acklist) \in Nat
        /\ \A i \in 1..Len(k.acklist) : acked.acklist[i] = k.acklist[i]
        /\ acked.acklist[Len(k.acklist) + 1] = sn
    BY <1>2, <1>3, <1>5, AppendProperties, SequenceOf
  <2>2. SUFFICES ASSUME NEW i \in 1..Len(acked.acklist) PROVE acked.acklist[i] \in Held(k) \cup {sn}
    BY <2>1
  <2>3. i \in 1..Len(k.acklist) \/ i = Len(k.acklist) + 1
    BY <2>1
  <2>4. QED
    BY <1>3, <2>1, <2>3
<1>8. Same(k, acked, SendNames) /\ Same(k, acked, OtherNames)
  BY <1>5 DEF Same, Names, SendNames, RecvNames, OtherNames
<1>9. CASE sn >= k.rcv_nxt + k.rcv_wnd
  <2>1. j = k
    BY <1>9 DEF InputPush
  <2>2. Good(j, S) /\ Changes(k, j, {}, {h.sn}) /\ Inside(k, j)
    BY <1>3, <2>1 DEF Changes, Inside
  <2>3. QED
    BY <2>2
<1>10. CASE ~ (sn >= k.rcv_nxt + k.rcv_wnd) /\ ~ (sn >= k.rcv_nxt)
  <2>1. j = acked
    BY <1>10 DEF InputPush, acked
  <2>2. sn \in Held(k)
    BY <1>2, <1>3, <1>10 DEF Held
  <2>3. RecvOK(acked, S)
    BY <1>1, <1>6, <1>7, <2>2 DEF RecvOK
  <2>4. /\ SendOK(acked, S) /\ Given(acked) = Given(k) /\ acked.snd_nxt = k.snd_nxt /\ Gone(acked) = Gone(k)
        /\ OtherOK(acked) /\ acked.fastresend = k.fastresend
    BY <1>1, <1>8, SameSend, SameOther
  <2>5. Good(acked, S) /\ Changes(k, acked, {}, {h.sn}) /\ Inside(k, acked)
    BY <1>3, <1>5, <1>6, <2>3, <2>4 DEF Good, Changes, Inside
  <2>6. QED
    BY <2>1, <2>5
<1>11. CASE ~ (sn >= k.rcv_nxt + k.rcv_wnd) /\ sn >= k.rcv_nxt
  <2>1. j = ikcp_parse_data(acked, h)
    BY <1>11 DEF InputPush, acked
  <2>2. j = MoveAvailable(b)
    <3>1. ~ (h.sn >= acked.rcv_nxt + acked.rcv_wnd) /\ ~ (h.sn < acked.rcv_nxt)
      BY <1>2, <1>3, <1>6, <1>11
    <3> HIDE DEF j
    <3>2. QED
      BY <2>1, <3>1 DEF ikcp_parse_data, Piece
  <2>3. /\ Shape(b) /\ Same(acked, b, Names \ {"rcv_buf"})
        /\ b.rcv_buf \in Seq(S) /\ Sorted(b.rcv_buf)
        /\ Numbers(b.rcv_buf) = Numbers(k.rcv_buf) \cup {sn}
    <3>1. CASE Holds(acked.rcv_buf, sn)
      <4>1. b = acked /\ sn \in Numbers(k.rcv_buf)
        BY <1>6, <3>1 DEF Holds, Numbers
      <4>2. QED
        BY <1>3, <1>5, <1>6, <4>1 DEF Same
    <3>2. CASE ~ Holds(acked.rcv_buf, sn)
      <4> DEFINE r == InsertAt(k.rcv_buf, Before(k.rcv_buf, sn) + 1, data)
      <4>1. r \in Seq(S) /\ Sorted(r) /\ Numbers(r) = Numbers(k.rcv_buf) \cup {sn}
        <5> HIDE DEF data, b
        <5>1. r = InsertAt(k.rcv_buf, Before(k.rcv_buf, data.sn) + 1, data) /\ ~ Holds(k.rcv_buf, data.sn)
          BY <1>2, <1>6, <3>2
        <5> HIDE DEF r
        <5>2. k.rcv_buf \in Seq(S) /\ Sorted(k.rcv_buf) /\ Numbered(S) /\ data \in S /\ ~ Holds(k.rcv_buf, data.sn)
          BY <1>2, <1>3, <5>1
        <5>3. LET x == InsertAt(k.rcv_buf, Before(k.rcv_buf, data.sn) + 1, data)
              IN x \in Seq(S) /\ Sorted(x) /\ Numbers(x) = Numbers(k.rcv_buf) \cup {data.sn}
          BY <5>2, Inserted
        <5>4. QED
          BY <1>2, <5>1, <5>3
      <4>2. b = [acked EXCEPT !.rcv_buf = r]
        BY <1>6, <3>2
      <4> HIDE DEF r, b
      <4>3. Shape(b) /\ b.rcv_buf = r /\ Same(acked, b, Names \ {"rcv_buf"})
        BY <1>5, <4>2 DEF Shape, Same, Names
      <4>4. QED
        BY <4>1, <4>3
    <3>3. QED
      BY <3>1, <3>2
  <2> HIDE DEF b, data
  <2>4. /\ b.rcv_nxt = k.rcv_nxt /\ b.rcv_wnd = k.rcv_wnd /\ b.rcv_queue = k.rcv_queue /\ b.acklist = acked.acklist
        /\ Held(b) = Held(k) \cup {sn} /\ Passed(b) = Passed(k)
    <3>1. b.rcv_nxt = k.rcv_nxt /\ b.rcv_wnd = k.rcv_wnd /\ b.rcv_queue = k.rcv_queue /\ b.acklist = acked.acklist
      BY <1>6, <2>3 DEF Same, Names
    <3>2. QED
      BY <2>3, <3>1 DEF Held, Passed
  <2>5. BufferOK(b, S)
    <3>1. Numbers(b.rcv_buf) = {b.rcv_buf[i].sn : i \in 1..Len(b.rcv_buf)}
      BY <1>3, <2>3, NumbersOf
    <3>2. ASSUME NEW i \in 1..Len(b.rcv_buf)
          PROVE  k.rcv_nxt <= b.rcv_buf[i].sn /\ b.rcv_buf[i].sn < k.rcv_nxt + k.rcv_wnd
      <4>1. b.rcv_buf[i].sn \in Numbers(k.rcv_buf) \/ b.rcv_buf[i].sn = sn
        BY <2>3, <3>1
      <4>2. CASE b.rcv_buf[i].sn \in Numbers(k.rcv_buf)
        <5>1. PICK g \in 1..Len(k.rcv_buf) : b.rcv_buf[i].sn = k.rcv_buf[g].sn
          BY <1>3, <4>2
        <5>2. QED
          BY <1>1, <5>1 DEF RecvOK
      <4>3. CASE b.rcv_buf[i].sn = sn
        BY <1>2, <1>3, <1>11, <4>3
      <4>4. QED
        BY <4>1, <4>2, <4>3
    <3>3. \A i \in 1..Len(b.rcv_queue) : b.rcv_queue[i].sn = Passed(b) + i - 1
      BY <1>1, <2>4 DEF RecvOK
    <3>4. QED
      BY <1>1, <1>7, <2>3, <2>4, <3>2, <3>3 DEF BufferOK, RecvOK
  <2>6. /\ Shape(j) /\ Same(b, j, Names \ {"rcv_queue", "rcv_buf", "rcv_nxt"})
        /\ BufferOK(j, S) /\ Held(j) = Held(b) /\ Passed(j) = Passed(b) /\ b.rcv_nxt <= j.rcv_nxt
        /\ j.rcv_nxt \in Numbers(j.rcv_buf) => Len(j.rcv_queue) = j.rcv_wnd
    BY <2>2, <2>3, <2>5, MoveAvailableIs
  <2> HIDE DEF j
  <2>7. Same(k, j, SendNames) /\ Same(k, j, OtherNames) /\ j.acklist = b.acklist
    <3>1. Same(b, j, SendNames) /\ Same(b, j, OtherNames) /\ j.acklist = b.acklist
      BY <2>6 DEF Same, Names, SendNames, RecvNames, OtherNames
    <3>2. Same(acked, b, SendNames) /\ Same(acked, b, OtherNames)
      BY <2>3 DEF Same, Names, SendNames, RecvNames, OtherNames
    <3>3. QED
      BY <1>8, <3>1, <3>2 DEF Same
  <2>8. RecvOK(j, S)
    <3>1. j.acklist \in Seq(Nat) /\ \A i \in 1..Len(j.acklist) : j.acklist[i] \in Held(j)
      BY <1>7, <2>4, <2>6, <2>7
    <3>2. QED
      BY <2>6, <3>1 DEF RecvOK, BufferOK
  <2>9. /\ SendOK(j, S) /\ Given(j) = Given(k) /\ j.snd_nxt = k.snd_nxt /\ Gone(j) = Gone(k)
        /\ OtherOK(j) /\ j.fastresend = k.fastresend
    BY <1>1, <2>7, SameSend, SameOther
  <2>10. Good(j, S) /\ Changes(k, j, {}, {sn}) /\ Inside(k, j)
    BY <1>3, <2>4, <2>6, <2>8, <2>9 DEF Good, Changes, Inside
  <2>11. QED
    BY <2>10 DEF j
<1>12. QED
  <2> HIDE DEF j
  <2>1. QED
    BY <1>9, <1>10, <1>11 DEF j

\* Changes one after the other.
LEMMA ChangesAfter ==
  ASSUME NEW k, NEW j, NEW l, NEW G, NEW P, NEW G1, NEW P1, G1 \subseteq G, P1 \subseteq P,
         k.rcv_nxt \in Nat, j.rcv_nxt \in Nat, l.rcv_nxt \in Nat,
         k.snd_nxt \in Nat, j.snd_nxt \in Nat, l.snd_nxt \in Nat,
         Changes(k, j, G, P), Changes(j, l, G1, P1)
  PROVE  Changes(k, l, G, P)
<1>1. k.rcv_nxt <= l.rcv_nxt /\ k.snd_nxt <= l.snd_nxt
  BY DEF Changes
<1>2. Held(k) \subseteq Held(l) /\ Held(l) \subseteq Held(k) \cup P /\ Gone(l) \subseteq Gone(k) \cup G
  BY DEF Changes
<1>3. QED
  BY <1>1, <1>2 DEF Changes

\* What the window and probe fields say does not matter to the queues.
LEMMA OtherFields ==
  ASSUME NEW S, NEW k, NEW j, Good(k, S), Shape(j), OtherOK(j), j.fastresend = k.fastresend,
         Same(k, j, SendNames), Same(k, j, RecvNames)
  PROVE  Good(j, S) /\ Changes(k, j, {}, {}) /\ Inside(k, j)
<1>1. SendOK(k, S) /\ RecvOK(k, S)
  BY DEF Good
<1>2. SendOK(j, S) /\ Given(j) = Given(k) /\ j.snd_nxt = k.snd_nxt /\ Gone(j) = Gone(k)
  BY <1>1, SameSend
<1>3. RecvOK(j, S) /\ Held(j) = Held(k) /\ Passed(j) = Passed(k) /\ j.rcv_nxt = k.rcv_nxt
  BY <1>1, SameRecv
<1>4. k.snd_nxt \in Nat /\ k.rcv_nxt \in Nat
  BY <1>1 DEF SendOK, RecvOK
<1>5. QED
  BY <1>2, <1>3, <1>4 DEF Good, Changes, Inside

\* What a segment acknowledges, and what it brings.
Acknowledged(h) == 0..(h.una - 1) \cup (IF h.cmd = "ack" THEN {h.sn} ELSE {})
Brought(h) == IF h.cmd = "push" THEN {h.sn} ELSE {}

\* What one segment of a datagram does to a block, whatever its command (InputSegment).
LEMMA InputSegmentIs ==
  ASSUME NEW S \in SUBSET DataSegment, NEW k, Good(k, S), NEW h \in HeaderOf(S)
  PROVE  LET j == InputSegment(k, h)
         IN Good(j, S) /\ Changes(k, j, Acknowledged(h), Brought(h)) /\ Inside(k, j)
<1> DEFINE seen == Seen(k, h.wnd, h.una)
           j == InputSegment(k, h)
<1>1. h \in Header /\ h.wnd \in Int /\ h.una \in Nat /\ h.cmd \in {"ack", "push", "wask", "wins"}
  BY DEF HeaderOf, Header
<1>2. Good(seen, S) /\ Changes(k, seen, 0..(h.una - 1), {}) /\ Inside(k, seen)
  BY <1>1, SeenIs
<1> HIDE DEF seen
<1>3. j = CASE h.cmd = "ack"  -> InputAck(seen, h)
            [] h.cmd = "push" -> InputPush(seen, h)
            [] h.cmd = "wask" -> [seen EXCEPT !.probe = @ \cup {"tell"}]
            [] h.cmd = "wins" -> seen
  BY DEF InputSegment, seen, Seen
<1> HIDE DEF j
<1>4. SUFFICES /\ Good(j, S) /\ Changes(seen, j, Acknowledged(h), Brought(h)) /\ Inside(seen, j)
  <2>1. SUFFICES Good(j, S) /\ Changes(k, j, Acknowledged(h), Brought(h)) /\ Inside(k, j)
    BY DEF j
  <2>2. Inside(k, j)
    BY <1>2, <1>4 DEF Inside
  <2>3. /\ k.rcv_nxt \in Nat /\ seen.rcv_nxt \in Nat /\ j.rcv_nxt \in Nat
        /\ k.snd_nxt \in Nat /\ seen.snd_nxt \in Nat /\ j.snd_nxt \in Nat
    BY <1>2, <1>4 DEF Good, SendOK, RecvOK
  <2>4. Changes(k, seen, Acknowledged(h), Brought(h))
    BY <1>2 DEF Changes, Acknowledged
  <2>5. Changes(k, j, Acknowledged(h), Brought(h))
    BY <1>4, <2>3, <2>4, ChangesAfter
  <2>6. QED
    BY <1>4, <2>2, <2>5
<1>5. CASE h.cmd = "ack"
  <2>1. j = InputAck(seen, h)
    BY <1>3, <1>5
  <2>2. Good(j, S) /\ Changes(seen, j, {h.sn}, {}) /\ Inside(seen, j)
    BY <1>1, <1>2, <2>1, InputAckIs
  <2>3. Changes(seen, j, Acknowledged(h), Brought(h))
    BY <1>5, <2>2 DEF Changes, Acknowledged
  <2>4. QED
    BY <2>2, <2>3
<1>6. CASE h.cmd = "push"
  <2>1. j = InputPush(seen, h)
    BY <1>3, <1>6
  <2>2. Good(j, S) /\ Changes(seen, j, {}, {h.sn}) /\ Inside(seen, j)
    BY <1>2, <1>6, <2>1, InputPushIs
  <2>3. Changes(seen, j, Acknowledged(h), Brought(h))
    BY <1>6, <2>2 DEF Changes, Brought
  <2>4. QED
    BY <2>2, <2>3
<1>7. CASE h.cmd = "wask"
  <2>1. j = [seen EXCEPT !.probe = seen.probe \cup {"tell"}]
    BY <1>3, <1>7
  <2>2. Shape(j) /\ j.probe = seen.probe \cup {"tell"} /\ Same(seen, j, Names \ {"probe"})
    BY <1>2, <2>1 DEF Good, Shape, Same, Names
  <2>3. /\ Same(seen, j, SendNames) /\ Same(seen, j, RecvNames)
        /\ j.rmt_wnd = seen.rmt_wnd /\ j.cwnd = seen.cwnd /\ j.incr = seen.incr /\ j.ssthresh = seen.ssthresh
        /\ j.mtu = seen.mtu /\ j.mss = seen.mss /\ j.fastresend = seen.fastresend
        /\ j.nocwnd = seen.nocwnd /\ j.probing = seen.probing /\ j.updated = seen.updated
    <3>1. Same(seen, j, SendNames) /\ Same(seen, j, RecvNames)
      BY <2>2 DEF Same, Names, SendNames, RecvNames
    <3>2. QED
      BY <2>2, <3>1 DEF Same, Names
  <2>4. j.probe \in SUBSET {"ask", "tell"}
    BY <1>2, <2>2 DEF Good, OtherOK
  <2>5. OtherOK(j)
    BY <1>2, <2>3, <2>4 DEF Good, OtherOK
  <2>6. Good(j, S) /\ Changes(seen, j, {}, {}) /\ Inside(seen, j)
    BY <1>2, <2>2, <2>3, <2>5, OtherFields
  <2>7. Changes(seen, j, Acknowledged(h), Brought(h))
    BY <2>6 DEF Changes
  <2>8. QED
    BY <2>6, <2>7
<1>8. CASE h.cmd = "wins"
  <2>1. j = seen
    BY <1>3, <1>8
  <2>2. seen.rcv_nxt \in Nat /\ seen.snd_nxt \in Nat
    BY <1>2 DEF Good, SendOK, RecvOK
  <2>3. QED
    BY <1>2, <2>1, <2>2 DEF Changes, Inside
<1>9. QED
  BY <1>1, <1>5, <1>6, <1>7, <1>8

\* The fields of a block have their values in one set.
Contents(S) ==
  Int \cup Seq(Nat) \cup Seq(Fragment) \cup Seq(S) \cup Seq(SendingOf(S)) \cup SUBSET {"ask", "tell"}
Values(S) == BOOLEAN \cup Contents(S)

\* A good block is a function on the names of the fields, with values in one set.
LEMMA GoodIsFunction ==
  ASSUME NEW S, NEW k, Good(k, S)
  PROVE  k \in [Names -> Values(S)]
<1>1. Shape(k) /\ SendOK(k, S) /\ RecvOK(k, S) /\ OtherOK(k)
  BY DEF Good
<1>2. \A x \in SendNames : k[x] \in Values(S)
  <2>1. /\ k.snd_una \in Values(S) /\ k.snd_nxt \in Values(S) /\ k.snd_wnd \in Values(S)
        /\ k.snd_queue \in Values(S) /\ k.snd_buf \in Values(S)
    BY <1>1 DEF SendOK, QueueOK, Values, Contents
  <2>2. QED
    BY <2>1 DEF SendNames
<1>3. \A x \in RecvNames : k[x] \in Values(S)
  BY <1>1 DEF RecvOK, RecvNames, Values, Contents
<1>4. \A x \in OtherNames : k[x] \in Values(S)
  <2>1. /\ k.rmt_wnd \in Values(S) /\ k.cwnd \in Values(S) /\ k.incr \in Values(S) /\ k.ssthresh \in Values(S)
        /\ k.mtu \in Values(S) /\ k.mss \in Values(S) /\ k.fastresend \in Values(S) /\ k.probe \in Values(S)
        /\ k.nocwnd \in Values(S) /\ k.probing \in Values(S) /\ k.updated \in Values(S)
    <3>1. /\ k.rmt_wnd \in Values(S) /\ k.cwnd \in Values(S) /\ k.incr \in Values(S) /\ k.ssthresh \in Values(S)
          /\ k.mtu \in Values(S) /\ k.mss \in Values(S) /\ k.fastresend \in Values(S)
      BY <1>1 DEF OtherOK, Values, Contents
    <3>2. k.probe \in Values(S)
      BY <1>1 DEF OtherOK, Values, Contents
    <3>3. k.nocwnd \in Values(S) /\ k.probing \in Values(S) /\ k.updated \in Values(S)
      <4>1. BOOLEAN \subseteq Values(S)
        BY Zenon DEF Values
      <4>2. k.nocwnd \in BOOLEAN /\ k.probing \in BOOLEAN /\ k.updated \in BOOLEAN
        BY <1>1, Zenon DEF OtherOK
      <4>3. QED
        BY <4>1, <4>2, Zenon
    <3>4. QED
      BY <3>1, <3>2, <3>3
  <2>2. QED
    BY <2>1 DEF OtherNames, SendNames, RecvNames, Names
<1>5. \A x \in Names : k[x] \in Values(S)
  BY <1>2, <1>3, <1>4 DEF OtherNames
<1>6. QED
  BY <1>1, <1>5 DEF Shape

\* Segment after segment, a datagram is read.
LEMMA ReadIs ==
  ASSUME NEW S \in SUBSET DataSegment, NEW k, Good(k, S), NEW d \in Seq(HeaderOf(S)), NEW G, NEW P,
         \A i \in 1..Len(d) : Acknowledged(d[i]) \subseteq G /\ Brought(d[i]) \subseteq P
  PROVE  LET read[i \in 0..Len(d)] == IF i = 0 THEN k ELSE InputSegment(read[i - 1], d[i])
             j == read[Len(d)]
         IN Good(j, S) /\ Changes(k, j, G, P) /\ Inside(k, j)
<1> DEFINE N == Len(d)
           Result(j) == Good(j, S) /\ Changes(k, j, G, P) /\ Inside(k, j)
           T == {j \in [Names -> Values(S)] : Result(j)}
           next == [i \in 1..N |-> [j \in T |-> InputSegment(j, d[i])]]
           Eq(f) == f = [i \in 0..N |-> IF i = 0 THEN k ELSE InputSegment(f[i - 1], d[i])]
           read == CHOOSE f : Eq(f)
<1>1. N \in Nat /\ \A i \in 1..N : d[i] \in HeaderOf(S)
  BY SequenceOf
<1>2. k \in T
  <2>1. k.rcv_nxt \in Nat /\ k.snd_nxt \in Nat
    BY DEF Good, SendOK, RecvOK
  <2>2. QED
    BY <2>1, GoodIsFunction DEF Changes, Inside
<1>3. ASSUME NEW i \in 1..N, NEW j, Result(j) PROVE Result(InputSegment(j, d[i]))
  <2> DEFINE l == InputSegment(j, d[i])
  <2>1. Good(l, S) /\ Changes(j, l, Acknowledged(d[i]), Brought(d[i])) /\ Inside(j, l)
    BY <1>1, <1>3, InputSegmentIs
  <2> HIDE DEF l
  <2>2. /\ k.rcv_nxt \in Nat /\ j.rcv_nxt \in Nat /\ l.rcv_nxt \in Nat
        /\ k.snd_nxt \in Nat /\ j.snd_nxt \in Nat /\ l.snd_nxt \in Nat
    BY <1>3, <2>1 DEF Good, SendOK, RecvOK
  <2>3. Changes(k, l, G, P)
    BY <1>3, <2>1, <2>2, ChangesAfter
  <2>4. Inside(k, l)
    BY <1>3, <2>1 DEF Inside
  <2>5. QED
    BY <2>1, <2>3, <2>4 DEF l
<1> HIDE DEF Result
<1>4. ASSUME NEW i \in 1..N, NEW j \in T PROVE InputSegment(j, d[i]) \in T
  <2>1. Result(InputSegment(j, d[i]))
    BY <1>3
  <2>2. InputSegment(j, d[i]) \in [Names -> Values(S)]
    BY <2>1, GoodIsFunction DEF Result
  <2>3. QED
    BY <2>1, <2>2
<1> HIDE DEF T
<1>5. next \in Steps(N, T) /\ \A i \in 1..N, j \in T : next[i][j] = InputSegment(j, d[i])
  BY <1>4 DEF Steps
<1>6. \E f : IsRecursion(f, N, T, k, next)
  <2> HIDE DEF next, N
  <2>1. QED
    BY <1>1, <1>2, <1>5, RecursionUpTo
<1>7. PICK f : f \in [0..N -> T] /\ f[0] = k /\ \A i \in 1..N : f[i] = next[i][f[i - 1]]
  BY <1>6 DEF IsRecursion
<1>8. Eq(f)
  <2>1. \A i \in 0..N : f[i] = IF i = 0 THEN k ELSE InputSegment(f[i - 1], d[i])
    <3>1. SUFFICES ASSUME NEW i \in 0..N, i # 0 PROVE f[i] = InputSegment(f[i - 1], d[i])
      BY <1>7
    <3>2. i \in 1..N /\ i - 1 \in 0..N
      BY <1>1, <3>1
    <3>3. QED
      BY <1>5, <1>7, <3>2
  <2>2. QED
    BY <1>7, <2>1
<1>9. Eq(read)
  <2> HIDE DEF Eq
  <2>1. QED
    BY <1>8
<1> HIDE DEF read
<1>10. read[0] = k /\ \A i \in 1..N : read[i] = InputSegment(read[i - 1], d[i])
  <2>1. \A i \in 0..N : read[i] = IF i = 0 THEN k ELSE InputSegment(read[i - 1], d[i])
    BY <1>9
  <2>2. QED
    BY <1>1, <2>1
<1> DEFINE Done == {i \in 0..N : read[i] \in T}
<1>11. N \in Done
  <2>1. 0 \in Done
    BY <1>1, <1>2, <1>10
  <2>2. \A i \in 1..N : i - 1 \in Done => i \in Done
    BY <1>1, <1>4, <1>10
  <2> HIDE DEF Done
  <2>3. 0..N \subseteq Done
    BY <1>1, <2>1, <2>2, InductionUpTo
  <2>4. QED
    BY <1>1, <2>3
<1>12. Result(read[N])
  BY <1>11 DEF T
<1>13. QED
  BY <1>12 DEF read, Result

\* The counters of a segment in the send buffer change, its numbers do not.
LEMMA Counters ==
  ASSUME NEW S, NEW s \in SendingOf(S), NEW x \in Nat
  PROVE  /\ [s EXCEPT !.fastack = x] \in SendingOf(S) /\ [s EXCEPT !.fastack = x].sn = s.sn
         /\ [s EXCEPT !.xmit = x] \in SendingOf(S) /\ [s EXCEPT !.xmit = x].sn = s.sn
<1>1. s \in Sending /\ Piece(s, s.sn) \in S
  BY DEF SendingOf
<1> DEFINE a == [s EXCEPT !.fastack = x]
           b == [s EXCEPT !.xmit = x]
<1>2. a \in Sending /\ a.sn = s.sn /\ a.frg = s.frg /\ a.msg = s.msg /\ a.len = s.len
  BY <1>1 DEF Sending
<1>3. b \in Sending /\ b.sn = s.sn /\ b.frg = s.frg /\ b.msg = s.msg /\ b.len = s.len
  BY <1>1 DEF Sending
<1> HIDE DEF a, b
<1>4. Piece(a, a.sn) = Piece(s, s.sn) /\ Piece(b, b.sn) = Piece(s, s.sn)
  BY <1>2, <1>3 DEF Piece
<1>5. a \in SendingOf(S) /\ b \in SendingOf(S)
  BY <1>1, <1>2, <1>3, <1>4 DEF SendingOf
<1>6. QED
  BY <1>2, <1>3, <1>5 DEF a, b

\* The segments of the send buffer are as they were, but for their counters.
LEMMA SameNumbers ==
  ASSUME NEW S, NEW k, NEW j, SendOK(k, S), Same(k, j, SendNames \ {"snd_buf"}),
         j.snd_buf \in Seq(SendingOf(S)), Len(j.snd_buf) = Len(k.snd_buf),
         \A i \in 1..Len(k.snd_buf) : j.snd_buf[i].sn = k.snd_buf[i].sn
  PROVE  SendOK(j, S) /\ Gone(j) = Gone(k) /\ Given(j) = Given(k) /\ j.snd_nxt = k.snd_nxt
<1>1. j.snd_una = k.snd_una /\ j.snd_nxt = k.snd_nxt /\ j.snd_wnd = k.snd_wnd /\ j.snd_queue = k.snd_queue
  BY DEF Same, SendNames
<1>2. /\ k.snd_buf \in Seq(SendingOf(S)) /\ Len(k.snd_buf) \in Nat /\ (k.snd_buf = <<>> <=> Len(k.snd_buf) = 0)
      /\ (j.snd_buf = <<>> <=> Len(j.snd_buf) = 0)
  BY SequenceOf DEF SendOK
<1>3. Numbers(j.snd_buf) = Numbers(k.snd_buf)
  <2>1. /\ Numbers(j.snd_buf) = {j.snd_buf[i].sn : i \in 1..Len(k.snd_buf)}
        /\ Numbers(k.snd_buf) = {k.snd_buf[i].sn : i \in 1..Len(k.snd_buf)}
    BY <1>2, NumbersOf, SendingNumbered
  <2>2. \A i \in 1..Len(k.snd_buf) : j.snd_buf[i].sn \in Numbers(k.snd_buf)
    BY <2>1
  <2>3. \A i \in 1..Len(k.snd_buf) : k.snd_buf[i].sn \in Numbers(j.snd_buf)
    BY <2>1
  <2>4. QED
    <3>1. \A x \in Numbers(j.snd_buf) : x \in Numbers(k.snd_buf)
      BY <2>1, <2>2
    <3>2. \A x \in Numbers(k.snd_buf) : x \in Numbers(j.snd_buf)
      BY <2>1, <2>3
    <3>3. QED
      BY <3>1, <3>2
<1>4. Sorted(j.snd_buf)
  BY DEF SendOK, Sorted
<1>5. k.snd_buf # <<>> => j.snd_buf[1].sn = k.snd_buf[1].sn
  <2>1. k.snd_buf # <<>> => 1 \in 1..Len(k.snd_buf)
    BY <1>2
  <2>2. QED
    BY <2>1
<1>6. SendOK(j, S)
  <2>1. QueueOK(j, S)
    BY <1>1 DEF SendOK, QueueOK
  <2>2. \A i \in 1..Len(j.snd_buf) : j.snd_una <= j.snd_buf[i].sn /\ j.snd_buf[i].sn < j.snd_nxt
    BY <1>1 DEF SendOK
  <2>3. j.snd_una = IF j.snd_buf = <<>> THEN j.snd_nxt ELSE j.snd_buf[1].sn
    BY <1>1, <1>2, <1>5 DEF SendOK
  <2>4. QED
    BY <1>1, <1>4, <2>1, <2>2, <2>3 DEF SendOK
<1>7. QED
  BY <1>1, <1>3, <1>6 DEF Gone, Given

\* Segments that were skipped by an acknowledgement are counted.
LEMMA FastackIs ==
  ASSUME NEW S, NEW k, Good(k, S), NEW sn
  PROVE  LET j == ikcp_parse_fastack(k, sn)
         IN Good(j, S) /\ Changes(k, j, {}, {}) /\ Inside(k, j)
<1> DEFINE j == ikcp_parse_fastack(k, sn)
           buf == k.snd_buf
           more(s) == Skipped(k, s)
           counted == [i \in DOMAIN buf |-> IF buf[i].sn < sn THEN more(buf[i]) ELSE buf[i]]
<1>1. Shape(k) /\ SendOK(k, S) /\ RecvOK(k, S) /\ OtherOK(k)
  BY DEF Good
<1>2. k.snd_nxt \in Nat /\ k.rcv_nxt \in Nat
  BY <1>1 DEF SendOK, RecvOK
<1>3. CASE ~ Outstanding(k, sn)
  <2>1. j = k
    BY <1>3 DEF ikcp_parse_fastack
  <2>2. QED
    BY <1>2, <2>1 DEF Changes, Inside
<1>4. CASE Outstanding(k, sn)
  <2>1. buf \in Seq(SendingOf(S)) /\ Len(buf) \in Nat /\ DOMAIN buf = 1..Len(buf) /\ \A i \in 1..Len(buf) : buf[i] \in SendingOf(S)
    BY <1>1, SequenceOf DEF SendOK
  <2>2. \A s \in SendingOf(S) : more(s) \in SendingOf(S) /\ more(s).sn = s.sn
    <3>1. SUFFICES ASSUME NEW s \in SendingOf(S) PROVE more(s) \in SendingOf(S) /\ more(s).sn = s.sn
      OBVIOUS
    <3> DEFINE x == Least(s.fastack + 1, k.fastresend)
    <3>0. x \in Nat
      BY <1>1 DEF SendingOf, Sending, Least, OtherOK
    <3>2. more(s) = [s EXCEPT !.fastack = x]
      BY DEF Skipped
    <3> HIDE DEF x, more
    <3>3. [s EXCEPT !.fastack = x] \in SendingOf(S) /\ [s EXCEPT !.fastack = x].sn = s.sn
      BY <3>0, Counters
    <3>4. QED
      BY <3>2, <3>3
  <2>3. j = [k EXCEPT !.snd_buf = counted]
    BY <1>4 DEF ikcp_parse_fastack
  <2> HIDE DEF more
  <2>4. \A i \in 1..Len(buf) : counted[i] \in SendingOf(S) /\ counted[i].sn = buf[i].sn
    BY <2>1, <2>2
  <2>5. counted \in Seq(SendingOf(S)) /\ Len(counted) = Len(buf)
    <3>1. counted = [i \in 1..Len(buf) |-> counted[i]]
      BY <2>1
    <3> HIDE DEF counted
    <3>2. counted \in [1..Len(buf) -> SendingOf(S)]
      BY <2>4, <3>1
    <3>3. QED
      BY <2>1, <3>2
  <2> HIDE DEF counted, j
  <2>6. Shape(j) /\ j.snd_buf = counted /\ Same(k, j, Names \ {"snd_buf"})
    BY <1>1, <2>3 DEF Shape, Same, Names
  <2>7. Same(k, j, SendNames \ {"snd_buf"}) /\ Same(k, j, RecvNames) /\ Same(k, j, OtherNames)
    BY <2>6 DEF Same, Names, SendNames, RecvNames, OtherNames
  <2>8. SendOK(j, S) /\ Gone(j) = Gone(k) /\ Given(j) = Given(k) /\ j.snd_nxt = k.snd_nxt
    <3>1. /\ j.snd_buf \in Seq(SendingOf(S)) /\ Len(j.snd_buf) = Len(k.snd_buf)
          /\ \A i \in 1..Len(k.snd_buf) : j.snd_buf[i].sn = k.snd_buf[i].sn
      BY <2>4, <2>5, <2>6
    <3>2. SendOK(k, S) /\ Same(k, j, SendNames \ {"snd_buf"})
      BY <1>1, <2>7
    <3>3. QED
      BY <3>1, <3>2, SameNumbers
  <2>9. RecvOK(j, S) /\ Held(j) = Held(k) /\ Passed(j) = Passed(k) /\ j.rcv_nxt = k.rcv_nxt
    BY <1>1, <2>7, SameRecv
  <2>10. OtherOK(j) /\ j.fastresend = k.fastresend
    BY <1>1, <2>7, SameOther
  <2>11. Good(j, S) /\ Changes(k, j, {}, {}) /\ Inside(k, j)
    BY <1>2, <2>6, <2>8, <2>9, <2>10 DEF Good, Changes, Inside
  <2>12. QED
    BY <2>11 DEF j
<1>5. QED
  BY <1>3, <1>4

\* The congestion window and its bytes change.
LEMMA WindowFields ==
  ASSUME NEW S, NEW k, NEW j, Good(k, S), Shape(j), Same(k, j, Names \ {"cwnd", "incr", "ssthresh"}),
         j.cwnd \in Int, j.incr \in Int, j.ssthresh \in Int
  PROVE  Good(j, S) /\ Changes(k, j, {}, {}) /\ Inside(k, j)
<1>1. Same(k, j, SendNames) /\ Same(k, j, RecvNames)
  BY DEF Same, Names, SendNames, RecvNames
<1>2. /\ j.rmt_wnd = k.rmt_wnd /\ j.mtu = k.mtu /\ j.mss = k.mss /\ j.fastresend = k.fastresend
      /\ j.probe = k.probe /\ j.nocwnd = k.nocwnd /\ j.probing = k.probing /\ j.updated = k.updated
  BY DEF Same, Names
<1>3. OtherOK(j)
  BY <1>2 DEF Good, OtherOK
<1>4. QED
  BY <1>1, <1>2, <1>3, OtherFields

\* The window grows by numbers.
LEMMA GrowWindowIs ==
  ASSUME NEW S, NEW k, Good(k, S)
  PROVE  LET j == GrowWindow(k)
         IN Good(j, S) /\ Changes(k, j, {}, {}) /\ Inside(k, j)
<1> DEFINE slow == [k EXCEPT !.cwnd = @ + 1, !.incr = @ + k.mss]
           base == Largest(k.incr, k.mss)
           incr == base + (k.mss * k.mss) \div base + k.mss \div 16
           wide == IF (k.cwnd + 1) * k.mss <= incr THEN (incr + k.mss - 1) \div k.mss ELSE k.cwnd
           linear == [k EXCEPT !.incr = incr, !.cwnd = wide]
           grown == IF k.cwnd < k.ssthresh THEN slow ELSE linear
           j == GrowWindow(k)
           F == {"cwnd", "incr", "ssthresh"}
           Fits(l) == Shape(l) /\ Same(k, l, Names \ F) /\ l.cwnd \in Int /\ l.incr \in Int /\ l.ssthresh \in Int
<1>1. /\ Shape(k) /\ k.cwnd \in Int /\ k.incr \in Int /\ k.ssthresh \in Int /\ k.rmt_wnd \in Int
      /\ k.mss \in Nat \ {0}
  BY DEF Good, OtherOK
<1>2. base \in Nat \ {0}
  BY <1>1 DEF Largest
<1>3. incr \in Int
  <2> DEFINE square == k.mss * k.mss
  <2>1. square \in Int
    BY <1>1
  <2> HIDE DEF square, base
  <2>2. square \div base \in Int /\ k.mss \div 16 \in Int
    BY <1>1, <1>2, <2>1
  <2>3. QED
    BY <1>2, <2>2 DEF square
<1> HIDE DEF base, incr
<1>4. wide \in Int
  BY <1>1, <1>3
<1> HIDE DEF wide
<1>5. Fits(slow)
  <2> HIDE DEF slow
  <2>1. Shape(slow) /\ slow.cwnd = k.cwnd + 1 /\ slow.incr = k.incr + k.mss /\ Same(k, slow, Names \ {"cwnd", "incr"})
    BY <1>1 DEF Shape, Same, Names, slow
  <2>2. slow.ssthresh = k.ssthresh /\ Same(k, slow, Names \ F)
    BY <2>1 DEF Same, Names
  <2>3. k.cwnd + 1 \in Int /\ k.incr + k.mss \in Int
    BY <1>1
  <2>4. QED
    BY <1>1, <2>1, <2>2, <2>3
<1>6. Fits(linear)
  <2> HIDE DEF linear
  <2>1. Shape(linear) /\ linear.cwnd = wide /\ linear.incr = incr /\ Same(k, linear, Names \ {"cwnd", "incr"})
    BY <1>1 DEF Shape, Same, Names, linear
  <2>2. linear.ssthresh = k.ssthresh /\ Same(k, linear, Names \ F)
    BY <2>1 DEF Same, Names
  <2>3. QED
    BY <1>1, <1>3, <1>4, <2>1, <2>2
<1>7. Fits(grown)
  BY <1>5, <1>6
<1>8. j = IF k.cwnd >= k.rmt_wnd THEN k
          ELSE IF grown.cwnd > k.rmt_wnd THEN [grown EXCEPT !.cwnd = k.rmt_wnd, !.incr = k.rmt_wnd * k.mss]
          ELSE grown
  BY DEF GrowWindow, wide, incr, base
<1> HIDE DEF grown, j
<1>9. Fits(k)
  BY <1>1 DEF Same
<1>10. Fits([grown EXCEPT !.cwnd = k.rmt_wnd, !.incr = k.rmt_wnd * k.mss])
  <2> DEFINE l == [grown EXCEPT !.cwnd = k.rmt_wnd, !.incr = k.rmt_wnd * k.mss]
  <2>1. Shape(l) /\ l.cwnd = k.rmt_wnd /\ l.incr = k.rmt_wnd * k.mss /\ Same(grown, l, Names \ {"cwnd", "incr"})
    BY <1>7 DEF Shape, Same, Names
  <2> HIDE DEF l
  <2>2. k.rmt_wnd * k.mss \in Int
    BY <1>1
  <2>3. l.ssthresh = grown.ssthresh /\ Same(grown, l, Names \ F)
    BY <2>1 DEF Same, Names
  <2>4. Fits(l)
    BY <1>1, <1>7, <2>1, <2>2, <2>3 DEF Same
  <2>5. QED
    BY <2>4 DEF l
<1>11. Fits(j)
  <2> HIDE DEF Fits
  <2>1. QED
    BY <1>7, <1>8, <1>9, <1>10
<1>12. Good(j, S) /\ Changes(k, j, {}, {}) /\ Inside(k, j)
  BY <1>11, WindowFields
<1>13. QED
  BY <1>12 DEF j

\* A datagram is taken in.
LEMMA InputIs ==
  ASSUME NEW S \in SUBSET DataSegment, NEW k, Good(k, S), NEW d \in Seq(HeaderOf(S)), NEW G, NEW P,
         \A i \in 1..Len(d) : Acknowledged(d[i]) \subseteq G /\ Brought(d[i]) \subseteq P
  PROVE  LET j == ikcp_input(k, d)
         IN Good(j, S) /\ Changes(k, j, G, P) /\ Inside(k, j)
<1> DEFINE read[i \in 0..Len(d)] == IF i = 0 THEN k ELSE InputSegment(read[i - 1], d[i])
           after == read[Len(d)]
           acks == {d[i].sn : i \in {j \in DOMAIN d : d[j].cmd = "ack"}}
           fast == IF acks = {} THEN after ELSE ikcp_parse_fastack(after, Max(acks))
           j == ikcp_input(k, d)
           Result(l) == Good(l, S) /\ Changes(k, l, G, P) /\ Inside(k, l)
<1>1. Result(after)
  BY ReadIs
<1> HIDE DEF after, acks
<1>2. ASSUME NEW a, NEW l, Result(a), Good(l, S), Changes(a, l, {}, {}), Inside(a, l) PROVE Result(l)
  <2>1. /\ k.rcv_nxt \in Nat /\ a.rcv_nxt \in Nat /\ l.rcv_nxt \in Nat
        /\ k.snd_nxt \in Nat /\ a.snd_nxt \in Nat /\ l.snd_nxt \in Nat
    BY <1>2 DEF Good, SendOK, RecvOK
  <2>2. Changes(k, l, G, P)
    BY <1>2, <2>1, ChangesAfter
  <2>3. QED
    BY <1>2, <2>2 DEF Inside
<1>3. Result(fast)
  <2>1. ASSUME NEW sn PROVE Result(ikcp_parse_fastack(after, sn))
    <3> DEFINE l == ikcp_parse_fastack(after, sn)
    <3>1. Good(l, S) /\ Changes(after, l, {}, {}) /\ Inside(after, l)
      BY <1>1, FastackIs
    <3> HIDE DEF l, Result
    <3>2. Result(l)
      BY <1>1, <1>2, <3>1
    <3>3. QED
      BY <3>2 DEF l
  <2> HIDE DEF Result
  <2>2. QED
    BY <1>1, <2>1
<1> HIDE DEF fast
<1>4. Result(GrowWindow(fast))
  <2> DEFINE l == GrowWindow(fast)
  <2>1. Good(l, S) /\ Changes(fast, l, {}, {}) /\ Inside(fast, l)
    BY <1>3, GrowWindowIs
  <2> HIDE DEF l, Result
  <2>2. Result(l)
    BY <1>2, <1>3, <2>1
  <2>3. QED
    BY <2>2 DEF l
<1>5. j = IF fast.snd_una > k.snd_una THEN GrowWindow(fast) ELSE fast
  BY DEF ikcp_input, fast, after, acks
<1> HIDE DEF j
<1>6. Result(j)
  <2> HIDE DEF Result
  <2>1. QED
    BY <1>3, <1>4, <1>5
<1>7. QED
  BY <1>6 DEF j

----------------------------------------------------------------------------
(* Flushing. *)

\* What an end tells of itself is true, and stays true.
Fine(h, k) ==
  h.una <= k.rcv_nxt /\ (h.cmd = "ack" => h.sn \in Held(k)) /\ (h.cmd = "push" => h.sn < k.snd_nxt)
FineOf(S, k) == {h \in HeaderOf(S) : Fine(h, k)}

\* What could be on its way from an end still can be when the end has moved on.
LEMMA StaysFine ==
  ASSUME NEW S, NEW k, NEW j, k.rcv_nxt \in Nat, j.rcv_nxt \in Nat, k.snd_nxt \in Nat, j.snd_nxt \in Nat,
         k.rcv_nxt <= j.rcv_nxt, k.snd_nxt <= j.snd_nxt, Held(k) \subseteq Held(j)
  PROVE  FineOf(S, k) \subseteq FineOf(S, j)
<1>1. SUFFICES ASSUME NEW h \in HeaderOf(S), Fine(h, k) PROVE Fine(h, j)
  BY DEF FineOf
<1>2. h.una \in Nat /\ h.sn \in Nat
  BY DEF HeaderOf, Header
<1>3. QED
  BY <1>1, <1>2 DEF Fine

\* Datagrams consist of the segments they are made from.
LEMMA PackedIs ==
  ASSUME NEW H, \A h \in H : h.len \in Int, NEW k, k.mtu \in Int, NEW segs \in Seq(H)
  PROVE  Packed(k, segs) \in Seq(Seq(H))
<1> DEFINE N == Len(segs)
           Bytes(s) == IKCP_OVERHEAD + s.len
           Add(d, s) == IF d.size + Bytes(s) > k.mtu
                        THEN [done |-> Append(d.done, d.open), open |-> <<s>>, size |-> Bytes(s)]
                        ELSE [d EXCEPT !.open = Append(@, s), !.size = @ + Bytes(s)]
           none == [done |-> <<>>, open |-> <<>>, size |-> 0]
           T == [done : Seq(Seq(H)), open : Seq(H), size : Int]
           next == [i \in 1..N |-> [d \in T |-> Add(d, segs[i])]]
           Eq(f) == f = [i \in 0..N |-> IF i = 0 THEN none ELSE Add(f[i - 1], segs[i])]
           fill == CHOOSE f : Eq(f)
           all == fill[N]
<1>1. N \in Nat /\ \A i \in 1..N : segs[i] \in H
  BY SequenceOf
<1>2. none \in T
  OBVIOUS
<1>3. ASSUME NEW d \in T, NEW s \in H PROVE Add(d, s) \in T
  <2>1. Bytes(s) \in Int /\ d.size + Bytes(s) \in Int
    OBVIOUS
  <2>2. Append(d.done, d.open) \in Seq(Seq(H)) /\ <<s>> \in Seq(H) /\ Append(d.open, s) \in Seq(H)
    OBVIOUS
  <2>3. [done |-> Append(d.done, d.open), open |-> <<s>>, size |-> Bytes(s)] \in T
    BY <2>1, <2>2
  <2>4. [d EXCEPT !.open = Append(@, s), !.size = @ + Bytes(s)] \in T
    BY <2>1, <2>2
  <2>5. QED
    BY <2>3, <2>4
<1> HIDE DEF Add
<1>4. ASSUME NEW i \in 1..N, NEW d \in T PROVE Add(d, segs[i]) \in T
  BY <1>1, <1>3
<1> HIDE DEF T
<1>5. next \in Steps(N, T) /\ \A i \in 1..N, d \in T : next[i][d] = Add(d, segs[i])
  BY <1>4 DEF Steps
<1>6. \E f : IsRecursion(f, N, T, none, next)
  <2> HIDE DEF next, N, none
  <2>1. QED
    BY <1>1, <1>2, <1>5, RecursionUpTo
<1> HIDE DEF none
<1>7. PICK f : f \in [0..N -> T] /\ f[0] = none /\ \A i \in 1..N : f[i] = next[i][f[i - 1]]
  BY <1>6 DEF IsRecursion
<1>8. Eq(f)
  <2>1. \A i \in 0..N : f[i] = IF i = 0 THEN none ELSE Add(f[i - 1], segs[i])
    <3>1. SUFFICES ASSUME NEW i \in 0..N, i # 0 PROVE f[i] = Add(f[i - 1], segs[i])
      BY <1>7
    <3>2. i \in 1..N /\ i - 1 \in 0..N
      BY <1>1, <3>1
    <3>3. QED
      BY <1>5, <1>7, <3>2
  <2>2. QED
    BY <1>7, <2>1
<1>9. Eq(fill)
  <2> HIDE DEF Eq
  <2>1. QED
    BY <1>8
<1> HIDE DEF fill
<1>10. fill[0] = none /\ \A i \in 1..N : fill[i] = Add(fill[i - 1], segs[i])
  <2>1. \A i \in 0..N : fill[i] = IF i = 0 THEN none ELSE Add(fill[i - 1], segs[i])
    BY <1>9
  <2>2. QED
    BY <1>1, <2>1
<1> DEFINE Done == {i \in 0..N : fill[i] \in T}
<1>11. N \in Done
  <2>1. 0 \in Done
    BY <1>1, <1>2, <1>10
  <2>2. \A i \in 1..N : i - 1 \in Done => i \in Done
    BY <1>1, <1>4, <1>10
  <2> HIDE DEF Done
  <2>3. 0..N \subseteq Done
    BY <1>1, <2>1, <2>2, InductionUpTo
  <2>4. QED
    BY <1>1, <2>3
<1>12. all.done \in Seq(Seq(H)) /\ all.open \in Seq(H)
  BY <1>11 DEF T
<1>13. Packed(k, segs) = IF all.size > 0 THEN Append(all.done, all.open) ELSE all.done
  BY DEF Packed, fill, Add, none
<1> HIDE DEF all
<1>14. QED
  BY <1>12, <1>13

\* The probe timer only touches its own fields.
LEMMA ProbeIs ==
  ASSUME NEW S, NEW k, Good(k, S), NEW probeDue
  PROVE  LET j == Probe(k, probeDue)
         IN Good(j, S) /\ Changes(k, j, {}, {}) /\ Inside(k, j) /\ Same(k, j, Names \ {"probing", "probe"})
<1> DEFINE j == Probe(k, probeDue)
<1>1. Shape(k) /\ OtherOK(k) /\ k.probe \in SUBSET {"ask", "tell"}
  BY DEF Good, OtherOK
<1>2. /\ Shape(j) /\ Same(k, j, Names \ {"probing", "probe"})
      /\ j.probing \in BOOLEAN /\ j.probe \in SUBSET {"ask", "tell"}
  <2>1. CASE k.rmt_wnd # 0
    <3>1. j = [k EXCEPT !.probing = FALSE]
      BY <2>1 DEF Probe
    <3> HIDE DEF j
    <3>2. Shape(j) /\ j.probing = FALSE /\ Same(k, j, Names \ {"probing"})
      BY <1>1, <3>1 DEF Shape, Same, Names
    <3>3. j.probe = k.probe /\ Same(k, j, Names \ {"probing", "probe"})
      BY <3>2 DEF Same, Names
    <3>4. QED
      BY <1>1, <3>2, <3>3
  <2>2. CASE ~ (k.rmt_wnd # 0)
    <3> DEFINE probe == IF k.probing /\ probeDue THEN k.probe \cup {"ask"} ELSE k.probe
    <3>1. j = [k EXCEPT !.probing = TRUE, !.probe = probe]
      BY <2>2 DEF Probe
    <3>2. probe \in SUBSET {"ask", "tell"}
      BY <1>1
    <3> HIDE DEF j, probe
    <3>3. Shape(j) /\ j.probing = TRUE /\ j.probe = probe /\ Same(k, j, Names \ {"probing", "probe"})
      BY <1>1, <3>1 DEF Shape, Same, Names
    <3>4. QED
      BY <3>2, <3>3
  <2>3. QED
    BY <2>1, <2>2
<1> HIDE DEF j
<1>3. Same(k, j, SendNames) /\ Same(k, j, RecvNames)
  BY <1>2 DEF Same, Names, SendNames, RecvNames
<1>4. /\ j.rmt_wnd = k.rmt_wnd /\ j.cwnd = k.cwnd /\ j.incr = k.incr /\ j.ssthresh = k.ssthresh
      /\ j.mtu = k.mtu /\ j.mss = k.mss /\ j.fastresend = k.fastresend
      /\ j.nocwnd = k.nocwnd /\ j.updated = k.updated
  BY <1>2 DEF Same, Names
<1>5. OtherOK(j)
  BY <1>1, <1>2, <1>4 DEF OtherOK
<1>6. Good(j, S) /\ Changes(k, j, {}, {}) /\ Inside(k, j)
  BY <1>2, <1>3, <1>4, <1>5, OtherFields
<1>7. QED
  BY <1>2, <1>6 DEF j

\* Acknowledgements and requests are taken from a block.
Cleared(k) == [k EXCEPT !.acklist = <<>>, !.probe = {}]

\* A flush empties acklist and probe.
LEMMA ClearedIs ==
  ASSUME NEW S, NEW k, Good(k, S)
  PROVE  LET j == Cleared(k)
         IN /\ Good(j, S) /\ Changes(k, j, {}, {}) /\ Inside(k, j) /\ Same(k, j, Names \ {"acklist", "probe"})
            /\ Held(j) = Held(k) /\ j.rcv_nxt = k.rcv_nxt
<1> DEFINE j == Cleared(k)
<1>1. Shape(k) /\ SendOK(k, S) /\ RecvOK(k, S) /\ OtherOK(k)
  BY DEF Good
<1>2. Shape(j) /\ j.acklist = <<>> /\ j.probe = {} /\ Same(k, j, Names \ {"acklist", "probe"})
  BY <1>1 DEF Cleared, Shape, Same, Names
<1> HIDE DEF j
<1>3. Same(k, j, SendNames)
  BY <1>2 DEF Same, Names, SendNames
<1>4. SendOK(j, S) /\ Gone(j) = Gone(k) /\ Given(j) = Given(k) /\ j.snd_nxt = k.snd_nxt
  BY <1>1, <1>3, SameSend
<1>5. j.rcv_nxt = k.rcv_nxt /\ j.rcv_wnd = k.rcv_wnd /\ j.rcv_queue = k.rcv_queue /\ j.rcv_buf = k.rcv_buf
  BY <1>2 DEF Same, Names
<1>6. Held(j) = Held(k) /\ Passed(j) = Passed(k)
  BY <1>5 DEF Held, Passed
<1>7. RecvOK(j, S)
  <2>1. j.acklist \in Seq(Nat) /\ \A i \in 1..Len(j.acklist) : j.acklist[i] \in Held(j)
    BY <1>2
  <2>2. QED
    BY <1>1, <1>5, <1>6, <2>1 DEF RecvOK
<1>8. /\ j.rmt_wnd = k.rmt_wnd /\ j.cwnd = k.cwnd /\ j.incr = k.incr /\ j.ssthresh = k.ssthresh
      /\ j.mtu = k.mtu /\ j.mss = k.mss /\ j.fastresend = k.fastresend
      /\ j.nocwnd = k.nocwnd /\ j.probing = k.probing /\ j.updated = k.updated
  BY <1>2 DEF Same, Names
<1>9. OtherOK(j)
  BY <1>1, <1>2, <1>8 DEF OtherOK
<1>10. k.rcv_nxt \in Nat /\ k.snd_nxt \in Nat
  BY <1>1 DEF SendOK, RecvOK
<1>11. QED
  BY <1>2, <1>4, <1>5, <1>6, <1>7, <1>8, <1>9, <1>10 DEF Good, Changes, Inside, j

\* Segments go from snd_queue to snd_buf with the numbers that are next.
LEMMA FillBufferIs ==
  ASSUME NEW S \in SUBSET DataSegment, NEW k, Good(k, S)
  PROVE  LET j == FillBuffer(k)
         IN /\ Good(j, S) /\ Changes(k, j, {}, {}) /\ Inside(k, j)
            /\ Same(k, j, Names \ {"snd_buf", "snd_queue", "snd_nxt"})
<1> DEFINE Q == Len(k.snd_queue)
           N == Len(k.snd_buf)
           room == Largest(k.snd_una + Window(k) - k.snd_nxt, 0)
           n == Least(Q, room)
           fresh(i) == [sn |-> k.snd_nxt + i - 1, frg |-> k.snd_queue[i].frg, msg |-> k.snd_queue[i].msg,
                        len |-> k.snd_queue[i].len, xmit |-> 0, fastack |-> 0]
           new == [i \in 1..n |-> fresh(i)]
           rest == SubSeq(k.snd_queue, n + 1, Q)
           j == FillBuffer(k)
<1>1. Shape(k) /\ SendOK(k, S) /\ RecvOK(k, S) /\ OtherOK(k)
  BY DEF Good
<1>2. /\ k.snd_una \in Nat /\ k.snd_nxt \in Nat /\ k.snd_wnd \in Nat /\ k.snd_una <= k.snd_nxt
      /\ k.snd_nxt - k.snd_una <= k.snd_wnd
      /\ k.snd_queue \in Seq(Fragment) /\ Q \in Nat /\ \A i \in 1..Q : k.snd_queue[i] \in Fragment
      /\ \A i \in 1..Q : Piece(k.snd_queue[i], k.snd_nxt + i - 1) \in S
      /\ k.snd_buf \in Seq(SendingOf(S)) /\ Sorted(k.snd_buf)
      /\ N \in Nat /\ (k.snd_buf = <<>> <=> N = 0) /\ \A i \in 1..N : k.snd_buf[i] \in SendingOf(S) /\ k.snd_buf[i].sn \in Nat
      /\ \A i \in 1..N : k.snd_una <= k.snd_buf[i].sn /\ k.snd_buf[i].sn < k.snd_nxt
      /\ k.snd_una = IF k.snd_buf = <<>> THEN k.snd_nxt ELSE k.snd_buf[1].sn
  <2>1. k.snd_queue \in Seq(Fragment) /\ Q \in Nat /\ \A i \in 1..Q : k.snd_queue[i] \in Fragment
    BY <1>1, SequenceOf DEF SendOK, QueueOK
  <2>2. /\ k.snd_buf \in Seq(SendingOf(S)) /\ N \in Nat /\ (k.snd_buf = <<>> <=> N = 0)
        /\ \A i \in 1..N : k.snd_buf[i] \in SendingOf(S) /\ k.snd_buf[i].sn \in Nat
    BY <1>1, SequenceOf, SendingNumbered DEF SendOK, Numbered
  <2>3. QED
    BY <1>1, <2>1, <2>2, UnaIsBounded DEF SendOK, QueueOK
<1>3. Window(k) \in Int /\ Window(k) <= k.snd_wnd
  BY <1>1, <1>2 DEF Window, Least, OtherOK
<1>4. n \in 0..Q /\ k.snd_nxt + n - k.snd_una <= k.snd_wnd
  <2> DEFINE w == Window(k)
  <2>1. /\ w \in Int /\ w <= k.snd_wnd /\ k.snd_una \in Nat /\ k.snd_nxt \in Nat /\ k.snd_wnd \in Nat
        /\ k.snd_nxt - k.snd_una <= k.snd_wnd /\ Q \in Nat
    BY <1>2, <1>3
  <2> HIDE DEF w, Q
  <2>2. room \in Nat /\ (room = 0 \/ room = k.snd_una + w - k.snd_nxt)
    BY <2>1 DEF Largest, w
  <2> HIDE DEF room
  <2>3. n \in 0..Q /\ n <= room
    BY <2>1, <2>2 DEF Least
  <2> HIDE DEF n
  <2>4. k.snd_nxt + n - k.snd_una <= k.snd_wnd
    BY <2>1, <2>2, <2>3
  <2>5. QED
    BY <2>3, <2>4
<1>0. /\ N \in Nat /\ Q \in Nat /\ n \in Nat /\ n <= Q
      /\ k.snd_una \in Nat /\ k.snd_nxt \in Nat /\ k.snd_una <= k.snd_nxt
  BY <1>2, <1>4
<1>5. j = [k EXCEPT !.snd_buf = k.snd_buf \o new, !.snd_queue = rest, !.snd_nxt = k.snd_nxt + n]
  BY DEF FillBuffer
<1> HIDE DEF n
<1>6. ASSUME NEW i \in 1..n PROVE fresh(i) \in SendingOf(S) /\ fresh(i).sn = k.snd_nxt + i - 1
  <2>1. i \in 1..Q /\ k.snd_nxt + i - 1 \in Nat /\ k.snd_queue[i] \in Fragment
    BY <1>2, <1>4
  <2>2. fresh(i) \in Sending /\ fresh(i).sn = k.snd_nxt + i - 1
    BY <2>1 DEF Fragment, Sending
  <2>3. Piece(fresh(i), fresh(i).sn) = Piece(k.snd_queue[i], k.snd_nxt + i - 1)
    BY DEF Piece
  <2>4. Piece(k.snd_queue[i], k.snd_nxt + i - 1) \in S
    BY <1>2, <2>1
  <2> HIDE DEF fresh
  <2>5. QED
    BY <2>2, <2>3, <2>4 DEF SendingOf
<1> HIDE DEF fresh
<1>7. new \in Seq(SendingOf(S)) /\ Len(new) = n /\ \A i \in 1..n : new[i] = fresh(i)
  <2>1. n \in Nat
    BY <1>4
  <2>2. new \in [1..n -> SendingOf(S)]
    BY <1>6
  <2>3. QED
    BY <2>1, <2>2
<1>8. rest \in Seq(Fragment) /\ Len(rest) = Q - n /\ \A i \in 1..(Q - n) : rest[i] = k.snd_queue[i + n]
  BY <1>2, <1>4, EndOf
<1> HIDE DEF new, rest, j
<1>9. /\ Shape(j) /\ Same(k, j, Names \ {"snd_buf", "snd_queue", "snd_nxt"})
      /\ j.snd_buf = k.snd_buf \o new /\ j.snd_queue = rest /\ j.snd_nxt = k.snd_nxt + n
  BY <1>1, <1>5 DEF Shape, Same, Names
<1>10. j.snd_una = k.snd_una /\ j.snd_wnd = k.snd_wnd
  BY <1>9 DEF Same, Names
<1>11. /\ j.snd_buf \in Seq(SendingOf(S)) /\ Len(j.snd_buf) = N + n
       /\ \A i \in 1..(N + n) : j.snd_buf[i] = IF i <= N THEN k.snd_buf[i] ELSE new[i - N]
  <2>1. k.snd_buf \in Seq(SendingOf(S)) /\ new \in Seq(SendingOf(S)) /\ Len(new) = n
    BY <1>2, <1>7
  <2>2. /\ k.snd_buf \o new \in Seq(SendingOf(S)) /\ Len(k.snd_buf \o new) = N + Len(new)
        /\ \A i \in 1..(N + Len(new)) : (k.snd_buf \o new)[i] = IF i <= N THEN k.snd_buf[i] ELSE new[i - N]
    BY <2>1, ConcatProperties
  <2>3. QED
    BY <1>9, <2>1, <2>2
<1>12. ASSUME NEW i \in 1..(N + n)
       PROVE  /\ i <= N => i \in 1..N /\ j.snd_buf[i] = k.snd_buf[i]
              /\ ~ (i <= N) => j.snd_buf[i].sn = k.snd_nxt + (i - N) - 1
  <2>1. i <= N => i \in 1..N
    BY <1>2
  <2>2. ~ (i <= N) => i - N \in 1..n
    BY <1>2, <1>4
  <2>3. QED
    BY <1>6, <1>7, <1>11, <2>1, <2>2
<1>13. Sorted(j.snd_buf)
  <2>1. SUFFICES ASSUME NEW i \in 1..(N + n), NEW h \in 1..(N + n), i < h
                 PROVE  j.snd_buf[i].sn < j.snd_buf[h].sn
    BY <1>11 DEF Sorted
  <2>2. CASE h <= N
    <3>1. i <= N /\ i \in 1..N /\ h \in 1..N /\ j.snd_buf[i] = k.snd_buf[i] /\ j.snd_buf[h] = k.snd_buf[h]
      BY <1>2, <1>4, <1>12, <2>1, <2>2
    <3>2. QED
      BY <1>2, <2>1, <3>1 DEF Sorted
  <2>3. CASE ~ (h <= N) /\ i <= N
    <3>1. i \in 1..N /\ j.snd_buf[i] = k.snd_buf[i] /\ j.snd_buf[h].sn = k.snd_nxt + (h - N) - 1
      BY <1>12, <2>3
    <3>2. k.snd_buf[i].sn < k.snd_nxt /\ k.snd_buf[i].sn \in Nat
      BY <1>2, <3>1
    <3>3. QED
      BY <1>0, <2>3, <3>1, <3>2
  <2>4. CASE ~ (h <= N) /\ ~ (i <= N)
    <3>1. j.snd_buf[i].sn = k.snd_nxt + (i - N) - 1 /\ j.snd_buf[h].sn = k.snd_nxt + (h - N) - 1
      BY <1>12, <2>4
    <3>2. QED
      BY <1>0, <2>1, <3>1
  <2>5. QED
    BY <2>2, <2>3, <2>4
<1>14. ASSUME NEW i \in 1..(N + n) PROVE j.snd_una <= j.snd_buf[i].sn /\ j.snd_buf[i].sn < j.snd_nxt
  <2>1. CASE i <= N
    <3>1. i \in 1..N /\ j.snd_buf[i] = k.snd_buf[i] /\ k.snd_una <= k.snd_buf[i].sn /\ k.snd_buf[i].sn < k.snd_nxt
          /\ k.snd_buf[i].sn \in Nat
      BY <1>2, <1>12, <2>1
    <3>2. QED
      <4> DEFINE x == k.snd_buf[i].sn
      <4>1. j.snd_buf[i].sn = x /\ k.snd_una <= x /\ x < k.snd_nxt /\ x \in Nat
        BY <3>1
      <4>2. j.snd_una = k.snd_una /\ j.snd_nxt = k.snd_nxt + n
        BY <1>9, <1>10
      <4> HIDE DEF x
      <4>3. k.snd_una <= x /\ x < k.snd_nxt + n
        BY <1>0, <4>1
      <4>4. QED
        BY <4>1, <4>2, <4>3
  <2>2. CASE ~ (i <= N)
    <3>1. j.snd_buf[i].sn = k.snd_nxt + (i - N) - 1
      BY <1>12, <2>2
    <3>2. j.snd_nxt = k.snd_nxt + n
      BY <1>9
    <3>3. QED
      BY <1>0, <1>10, <2>2, <3>1, <3>2
  <2>3. QED
    BY <2>1, <2>2
<1>15. j.snd_una = IF j.snd_buf = <<>> THEN j.snd_nxt ELSE j.snd_buf[1].sn
  <2>1. j.snd_buf = <<>> <=> N + n = 0
    BY <1>11, SequenceOf
  <2>2. CASE N = 0 /\ n = 0
    BY <1>2, <1>9, <1>10, <2>1, <2>2
  <2>3. CASE N = 0 /\ n # 0
    <3>1. 1 \in 1..(N + n) /\ ~ (1 <= N)
      BY <1>4, <2>3
    <3>2. j.snd_buf[1].sn = k.snd_nxt + (1 - N) - 1
      BY <1>12, <3>1
    <3>3. k.snd_una = k.snd_nxt /\ j.snd_buf[1].sn = k.snd_nxt /\ N + n # 0
      BY <1>2, <1>4, <2>3, <3>2
    <3>4. QED
      BY <1>10, <2>1, <3>3
  <2>4. CASE N # 0
    <3>1. 1 \in 1..(N + n) /\ 1 <= N /\ N + n # 0
      BY <1>2, <1>4, <2>4
    <3>2. j.snd_buf[1] = k.snd_buf[1]
      BY <1>12, <3>1
    <3>3. QED
      BY <1>2, <1>10, <2>1, <2>4, <3>1, <3>2
  <2>5. QED
    BY <2>2, <2>3, <2>4
<1>16. QueueOK(j, S)
  <2>1. ASSUME NEW i \in 1..(Q - n) PROVE Piece(j.snd_queue[i], j.snd_nxt + i - 1) \in S
    <3>0. j.snd_nxt = k.snd_nxt + n
      BY <1>9
    <3>1. i + n \in 1..Q /\ j.snd_nxt + i - 1 = k.snd_nxt + (i + n) - 1
      BY <1>0, <3>0
    <3>2. j.snd_queue[i] = k.snd_queue[i + n]
      BY <1>8, <1>9
    <3>3. QED
      BY <1>2, <3>1, <3>2
  <2>2. QED
    BY <1>8, <1>9, <2>1 DEF QueueOK
<1>17. SendOK(j, S)
  <2>1. j.snd_una \in Nat /\ j.snd_nxt \in Nat /\ j.snd_wnd \in Nat /\ j.snd_nxt - j.snd_una <= j.snd_wnd
    BY <1>2, <1>4, <1>9, <1>10
  <2>2. QED
    BY <1>11, <1>13, <1>14, <1>15, <1>16, <2>1 DEF SendOK
<1>18. Gone(j) \subseteq Gone(k)
  <2>1. Numbers(j.snd_buf) = {j.snd_buf[i].sn : i \in 1..(N + n)} /\ Numbers(k.snd_buf) = {k.snd_buf[i].sn : i \in 1..N}
    <3>1. k.snd_buf \in Seq(SendingOf(S)) /\ j.snd_buf \in Seq(SendingOf(S)) /\ Len(j.snd_buf) = N + n
      BY <1>2, <1>11
    <3>2. Numbers(j.snd_buf) = {j.snd_buf[i].sn : i \in 1..Len(j.snd_buf)}
      BY <3>1, NumbersOf, SendingNumbered
    <3>3. Numbers(k.snd_buf) = {k.snd_buf[i].sn : i \in 1..N}
      BY <3>1, NumbersOf, SendingNumbered
    <3>4. QED
      BY <3>1, <3>2, <3>3
  <2>2. SUFFICES ASSUME NEW x \in 0..(k.snd_nxt + n - 1), x \notin Numbers(j.snd_buf)
                 PROVE  x \in 0..(k.snd_nxt - 1) /\ x \notin Numbers(k.snd_buf)
    <3>1. ASSUME NEW x \in Gone(j) PROVE x \in 0..(k.snd_nxt + n - 1) /\ x \notin Numbers(j.snd_buf)
      <4>1. x \in 0..(j.snd_nxt - 1) /\ x \notin Numbers(j.snd_buf)
        BY Zenon DEF Gone
      <4>2. j.snd_nxt = k.snd_nxt + n
        BY <1>9
      <4>3. x \in Int /\ 0 <= x /\ x <= j.snd_nxt - 1 /\ j.snd_nxt \in Int
        BY <1>0, <4>1, <4>2
      <4>4. x <= k.snd_nxt + n - 1
        BY <1>0, <4>2, <4>3
      <4>5. QED
        BY <1>0, <4>1, <4>3, <4>4
    <3>2. ASSUME NEW x \in 0..(k.snd_nxt - 1), x \notin Numbers(k.snd_buf) PROVE x \in Gone(k)
      BY <3>2, Zenon DEF Gone
    <3>3. QED
      BY <3>1, <3>2
  <2>3. ASSUME NEW i \in 1..N PROVE x # k.snd_buf[i].sn
    <3>1. i \in 1..(N + n) /\ i <= N
      BY <1>2, <1>4
    <3>2. j.snd_buf[i] = k.snd_buf[i]
      BY <1>12, <3>1
    <3>3. QED
      BY <2>1, <2>2, <3>1, <3>2
  <2>4. x < k.snd_nxt
    <3>1. SUFFICES ASSUME ~ (x < k.snd_nxt) PROVE FALSE
      OBVIOUS
    <3> DEFINE i == N + (x - k.snd_nxt) + 1
    <3>2. i \in 1..(N + n) /\ ~ (i <= N) /\ k.snd_nxt + (i - N) - 1 = x
      <4> HIDE DEF N
      <4>1. x \in Nat /\ x <= k.snd_nxt + n - 1 /\ k.snd_nxt <= x
        BY <1>0, <2>2, <3>1
      <4>2. i \in Int /\ 1 <= i /\ i <= N + n /\ i > N
        BY <1>0, <4>1
      <4>3. QED
        <5>1. k.snd_nxt + (i - N) - 1 = x
          BY <1>0, <4>1
        <5> HIDE DEF i
        <5>2. i \in 1..(N + n) /\ ~ (i <= N)
          BY <1>0, <4>2
        <5>3. QED
          BY <5>1, <5>2
    <3> HIDE DEF i
    <3>3. j.snd_buf[i].sn = x
      BY <1>12, <3>2
    <3>4. QED
      BY <2>1, <2>2, <3>2, <3>3
  <2>5. QED
    BY <1>2, <2>1, <2>2, <2>3, <2>4
<1>19. Given(j) = Given(k)
  BY <1>2, <1>4, <1>8, <1>9 DEF Given
<1>20. Same(k, j, RecvNames) /\ Same(k, j, OtherNames)
  BY <1>9 DEF Same, Names, SendNames, RecvNames, OtherNames
<1>21. RecvOK(j, S) /\ Held(j) = Held(k) /\ Passed(j) = Passed(k) /\ j.rcv_nxt = k.rcv_nxt
  BY <1>1, <1>20, SameRecv
<1>22. OtherOK(j) /\ j.fastresend = k.fastresend
  BY <1>1, <1>20, SameOther
<1>23. k.rcv_nxt \in Nat /\ k.snd_nxt <= j.snd_nxt
  BY <1>1, <1>2, <1>4, <1>9 DEF RecvOK
<1>24. Good(j, S) /\ Changes(k, j, {}, {}) /\ Inside(k, j)
  BY <1>9, <1>17, <1>18, <1>19, <1>21, <1>22, <1>23 DEF Good, Changes, Inside
<1>25. QED
  BY <1>9, <1>24 DEF j

\* A segment that tells of the sequence number sn of the receiving side.
LEMMA ControlIs ==
  ASSUME NEW S, NEW k, NEW j, Good(k, S), j.rcv_nxt \in Nat, k.rcv_nxt <= j.rcv_nxt, Held(k) \subseteq Held(j),
         NEW cmd \in {"ack", "wask", "wins"}, NEW sn \in Nat, cmd = "ack" => sn \in Held(k)
  PROVE  Control(k, cmd, sn) \in FineOf(S, j)
<1> DEFINE h == Control(k, cmd, sn)
<1>1. k.rcv_nxt \in Nat /\ ikcp_wnd_unused(k) \in Int
  <2>1. k.rcv_nxt \in Nat /\ k.rcv_wnd \in Nat /\ k.rcv_queue \in Seq(S)
    BY DEF Good, RecvOK
  <2>2. Len(k.rcv_queue) \in Nat
    BY <2>1, SequenceOf
  <2>3. QED
    BY <2>1, <2>2 DEF ikcp_wnd_unused, Largest
<1>2. h \in Header /\ h.cmd = cmd /\ h.sn = sn /\ h.una = k.rcv_nxt
  BY <1>1 DEF Control, Encoded, Header
<1> HIDE DEF h
<1>3. h \in HeaderOf(S) /\ Fine(h, j)
  BY <1>1, <1>2 DEF HeaderOf, Fine
<1>4. QED
  BY <1>3 DEF FineOf, h

\* The acknowledgements of a flush, and the probe and the answer to one.
LEMMA AcksAre ==
  ASSUME NEW S, NEW k, NEW j, Good(k, S), j.rcv_nxt \in Nat, k.rcv_nxt <= j.rcv_nxt, Held(k) \subseteq Held(j), NEW probe
  PROVE  Acks(k) \in Seq(FineOf(S, j)) /\ Asked(k, probe) \in Seq(FineOf(S, j))
<1> DEFINE H == FineOf(S, j)
           N == Len(k.acklist)
           last == IF k.acklist = <<>> THEN 0 ELSE k.acklist[Len(k.acklist)]
           ask == Control(k, "wask", last)
           tell == Control(k, "wins", last)
<1>1. /\ N \in Nat /\ DOMAIN k.acklist = 1..N /\ (k.acklist = <<>> <=> N = 0)
      /\ \A i \in 1..N : k.acklist[i] \in Nat /\ k.acklist[i] \in Held(k)
  <2>1. k.acklist \in Seq(Nat) /\ \A i \in 1..N : k.acklist[i] \in Held(k)
    BY DEF Good, RecvOK
  <2>2. QED
    BY <2>1, SequenceOf
<1>2. \A i \in 1..N : Control(k, "ack", k.acklist[i]) \in H
  BY <1>1, ControlIs
<1>3. last \in Nat
  BY <1>1
<1> HIDE DEF last
<1>4. ask \in H /\ tell \in H
  BY <1>3, ControlIs
<1> HIDE DEF H, ask, tell
<1>5. Acks(k) = [i \in 1..N |-> Control(k, "ack", k.acklist[i])]
  BY <1>1 DEF Acks
<1>6. Acks(k) \in Seq(H)
  BY <1>1, <1>2, <1>5
<1>7. Asked(k, probe) \in Seq(H)
  <2>1. Asked(k, probe) = (IF "ask" \in probe THEN <<ask>> ELSE <<>>) \o (IF "tell" \in probe THEN <<tell>> ELSE <<>>)
    BY DEF Asked, ask, tell, last
  <2>2. (IF "ask" \in probe THEN <<ask>> ELSE <<>>) \in Seq(H) /\ (IF "tell" \in probe THEN <<tell>> ELSE <<>>) \in Seq(H)
    BY <1>4
  <2>3. QED
    BY <2>1, <2>2, ConcatProperties
<1>8. QED
  BY <1>6, <1>7 DEF H

\* The segments of the send buffer that are sent.
LEMMA DataIs ==
  ASSUME NEW S, NEW k, NEW j, Good(k, S), j.rcv_nxt \in Nat, k.rcv_nxt <= j.rcv_nxt, NEW late,
         NEW buf \in Seq(SendingOf(S)), \A i \in 1..Len(buf) : buf[i].sn < j.snd_nxt
  PROVE  Data(k, buf, late) \in Seq(FineOf(S, j))
<1> DEFINE N == Len(buf)
           H == FineOf(S, j)
           T == Seq(H)
           push(s) == Encoded(k, "push", s.sn, s.frg, s.msg, s.len)
           Add(q, s) == IF Reason(k, s, late) = "none" THEN q ELSE Append(q, push(s))
           none == << >>
           next == [i \in 1..N |-> [q \in T |-> Add(q, buf[i])]]
           Eq(f) == f = [i \in 0..N |-> IF i = 0 THEN none ELSE
                                        IF Reason(k, buf[i], late) = "none" THEN f[i - 1]
                                        ELSE Append(f[i - 1], push(buf[i]))]
           pushed == CHOOSE f : Eq(f)
<1>1. N \in Nat /\ \A i \in 1..N : buf[i] \in SendingOf(S)
  BY SequenceOf
<1>2. k.rcv_nxt \in Nat /\ ikcp_wnd_unused(k) \in Int
  <2>1. k.rcv_nxt \in Nat /\ k.rcv_wnd \in Nat /\ k.rcv_queue \in Seq(S)
    BY DEF Good, RecvOK
  <2>2. Len(k.rcv_queue) \in Nat
    BY <2>1, SequenceOf
  <2>3. QED
    BY <2>1, <2>2 DEF ikcp_wnd_unused, Largest
<1>3. ASSUME NEW i \in 1..N PROVE push(buf[i]) \in H
  <2> DEFINE s == buf[i]
             h == push(s)
  <2>1. s \in Sending /\ Piece(s, s.sn) \in S /\ s.sn < j.snd_nxt
    BY <1>1 DEF SendingOf
  <2>2. /\ h \in Header /\ h.cmd = "push" /\ h.sn = s.sn /\ h.una = k.rcv_nxt
        /\ h.frg = s.frg /\ h.msg = s.msg /\ h.len = s.len
    BY <1>2, <2>1 DEF Encoded, Header, Sending
  <2> HIDE DEF s, h
  <2>3. Piece(h, h.sn) = Piece(s, s.sn)
    BY <2>2 DEF Piece
  <2>4. h \in HeaderOf(S) /\ Fine(h, j)
    BY <1>2, <2>1, <2>2, <2>3 DEF HeaderOf, Fine
  <2>5. h \in H
    BY <2>4 DEF FineOf
  <2>6. QED
    BY <2>5 DEF h, s
<1> HIDE DEF H, push
<1>4. ASSUME NEW i \in 1..N, NEW q \in T PROVE Add(q, buf[i]) \in T
  <2>1. Append(q, push(buf[i])) \in T
    BY <1>3
  <2>2. QED
    BY <2>1
<1>5. none \in T
  OBVIOUS
<1> HIDE DEF T
<1>6. next \in Steps(N, T) /\ \A i \in 1..N, q \in T : next[i][q] = Add(q, buf[i])
  <2> HIDE DEF Add
  <2>1. QED
    BY <1>4 DEF Steps
<1>7. \E f : IsRecursion(f, N, T, none, next)
  <2> HIDE DEF next, N, none
  <2>1. QED
    BY <1>1, <1>5, <1>6, RecursionUpTo
<1> HIDE DEF none
<1>8. PICK f : f \in [0..N -> T] /\ f[0] = none /\ \A i \in 1..N : f[i] = next[i][f[i - 1]]
  BY <1>7 DEF IsRecursion
<1>9. Eq(f)
  <2>1. \A i \in 0..N : f[i] = IF i = 0 THEN none ELSE IF Reason(k, buf[i], late) = "none" THEN f[i - 1]
                                                       ELSE Append(f[i - 1], push(buf[i]))
    <3>1. SUFFICES ASSUME NEW i \in 0..N, i # 0 PROVE f[i] = Add(f[i - 1], buf[i])
      BY <1>8
    <3>2. i \in 1..N /\ i - 1 \in 0..N
      BY <1>1, <3>1
    <3> HIDE DEF Add, next
    <3>3. QED
      BY <1>6, <1>8, <3>2
  <2>2. QED
    BY <1>8, <2>1
<1>10. Eq(pushed)
  <2> HIDE DEF Eq
  <2>1. QED
    BY <1>9
<1> HIDE DEF pushed
<1>11. pushed[0] = none /\ \A i \in 1..N : pushed[i] = Add(pushed[i - 1], buf[i])
  <2>1. \A i \in 0..N : pushed[i] = IF i = 0 THEN none ELSE IF Reason(k, buf[i], late) = "none" THEN pushed[i - 1]
                                    ELSE Append(pushed[i - 1], push(buf[i]))
    BY <1>10
  <2>2. QED
    BY <1>1, <2>1
<1> HIDE DEF Add
<1> DEFINE Done == {i \in 0..N : pushed[i] \in T}
<1>12. N \in Done
  <2>1. 0 \in Done
    BY <1>1, <1>5, <1>11
  <2>2. \A i \in 1..N : i - 1 \in Done => i \in Done
    BY <1>1, <1>4, <1>11
  <2> HIDE DEF Done
  <2>3. 0..N \subseteq Done
    BY <1>1, <2>1, <2>2, InductionUpTo
  <2>4. QED
    BY <1>1, <2>3
<1>13. Data(k, buf, late) = pushed[N]
  BY DEF Data, pushed, push, none
<1>14. QED
  BY <1>12, <1>13 DEF T, H

\* What is sent again is counted.
LEMMA ResentIs ==
  ASSUME NEW S, NEW k, Good(k, S), NEW by, NEW late
  PROVE  LET j == [k EXCEPT !.snd_buf = Resent(by, k.snd_buf, late)]
         IN Good(j, S) /\ Changes(k, j, {}, {}) /\ Inside(k, j)
<1> DEFINE buf == k.snd_buf
           again == Resent(by, buf, late)
           j == [k EXCEPT !.snd_buf = again]
<1>1. Shape(k) /\ SendOK(k, S) /\ RecvOK(k, S) /\ OtherOK(k)
  BY DEF Good
<1>2. /\ buf \in Seq(SendingOf(S)) /\ Len(buf) \in Nat /\ DOMAIN buf = 1..Len(buf)
      /\ \A i \in 1..Len(buf) : buf[i] \in SendingOf(S)
  BY <1>1, SequenceOf DEF SendOK
<1>3. ASSUME NEW i \in 1..Len(buf) PROVE again[i] \in SendingOf(S) /\ again[i].sn = buf[i].sn
  <2> DEFINE s == buf[i]
             x == Counted(s.xmit)
             once == [s EXCEPT !.xmit = x]
             fast == [once EXCEPT !.fastack = 0]
  <2>1. s \in SendingOf(S)
    BY <1>2
  <2>2. x \in Nat
    BY <2>1 DEF SendingOf, Sending, Counted, Least
  <2>3. once = [s EXCEPT !.xmit = Counted(@)] /\ fast = [s EXCEPT !.xmit = Counted(@), !.fastack = 0]
    <3>1. s = [sn |-> s.sn, frg |-> s.frg, msg |-> s.msg, len |-> s.len, xmit |-> s.xmit, fastack |-> s.fastack]
      BY <2>1 DEF SendingOf, Sending
    <3>2. QED
      BY <3>1
  <2>4. again[i] = CASE Reason(by, s, late) = "none" -> s
                     [] Reason(by, s, late) = "fast" -> fast
                     [] OTHER                        -> once
    BY <1>2, <2>3 DEF Resent
  <2> HIDE DEF x, once, s
  <2>5. once \in SendingOf(S) /\ once.sn = s.sn
    BY <2>1, <2>2, Counters DEF once
  <2>6. fast \in SendingOf(S) /\ fast.sn = s.sn
    BY <2>5, Counters
  <2> HIDE DEF fast
  <2>7. again[i] \in {s, once, fast}
    BY <2>4
  <2>8. QED
    BY <2>1, <2>5, <2>6, <2>7 DEF s
<1>4. again \in Seq(SendingOf(S)) /\ Len(again) = Len(buf)
  <2>1. again = [i \in 1..Len(buf) |-> again[i]]
    BY <1>2 DEF Resent
  <2> HIDE DEF again
  <2>2. again \in [1..Len(buf) -> SendingOf(S)]
    BY <1>3, <2>1
  <2>3. QED
    BY <1>2, <2>2
<1> HIDE DEF again, j
<1>5. Shape(j) /\ j.snd_buf = again /\ Same(k, j, Names \ {"snd_buf"})
  BY <1>1 DEF j, Shape, Same, Names
<1>6. Same(k, j, SendNames \ {"snd_buf"}) /\ Same(k, j, RecvNames) /\ Same(k, j, OtherNames)
  BY <1>5 DEF Same, Names, SendNames, RecvNames, OtherNames
<1>7. SendOK(j, S) /\ Gone(j) = Gone(k) /\ Given(j) = Given(k) /\ j.snd_nxt = k.snd_nxt
  <2>1. /\ j.snd_buf \in Seq(SendingOf(S)) /\ Len(j.snd_buf) = Len(k.snd_buf)
        /\ \A i \in 1..Len(k.snd_buf) : j.snd_buf[i].sn = k.snd_buf[i].sn
    BY <1>3, <1>4, <1>5
  <2>2. QED
    BY <1>1, <1>6, <2>1, SameNumbers
<1>8. RecvOK(j, S) /\ Held(j) = Held(k) /\ Passed(j) = Passed(k) /\ j.rcv_nxt = k.rcv_nxt
  BY <1>1, <1>6, SameRecv
<1>9. OtherOK(j) /\ j.fastresend = k.fastresend
  BY <1>1, <1>6, SameOther
<1>10. k.snd_nxt \in Nat /\ k.rcv_nxt \in Nat
  BY <1>1 DEF SendOK, RecvOK
<1>11. Good(j, S) /\ Changes(k, j, {}, {}) /\ Inside(k, j)
  BY <1>5, <1>7, <1>8, <1>9, <1>10 DEF Good, Changes, Inside
<1>12. QED
  BY <1>11 DEF j, again

\* The congestion window after a flush.
LEMMA CongestIs ==
  ASSUME NEW S, NEW k, Good(k, S), NEW change, NEW lost, NEW window \in Int
  PROVE  LET j == Congest(k, change, lost, window)
         IN Good(j, S) /\ Changes(k, j, {}, {}) /\ Inside(k, j)
<1> DEFINE half == Largest((k.snd_nxt - k.snd_una) \div 2, IKCP_THRESH_MIN)
           wide == half + k.fastresend
           bytes == wide * k.mss
           low == Largest(window \div 2, IKCP_THRESH_MIN)
           fast == IF change THEN [k EXCEPT !.ssthresh = half, !.cwnd = wide, !.incr = bytes] ELSE k
           slow == IF lost THEN [fast EXCEPT !.ssthresh = low, !.cwnd = 1, !.incr = k.mss] ELSE fast
           j == IF slow.cwnd < 1 THEN [slow EXCEPT !.cwnd = 1, !.incr = k.mss] ELSE slow
           F == {"cwnd", "incr", "ssthresh"}
           Fits(l) == Shape(l) /\ Same(k, l, Names \ F) /\ l.cwnd \in Int /\ l.incr \in Int /\ l.ssthresh \in Int
<1>1. Shape(k) /\ SendOK(k, S) /\ OtherOK(k)
  BY DEF Good
<1>2. j = Congest(k, change, lost, window)
  BY DEF Congest
<1>3. half \in Int /\ low \in Int
  BY <1>1 DEF SendOK, Largest
<1> HIDE DEF half, low
<1>4. wide \in Int
  BY <1>1, <1>3 DEF OtherOK
<1> HIDE DEF wide
<1>5. bytes \in Int /\ k.mss \in Int
  BY <1>1, <1>4 DEF OtherOK
<1> HIDE DEF bytes
<1>6. Fits(k)
  BY <1>1 DEF OtherOK, Same
<1>7. Fits(fast)
  <2>1. CASE ~ change
    BY <1>6, <2>1
  <2>2. CASE change
    <3> DEFINE l == [k EXCEPT !.ssthresh = half, !.cwnd = wide, !.incr = bytes]
    <3>1. fast = l
      BY <2>2
    <3> HIDE DEF fast
    <3>2. l.ssthresh = half /\ l.cwnd = wide /\ l.incr = bytes /\ Shape(l) /\ Same(k, l, Names \ F)
      BY <1>1 DEF Shape, Same, Names
    <3> HIDE DEF l
    <3>3. QED
      BY <1>3, <1>4, <1>5, <3>1, <3>2
  <2>3. QED
    BY <2>1, <2>2
<1> HIDE DEF fast
<1>8. Fits(slow)
  <2>1. CASE ~ lost
    BY <1>7, <2>1
  <2>2. CASE lost
    <3> DEFINE l == [fast EXCEPT !.ssthresh = low, !.cwnd = 1, !.incr = k.mss]
    <3>1. slow = l
      BY <2>2
    <3> HIDE DEF slow
    <3>2. l.ssthresh = low /\ l.cwnd = 1 /\ l.incr = k.mss /\ Shape(l) /\ Same(fast, l, Names \ F)
      BY <1>7 DEF Shape, Same, Names
    <3> HIDE DEF l
    <3>3. Same(k, l, Names \ F)
      BY <1>7, <3>2 DEF Same
    <3>4. QED
      BY <1>3, <1>5, <3>1, <3>2, <3>3
  <2>3. QED
    BY <2>1, <2>2
<1> HIDE DEF slow
<1>9. Fits(j)
  <2>1. CASE ~ (slow.cwnd < 1)
    BY <1>8, <2>1
  <2>2. CASE slow.cwnd < 1
    <3> DEFINE l == [slow EXCEPT !.cwnd = 1, !.incr = k.mss]
    <3>1. j = l
      BY <2>2
    <3> HIDE DEF j
    <3>2. l.cwnd = 1 /\ l.incr = k.mss /\ Shape(l) /\ l.ssthresh = slow.ssthresh /\ Same(slow, l, Names \ F)
      BY <1>8 DEF Shape, Same, Names
    <3> HIDE DEF l
    <3>3. Same(k, l, Names \ F)
      BY <1>8, <3>2 DEF Same
    <3>4. QED
      BY <1>5, <1>8, <3>1, <3>2, <3>3
  <2>3. QED
    BY <2>1, <2>2
<1> HIDE DEF j
<1>10. Good(j, S) /\ Changes(k, j, {}, {}) /\ Inside(k, j)
  BY <1>9, WindowFields
<1>11. QED
  BY <1>2, <1>10

\* A flush.
LEMMA FlushIs ==
  ASSUME NEW S \in SUBSET DataSegment, NEW k, Good(k, S), NEW late, NEW probeDue
  PROVE  LET r == ikcp_flush(k, late, probeDue)
         IN /\ Good(r.k, S) /\ Changes(k, r.k, {}, {}) /\ Inside(k, r.k)
            /\ r.out \in Seq(Seq(FineOf(S, r.k)))
<1> DEFINE r == ikcp_flush(k, late, probeDue)
           Leads(a, b) == Good(b, S) /\ Changes(a, b, {}, {}) /\ Inside(a, b)
           probed == Probe(k, probeDue)
           cleared == Cleared(probed)
           filled == FillBuffer(cleared)
           Because(reason) == \E i \in DOMAIN filled.snd_buf : Reason(k, filled.snd_buf[i], late) = reason
           resent == [filled EXCEPT !.snd_buf = Resent(k, filled.snd_buf, late)]
           done == Congest(resent, Because("fast"), Because("lost"), Window(probed))
           segs == Acks(k) \o Asked(k, probed.probe) \o Data(k, filled.snd_buf, late)
<1>1. CASE ~ k.updated
  <2>1. r.k = k /\ r.out = <<>>
    BY <1>1 DEF ikcp_flush
  <2>2. k.rcv_nxt \in Nat /\ k.snd_nxt \in Nat
    BY DEF Good, SendOK, RecvOK
  <2>3. Changes(k, k, {}, {}) /\ Inside(k, k)
    BY <2>2 DEF Changes, Inside
  <2>4. QED
    BY <2>1, <2>3
<1>2. CASE k.updated
  <2>1. r = [k |-> done, out |-> Packed(k, segs)]
    <3>1. resent = [filled EXCEPT !.snd_buf = Resent(k, @, late)]
      OBVIOUS
    <3> HIDE DEF resent
    <3>2. QED
      BY <1>2, <3>1, Zenon DEF ikcp_flush, Cleared
  <2>2. ASSUME NEW a, NEW b, Leads(k, a), Leads(a, b) PROVE Leads(k, b)
    <3>1. /\ k.rcv_nxt \in Nat /\ a.rcv_nxt \in Nat /\ b.rcv_nxt \in Nat
          /\ k.snd_nxt \in Nat /\ a.snd_nxt \in Nat /\ b.snd_nxt \in Nat
      BY <2>2 DEF Good, SendOK, RecvOK
    <3>2. Changes(k, b, {}, {})
      BY <2>2, <3>1, ChangesAfter
    <3>3. QED
      BY <2>2, <3>2 DEF Inside
  <2>3. Leads(k, probed)
    BY ProbeIs
  <2>4. Window(probed) \in Int
    <3>1. /\ probed.snd_wnd \in Int /\ probed.rmt_wnd \in Int /\ probed.cwnd \in Int
      BY <2>3 DEF Good, SendOK, OtherOK
    <3>2. QED
      BY <3>1 DEF Window, Least
  <2> HIDE DEF probed
  <2>5. Leads(probed, cleared)
    BY <2>3, ClearedIs
  <2> HIDE DEF cleared
  <2>6. Leads(cleared, filled)
    BY <2>5, FillBufferIs
  <2> HIDE DEF filled
  <2>7. Leads(filled, resent)
    BY <2>6, ResentIs
  <2> HIDE DEF resent, Because
  <2>8. Leads(resent, done)
    BY <2>4, <2>7, CongestIs
  <2> HIDE DEF done
  <2>9. Leads(k, filled)
    <3> HIDE DEF Leads
    <3>1. QED
      BY <2>2, <2>3, <2>5, <2>6
  <2>10. Leads(filled, done) /\ Leads(k, done)
    <3>1. /\ filled.rcv_nxt \in Nat /\ resent.rcv_nxt \in Nat /\ done.rcv_nxt \in Nat
          /\ filled.snd_nxt \in Nat /\ resent.snd_nxt \in Nat /\ done.snd_nxt \in Nat
      BY <2>6, <2>7, <2>8 DEF Good, SendOK, RecvOK
    <3>2. Changes(filled, done, {}, {})
      BY <2>7, <2>8, <3>1, ChangesAfter
    <3>3. Leads(filled, done)
      BY <2>7, <2>8, <3>2 DEF Inside
    <3> HIDE DEF Leads
    <3>4. QED
      BY <2>2, <2>9, <3>3
  <2>11. done.rcv_nxt \in Nat /\ k.rcv_nxt <= done.rcv_nxt /\ Held(k) \subseteq Held(done) /\ k.mtu \in Int
    BY <2>10 DEF Good, RecvOK, Changes, OtherOK
  <2> DEFINE H == FineOf(S, done)
  <2>12. Acks(k) \in Seq(H) /\ Asked(k, probed.probe) \in Seq(H)
    BY <2>11, AcksAre
  <2>13. Data(k, filled.snd_buf, late) \in Seq(H)
    <3>1. filled.snd_buf \in Seq(SendingOf(S)) /\ filled.snd_nxt <= done.snd_nxt
          /\ filled.snd_nxt \in Nat /\ done.snd_nxt \in Nat
      BY <2>6, <2>10 DEF Good, SendOK, Changes
    <3>2. \A i \in 1..Len(filled.snd_buf) : filled.snd_buf[i].sn < filled.snd_nxt
      BY <2>6 DEF Good, SendOK
    <3>3. \A i \in 1..Len(filled.snd_buf) : filled.snd_buf[i].sn \in Nat
      BY <3>1, SequenceOf, SendingNumbered DEF Numbered
    <3>4. \A i \in 1..Len(filled.snd_buf) : filled.snd_buf[i].sn < done.snd_nxt
      BY <3>1, <3>2, <3>3
    <3>5. QED
      BY <2>11, <3>1, <3>4, DataIs
  <2>14. \A h \in H : h.len \in Int
    BY DEF FineOf, HeaderOf, Header
  <2> HIDE DEF H
  <2>15. segs \in Seq(H)
    BY <2>12, <2>13, ConcatProperties
  <2> HIDE DEF segs
  <2>16. Packed(k, segs) \in Seq(Seq(H))
    BY <2>11, <2>14, <2>15, PackedIs
  <2>17. r.k = done /\ r.out = Packed(k, segs)
    BY <2>1
  <2> HIDE DEF r
  <2>18. Good(r.k, S) /\ Changes(k, r.k, {}, {}) /\ Inside(k, r.k) /\ r.out \in Seq(Seq(FineOf(S, r.k)))
    BY <2>10, <2>16, <2>17 DEF H
  <2>19. QED
    BY <2>18 DEF r
<1>3. QED
  BY <1>1, <1>2

\* An update.
LEMMA UpdateIs ==
  ASSUME NEW S \in SUBSET DataSegment, NEW k, Good(k, S), NEW due, NEW late, NEW probeDue
  PROVE  LET r == ikcp_update(k, due, late, probeDue)
         IN /\ Good(r.k, S) /\ Changes(k, r.k, {}, {}) /\ Inside(k, r.k)
            /\ r.out \in Seq(Seq(FineOf(S, r.k)))
<1> DEFINE r == ikcp_update(k, due, late, probeDue)
           ready == [k EXCEPT !.updated = TRUE]
           flushed == ikcp_flush(ready, late, probeDue)
<1>1. Shape(k) /\ OtherOK(k)
  BY DEF Good
<1>2. Shape(ready) /\ ready.updated = TRUE /\ Same(k, ready, Names \ {"updated"})
  BY <1>1 DEF Shape, Same, Names
<1>3. r = IF ~ k.updated \/ due THEN flushed ELSE [k |-> ready, out |-> <<>>]
  BY DEF ikcp_update
<1> HIDE DEF ready
<1>4. Same(k, ready, SendNames) /\ Same(k, ready, RecvNames)
  BY <1>2 DEF Same, Names, SendNames, RecvNames
<1>5. /\ ready.rmt_wnd = k.rmt_wnd /\ ready.cwnd = k.cwnd /\ ready.incr = k.incr /\ ready.ssthresh = k.ssthresh
      /\ ready.mtu = k.mtu /\ ready.mss = k.mss /\ ready.fastresend = k.fastresend
      /\ ready.nocwnd = k.nocwnd /\ ready.probing = k.probing /\ ready.probe = k.probe
  BY <1>2 DEF Same, Names
<1>6. ready.updated \in BOOLEAN /\ ready.nocwnd \in BOOLEAN /\ ready.probing \in BOOLEAN
  BY <1>1, <1>2, <1>5, Zenon DEF OtherOK
<1>7. OtherOK(ready)
  BY <1>1, <1>5, <1>6 DEF OtherOK
<1>8. Good(ready, S) /\ Changes(k, ready, {}, {}) /\ Inside(k, ready)
  BY <1>2, <1>4, <1>5, <1>7, OtherFields
<1>9. /\ Good(flushed.k, S) /\ Changes(ready, flushed.k, {}, {}) /\ Inside(ready, flushed.k)
      /\ flushed.out \in Seq(Seq(FineOf(S, flushed.k)))
  BY <1>8, FlushIs
<1> HIDE DEF flushed
<1>10. /\ k.rcv_nxt \in Nat /\ ready.rcv_nxt \in Nat /\ flushed.k.rcv_nxt \in Nat
       /\ k.snd_nxt \in Nat /\ ready.snd_nxt \in Nat /\ flushed.k.snd_nxt \in Nat
  BY <1>8, <1>9 DEF Good, SendOK, RecvOK
<1>11. Changes(k, flushed.k, {}, {}) /\ Inside(k, flushed.k)
  BY <1>8, <1>9, <1>10, ChangesAfter DEF Inside
<1> HIDE DEF r
<1>12. /\ Good(r.k, S) /\ Changes(k, r.k, {}, {}) /\ Inside(k, r.k)
       /\ r.out \in Seq(Seq(FineOf(S, r.k)))
  <2>1. CASE r = flushed
    BY <1>9, <1>11, <2>1
  <2>2. CASE r = [k |-> ready, out |-> <<>>]
    BY <1>8, <2>2
  <2>3. QED
    BY <1>3, <2>1, <2>2
<1>13. QED
  BY <1>12 DEF r

\* A flush and an update, as every pass of a thread ends.
LEMMA PassIs ==
  ASSUME NEW S \in SUBSET DataSegment, NEW k, Good(k, S), NEW r \in Passes(k)
  PROVE  Good(r.k, S) /\ Changes(k, r.k, {}, {}) /\ Inside(k, r.k) /\ r.out \subseteq Seq(FineOf(S, r.k))
<1>1. PICK p \in FlushAndUpdate(k) : r.k = p.k /\ r.out = p.out
  BY DEF Passes
<1>2. PICK f \in Flushed(k) :
        \E u \in Updated(f.k) : p.k = u.after.k /\ p.out = ToSet(f.out \o u.after.out)
  BY DEF FlushAndUpdate
<1>3. PICK u \in Updated(f.k) : p.k = u.after.k /\ p.out = ToSet(f.out \o u.after.out)
  BY <1>2
<1>4. PICK late1, probe1 : f = ikcp_flush(k, late1, probe1)
  BY DEF Flushed
<1>5. PICK due, late2, probe2 : u.after = ikcp_update(f.k, due, late2, probe2)
  BY DEF Updated
<1>6. /\ Good(f.k, S) /\ Changes(k, f.k, {}, {}) /\ Inside(k, f.k)
      /\ f.out \in Seq(Seq(FineOf(S, f.k)))
  BY <1>4, FlushIs
<1> DEFINE a == u.after
<1>7. /\ Good(a.k, S) /\ Changes(f.k, a.k, {}, {}) /\ Inside(f.k, a.k)
      /\ a.out \in Seq(Seq(FineOf(S, a.k)))
  BY <1>5, <1>6, UpdateIs
<1> HIDE DEF a
<1>8. /\ k.rcv_nxt \in Nat /\ f.k.rcv_nxt \in Nat /\ a.k.rcv_nxt \in Nat
      /\ k.snd_nxt \in Nat /\ f.k.snd_nxt \in Nat /\ a.k.snd_nxt \in Nat
  BY <1>6, <1>7 DEF Good, SendOK, RecvOK
<1>9. Changes(k, a.k, {}, {}) /\ Inside(k, a.k)
  BY <1>6, <1>7, <1>8, ChangesAfter DEF Inside
<1>10. FineOf(S, f.k) \subseteq FineOf(S, a.k)
  <2>1. f.k.rcv_nxt <= a.k.rcv_nxt /\ f.k.snd_nxt <= a.k.snd_nxt /\ Held(f.k) \subseteq Held(a.k)
    BY <1>7 DEF Changes
  <2>2. QED
    BY <1>8, <2>1, StaysFine
<1> DEFINE H1 == FineOf(S, f.k)
           H == FineOf(S, a.k)
           out == f.out \o a.out
<1>11. H1 \subseteq H /\ f.out \in Seq(Seq(H1)) /\ a.out \in Seq(Seq(H))
  BY <1>6, <1>7, <1>10
<1> HIDE DEF H1, H
<1>12. f.out \in Seq(Seq(H))
  <2>1. Seq(H1) \subseteq Seq(H)
    BY <1>11, SeqMonotonic
  <2>2. Seq(Seq(H1)) \subseteq Seq(Seq(H))
    BY <2>1, SeqMonotonic
  <2>3. QED
    BY <1>11, <2>2
<1>13. out \in Seq(Seq(H))
  BY <1>11, <1>12, ConcatProperties
<1> HIDE DEF out
<1>14. ToSet(out) \subseteq Seq(H)
  BY <1>13, SequenceOf DEF ToSet
<1>15. r.k = a.k /\ r.out = ToSet(out)
  BY <1>1, <1>3 DEF a, out
<1>16. QED
  BY <1>7, <1>9, <1>14, <1>15 DEF H

----------------------------------------------------------------------------
(* Messages, and new instances. *)

\* The fragments of a message are those of its length.
LEMMA FragmentsAre ==
  ASSUME NEW k, k.mss \in Nat \ {0}, NEW msg \in Nat, NEW len \in Nat
  PROVE  Fragments(k, msg, len) \in Seq(Fragment)
<1> DEFINE count == IF len <= k.mss THEN 1 ELSE (len + k.mss - 1) \div k.mss
           One(i) == [frg |-> count - i, msg |-> msg,
                      len |-> IF i < count THEN k.mss ELSE len - (count - 1) * k.mss]
           all == [i \in 1..count |-> One(i)]
<1>1. count \in Nat
  OBVIOUS
<1> HIDE DEF count
<1>2. \A i \in 1..count : One(i) \in Fragment
  <2>1. SUFFICES ASSUME NEW i \in 1..count PROVE One(i) \in Fragment
    OBVIOUS
  <2>2. count - i \in Nat /\ (count - 1) * k.mss \in Int
    BY <1>1
  <2>3. QED
    BY <1>1, <2>2 DEF Fragment
<1> HIDE DEF One
<1>3. all \in Seq(Fragment)
  BY <1>1, <1>2
<1>4. Fragments(k, msg, len) = IF count >= IKCP_WND_RCV THEN <<>> ELSE all
  BY DEF Fragments, count, One
<1> HIDE DEF all
<1>5. QED
  BY <1>3, <1>4

\* What is sent waits in snd_queue behind what was given before.
Fitting(S, k, msg, len) ==
  \A i \in 1..Len(Fragments(k, msg, len)) : Piece(Fragments(k, msg, len)[i], Given(k) + i - 1) \in S

\* ikcp_send puts the fragments of the message behind the others.
LEMMA SendIs ==
  ASSUME NEW S \in SUBSET DataSegment, NEW k, Good(k, S), NEW msg \in Nat, NEW len \in Nat, Fitting(S, k, msg, len)
  PROVE  LET j == ikcp_send(k, msg, len)
         IN /\ Good(j, S) /\ Changes(k, j, {}, {})
            /\ Given(j) = Given(k) + Len(Fragments(k, msg, len)) /\ Passed(j) = Passed(k)
<1> DEFINE F == Fragments(k, msg, len)
           n == Len(F)
           Q == Len(k.snd_queue)
           j == ikcp_send(k, msg, len)
<1>1. Shape(k) /\ SendOK(k, S) /\ RecvOK(k, S) /\ OtherOK(k)
  BY DEF Good
<1>2. F \in Seq(Fragment) /\ n \in Nat
  BY <1>1, FragmentsAre, SequenceOf DEF OtherOK
<1>3. /\ k.snd_queue \in Seq(Fragment) /\ Q \in Nat
      /\ \A i \in 1..Q : Piece(k.snd_queue[i], k.snd_nxt + i - 1) \in S
      /\ k.snd_nxt \in Nat /\ k.rcv_nxt \in Nat
  BY <1>1, SequenceOf DEF SendOK, QueueOK, RecvOK
<1>4. \A i \in 1..n : Piece(F[i], k.snd_nxt + Q + i - 1) \in S
  BY DEF Given, Fitting
<1> HIDE DEF F
<1>5. j = [k EXCEPT !.snd_queue = k.snd_queue \o F]
  BY DEF ikcp_send, F
<1> HIDE DEF j
<1>6. Shape(j) /\ j.snd_queue = k.snd_queue \o F /\ Same(k, j, Names \ {"snd_queue"})
  BY <1>1, <1>5 DEF Shape, Same, Names
<1>7. /\ j.snd_queue \in Seq(Fragment) /\ Len(j.snd_queue) = Q + n
      /\ \A i \in 1..(Q + n) : j.snd_queue[i] = IF i <= Q THEN k.snd_queue[i] ELSE F[i - Q]
  BY <1>2, <1>3, <1>6, ConcatProperties
<1>8. /\ j.snd_una = k.snd_una /\ j.snd_nxt = k.snd_nxt /\ j.snd_wnd = k.snd_wnd /\ j.snd_buf = k.snd_buf
  BY <1>6 DEF Same, Names
<1>9. ASSUME NEW i \in 1..(Q + n) PROVE Piece(j.snd_queue[i], j.snd_nxt + i - 1) \in S
  <2>1. CASE i <= Q
    <3>1. i \in 1..Q
      BY <1>3, <2>1
    <3>2. QED
      BY <1>3, <1>7, <1>8, <2>1, <3>1
  <2>2. CASE ~ (i <= Q)
    <3>1. i - Q \in 1..n /\ k.snd_nxt + i - 1 = k.snd_nxt + Q + (i - Q) - 1
      BY <1>2, <1>3, <2>2
    <3>2. QED
      BY <1>4, <1>7, <1>8, <2>2, <3>1
  <2>3. QED
    BY <2>1, <2>2
<1>10. QueueOK(j, S)
  BY <1>7, <1>9 DEF QueueOK
<1>11. SendOK(j, S) /\ Gone(j) = Gone(k)
  BY <1>1, <1>8, <1>10 DEF SendOK, Gone
<1>12. Same(k, j, RecvNames) /\ Same(k, j, OtherNames)
  BY <1>6 DEF Same, Names, SendNames, RecvNames, OtherNames
<1>13. RecvOK(j, S) /\ Held(j) = Held(k) /\ Passed(j) = Passed(k) /\ j.rcv_nxt = k.rcv_nxt
  BY <1>1, <1>12, SameRecv
<1>14. OtherOK(j) /\ j.fastresend = k.fastresend
  BY <1>1, <1>12, SameOther
<1>15. Given(j) = Given(k) + n
  BY <1>2, <1>3, <1>7, <1>8 DEF Given
<1>16. Good(j, S) /\ Changes(k, j, {}, {})
  BY <1>3, <1>6, <1>8, <1>11, <1>13, <1>14 DEF Good, Changes
<1>17. QED
  BY <1>13, <1>15, <1>16 DEF j, F

\* Every queue that is not empty has a first message.
LEMMA LastFragmentIs ==
  ASSUME NEW S, NEW q \in Seq(S), q # <<>>
  PROVE  LET n == LastFragment(q)
         IN /\ n \in 1..Len(q) /\ (q[n].frg = 0 \/ n = Len(q))
            /\ \A i \in 1..(n - 1) : q[i].frg # 0
<1> DEFINE N == Len(q)
           IsEnd(i) == q[i].frg = 0 \/ i = N
           T == {i \in 1..N : IsEnd(i)}
           n == LastFragment(q)
<1>1. N \in Nat /\ DOMAIN q = 1..N /\ N # 0
  BY SequenceOf
<1>2. PICK m \in T : \A i \in T : m <= i
  <2>1. N \in T /\ T \in SUBSET Nat
    BY <1>1
  <2> HIDE DEF T
  <2>2. QED
    BY <2>1, LeastOf
<1>3. ASSUME NEW i \in 1..(m - 1) PROVE q[i].frg # 0
  <2>1. i \in 1..N /\ ~ (m <= i)
    <3>1. m \in 1..N
      BY <1>2
    <3> HIDE DEF N, T
    <3>2. QED
      BY <1>1, <3>1
  <2>2. i \notin T
    BY <1>2, <2>1
  <2>3. QED
    BY <2>1, <2>2
<1>4. \E i \in DOMAIN q : (q[i].frg = 0 \/ i = Len(q)) /\ \A h \in 1..(i - 1) : q[h].frg # 0
  BY <1>1, <1>2, <1>3
<1>5. n \in DOMAIN q /\ (q[n].frg = 0 \/ n = Len(q)) /\ \A h \in 1..(n - 1) : q[h].frg # 0
  BY <1>4 DEF LastFragment
<1>6. QED
  BY <1>1, <1>5

\* The first message goes from rcv_queue to the application, and what has
\* waited in rcv_buf for the room takes its place.
LEMMA RecvIs ==
  ASSUME NEW S \in SUBSET DataSegment, NEW k, Good(k, S), k.rcv_queue # <<>>
  PROVE  LET j == ikcp_recv(k)
         IN /\ Good(j, S) /\ Changes(k, j, {}, {})
            /\ Given(j) = Given(k) /\ Passed(j) = Passed(k) + Len(Received(k))
            /\ Received(k) \in Seq(S) /\ Len(Received(k)) = LastFragment(k.rcv_queue)
<1> DEFINE q == k.rcv_queue
           N == Len(q)
           n == LastFragment(q)
           rest == SubSeq(q, n + 1, N)
           taken == [k EXCEPT !.rcv_queue = rest]
           moved == MoveAvailable(taken)
           told == [moved EXCEPT !.probe = moved.probe \cup {"tell"}]
           j == ikcp_recv(k)
<1>1. Shape(k) /\ SendOK(k, S) /\ RecvOK(k, S) /\ OtherOK(k)
  BY DEF Good
<1>2. /\ q \in Seq(S) /\ N \in Nat /\ k.rcv_nxt \in Nat /\ k.rcv_wnd \in Nat /\ k.snd_nxt \in Nat /\ N <= k.rcv_wnd
      /\ \A i \in 1..N : q[i].sn = Passed(k) + i - 1
  BY <1>1, SequenceOf DEF RecvOK, SendOK
<1>3. n \in 1..N
  BY <1>2, LastFragmentIs
<1>4. Received(k) \in Seq(S) /\ Len(Received(k)) = n
  <2>1. n \in 0..N
    BY <1>3
  <2> HIDE DEF n, q, N
  <2>2. SubSeq(q, 1, n) \in Seq(S) /\ Len(SubSeq(q, 1, n)) = n
    BY <1>2, <2>1, FrontOf DEF N
  <2>3. QED
    BY <2>2 DEF Received, n, q
<1> HIDE DEF n
<1>5. rest \in Seq(S) /\ Len(rest) = N - n /\ \A i \in 1..(N - n) : rest[i] = q[i + n]
  <2>1. n \in 0..N
    BY <1>3
  <2>2. QED
    BY <1>2, <2>1, EndOf
<1> HIDE DEF rest
<1>6. Shape(taken) /\ taken.rcv_queue = rest /\ Same(k, taken, Names \ {"rcv_queue"})
  BY <1>1 DEF Shape, Same, Names
<1> HIDE DEF taken
<1>7. /\ taken.rcv_nxt = k.rcv_nxt /\ taken.rcv_wnd = k.rcv_wnd /\ taken.rcv_buf = k.rcv_buf
      /\ taken.acklist = k.acklist
  BY <1>6 DEF Same, Names
<1>8. Held(taken) = Held(k) /\ Passed(taken) = Passed(k) + n /\ Passed(k) \in Int
  BY <1>2, <1>3, <1>5, <1>6, <1>7 DEF Held, Passed
<1>9. BufferOK(taken, S)
  <2>1. \A i \in 1..Len(taken.rcv_queue) : taken.rcv_queue[i].sn = Passed(taken) + i - 1
    <3>1. SUFFICES ASSUME NEW i \in 1..(N - n) PROVE rest[i].sn = Passed(k) + n + i - 1
      BY <1>5, <1>6, <1>8
    <3>2. i + n \in 1..N
      BY <1>2, <1>3
    <3>3. rest[i] = q[i + n] /\ q[i + n].sn = Passed(k) + (i + n) - 1
      BY <1>2, <1>5, <3>2
    <3>4. QED
      BY <1>3, <1>8, <3>3
  <2>2. Len(taken.rcv_queue) <= taken.rcv_wnd
    BY <1>2, <1>3, <1>5, <1>6, <1>7
  <2>3. QED
    BY <1>1, <1>5, <1>6, <1>7, <2>1, <2>2 DEF RecvOK, BufferOK
<1>10. /\ Shape(moved) /\ Same(taken, moved, Names \ {"rcv_queue", "rcv_buf", "rcv_nxt"})
       /\ BufferOK(moved, S) /\ Held(moved) = Held(taken) /\ Passed(moved) = Passed(taken)
       /\ taken.rcv_nxt <= moved.rcv_nxt
       /\ moved.rcv_nxt \in Numbers(moved.rcv_buf) => Len(moved.rcv_queue) = moved.rcv_wnd
  BY <1>6, <1>9, MoveAvailableIs
<1>11. j \in {moved, told}
  <2>1. taken = [k EXCEPT !.rcv_queue = SubSeq(@, Len(Received(k)) + 1, Len(@))]
    BY <1>4 DEF taken, rest
  <2>2. QED
    BY <2>1 DEF ikcp_recv
<1> HIDE DEF moved
<1>12. Shape(told) /\ told.probe = moved.probe \cup {"tell"} /\ Same(moved, told, Names \ {"probe"})
  BY <1>10 DEF Shape, Same, Names
<1> HIDE DEF told, j
<1>13. Shape(j) /\ Same(moved, j, Names \ {"probe"}) /\ j.probe \in {moved.probe, moved.probe \cup {"tell"}}
  <2>1. Same(moved, moved, Names \ {"probe"})
    BY DEF Same
  <2>2. QED
    BY <1>10, <1>11, <1>12, <2>1
<1>14. Same(k, j, Names \ {"rcv_queue", "rcv_buf", "rcv_nxt", "probe"})
  BY <1>6, <1>10, <1>13 DEF Same
<1>15. /\ j.rcv_nxt = moved.rcv_nxt /\ j.rcv_wnd = moved.rcv_wnd /\ j.rcv_queue = moved.rcv_queue
       /\ j.rcv_buf = moved.rcv_buf /\ j.acklist = moved.acklist /\ moved.acklist = k.acklist
  BY <1>7, <1>10, <1>13 DEF Same, Names
<1>16. Held(j) = Held(k) /\ Passed(j) = Passed(k) + n
  BY <1>8, <1>10, <1>15 DEF Held, Passed
<1>17. RecvOK(j, S)
  <2>1. BufferOK(j, S)
    BY <1>10, <1>15 DEF BufferOK, Passed
  <2>2. j.rcv_nxt \in Numbers(j.rcv_buf) => Len(j.rcv_queue) = j.rcv_wnd
    BY <1>10, <1>15
  <2>3. \A i \in 1..Len(j.acklist) : j.acklist[i] \in Held(j)
    BY <1>1, <1>15, <1>16 DEF RecvOK
  <2>4. QED
    BY <2>1, <2>2, <2>3 DEF BufferOK, RecvOK
<1>18. Same(k, j, SendNames)
  BY <1>14 DEF Same, Names, SendNames
<1>19. SendOK(j, S) /\ Gone(j) = Gone(k) /\ Given(j) = Given(k) /\ j.snd_nxt = k.snd_nxt
  BY <1>1, <1>18, SameSend
<1>20. /\ j.rmt_wnd = k.rmt_wnd /\ j.cwnd = k.cwnd /\ j.incr = k.incr /\ j.ssthresh = k.ssthresh
       /\ j.mtu = k.mtu /\ j.mss = k.mss /\ j.fastresend = k.fastresend
       /\ j.nocwnd = k.nocwnd /\ j.probing = k.probing /\ j.updated = k.updated
  BY <1>14 DEF Same, Names
<1>21. j.probe \in SUBSET {"ask", "tell"}
  <2>1. moved.probe = k.probe
    BY <1>6, <1>10 DEF Same, Names
  <2>2. QED
    BY <1>1, <1>13, <2>1 DEF OtherOK
<1>22. OtherOK(j)
  BY <1>1, <1>20, <1>21 DEF OtherOK
<1>23. k.rcv_nxt <= j.rcv_nxt
  BY <1>7, <1>10, <1>15
<1>24. Good(j, S) /\ Changes(k, j, {}, {})
  BY <1>2, <1>13, <1>16, <1>17, <1>19, <1>20, <1>22, <1>23 DEF Good, Changes
<1>25. QED
  BY <1>4, <1>16, <1>19, <1>24 DEF j, n

\* An instance of the programs, when it is new.
LEMMA InstanceIs ==
  ASSUME KcpEchoAssumption, NEW S, NEW resend \in Nat
  PROVE  LET k == Instance(resend)
         IN /\ Good(k, S) /\ k.fastresend = resend /\ k.snd_nxt = 0
            /\ Gone(k) = {} /\ Held(k) = {} /\ Given(k) = 0 /\ Passed(k) = 0
<1> DEFINE sndwnd == IF SndWnd > 0 THEN SndWnd ELSE IKCP_WND_SND
           rcvwnd == IF RcvWnd > 0 THEN Largest(RcvWnd, IKCP_WND_RCV) ELSE IKCP_WND_RCV
           small == MTU < 50 \/ MTU < IKCP_OVERHEAD
           mtu == IF small THEN IKCP_MTU_DEF ELSE MTU
           k == Instance(resend)
<1>1. /\ IKCP_WND_RCV \in Nat /\ IKCP_WND_SND \in Nat /\ IKCP_THRESH_INIT \in Nat /\ IKCP_OVERHEAD \in 1..49
      /\ IKCP_MTU_DEF \in Nat /\ IKCP_MTU_DEF > IKCP_OVERHEAD /\ MTU \in Nat /\ SndWnd \in Nat /\ RcvWnd \in Nat
  BY IkcpAssumption DEF KcpEchoAssumption
<1>2. sndwnd \in Nat /\ rcvwnd \in Nat /\ mtu \in Nat /\ mtu - IKCP_OVERHEAD \in Nat \ {0}
  BY <1>1 DEF Largest
<1>3. ASSUME NEW x
      PROVE  /\ Shape(Instance(x)) /\ Same(ikcp_create, Instance(x), Names \ {"fastresend", "nocwnd", "snd_wnd", "rcv_wnd", "mtu", "mss"})
             /\ Instance(x).fastresend = x /\ Instance(x).nocwnd = FALSE
             /\ Instance(x).snd_wnd = sndwnd /\ Instance(x).rcv_wnd = rcvwnd
             /\ Instance(x).mtu = mtu /\ Instance(x).mss = mtu - IKCP_OVERHEAD
  <2> DEFINE c == ikcp_create
             n == ikcp_nodelay(c, x, FALSE)
             w == ikcp_wndsize(n, SndWnd, RcvWnd)
             i == ikcp_setmtu(w, MTU)
  <2>1. /\ Shape(c) /\ c.snd_wnd = IKCP_WND_SND /\ c.rcv_wnd = IKCP_WND_RCV
        /\ c.mtu = IKCP_MTU_DEF /\ c.mss = IKCP_MTU_DEF - IKCP_OVERHEAD
    BY DEF ikcp_create, Shape, Names
  <2> HIDE DEF c
  <2>2. Shape(n) /\ n.fastresend = x /\ n.nocwnd = FALSE /\ Same(c, n, Names \ {"fastresend", "nocwnd"})
    BY <2>1 DEF ikcp_nodelay, Shape, Same, Names
  <2> HIDE DEF n
  <2>3. n.snd_wnd = IKCP_WND_SND /\ n.rcv_wnd = IKCP_WND_RCV
    BY <2>1, <2>2 DEF Same, Names
  <2>4. w = [n EXCEPT !.snd_wnd = sndwnd, !.rcv_wnd = rcvwnd]
    BY <2>3 DEF ikcp_wndsize
  <2> HIDE DEF w, sndwnd, rcvwnd
  <2>5. Shape(w) /\ w.snd_wnd = sndwnd /\ w.rcv_wnd = rcvwnd /\ Same(n, w, Names \ {"snd_wnd", "rcv_wnd"})
    BY <2>2, <2>4 DEF Shape, Same, Names
  <2>6. w.mtu = IKCP_MTU_DEF /\ w.mss = IKCP_MTU_DEF - IKCP_OVERHEAD
    BY <2>1, <2>2, <2>5 DEF Same, Names
  <2>7. Shape(i) /\ i.mtu = mtu /\ i.mss = mtu - IKCP_OVERHEAD /\ Same(w, i, Names \ {"mtu", "mss"})
    <3>1. CASE small
      <4>1. i = w
        BY <3>1 DEF ikcp_setmtu
      <4>2. QED
        BY <2>5, <2>6, <3>1, <4>1 DEF Same
    <3>2. CASE ~ small
      <4>1. i = [w EXCEPT !.mtu = MTU, !.mss = MTU - IKCP_OVERHEAD] /\ mtu = MTU
        BY <3>2 DEF ikcp_setmtu
      <4> HIDE DEF i
      <4>2. Shape(i) /\ i.mtu = MTU /\ i.mss = MTU - IKCP_OVERHEAD /\ Same(w, i, Names \ {"mtu", "mss"})
        BY <2>5, <4>1 DEF Shape, Same, Names
      <4>3. QED
        BY <4>1, <4>2
    <3>3. QED
      BY <3>1, <3>2
  <2>8. Instance(x) = i
    BY DEF Instance, i, w, n, c
  <2> HIDE DEF i, mtu
  <2>9. Same(c, i, Names \ {"fastresend", "nocwnd", "snd_wnd", "rcv_wnd", "mtu", "mss"})
    BY <2>2, <2>5, <2>7 DEF Same
  <2>10. i.fastresend = x /\ i.nocwnd = FALSE
    BY <2>2, <2>5, <2>7 DEF Same, Names
  <2>11. i.snd_wnd = sndwnd /\ i.rcv_wnd = rcvwnd
    BY <2>5, <2>7 DEF Same, Names
  <2>12. QED
    BY <2>7, <2>8, <2>9, <2>10, <2>11 DEF c
<1> HIDE DEF sndwnd, rcvwnd, mtu
<1> DEFINE c == ikcp_create
<1>4. /\ Shape(k) /\ k.snd_una = 0 /\ k.snd_nxt = 0 /\ k.rcv_nxt = 0
      /\ k.snd_wnd = sndwnd /\ k.rcv_wnd = rcvwnd
      /\ k.snd_queue = <<>> /\ k.rcv_queue = <<>> /\ k.snd_buf = <<>> /\ k.rcv_buf = <<>> /\ k.acklist = <<>>
  <2>1. /\ c.snd_una = 0 /\ c.snd_nxt = 0 /\ c.rcv_nxt = 0 /\ c.snd_queue = <<>> /\ c.rcv_queue = <<>>
        /\ c.snd_buf = <<>> /\ c.rcv_buf = <<>> /\ c.acklist = <<>>
    BY DEF ikcp_create
  <2> HIDE DEF k, c
  <2>2. /\ k.snd_una = c.snd_una /\ k.snd_nxt = c.snd_nxt /\ k.rcv_nxt = c.rcv_nxt /\ k.snd_queue = c.snd_queue
        /\ k.rcv_queue = c.rcv_queue /\ k.snd_buf = c.snd_buf /\ k.rcv_buf = c.rcv_buf /\ k.acklist = c.acklist
    <3>1. Same(c, k, Names \ {"fastresend", "nocwnd", "snd_wnd", "rcv_wnd", "mtu", "mss"})
      BY <1>3 DEF k, c
    <3>2. QED
      BY <3>1 DEF Same, Names
  <2>3. QED
    BY <1>3, <2>1, <2>2 DEF k
<1>5. /\ k.rmt_wnd = IKCP_WND_RCV /\ k.cwnd = 0 /\ k.incr = 0 /\ k.ssthresh = IKCP_THRESH_INIT
      /\ k.mtu = mtu /\ k.mss = mtu - IKCP_OVERHEAD /\ Instance(0).mss = mtu - IKCP_OVERHEAD
      /\ k.fastresend = resend /\ k.probe = {} /\ k.nocwnd = FALSE /\ k.probing = FALSE /\ k.updated = FALSE
  <2>1. /\ c.rmt_wnd = IKCP_WND_RCV /\ c.cwnd = 0 /\ c.incr = 0 /\ c.ssthresh = IKCP_THRESH_INIT
        /\ c.probe = {} /\ c.probing = FALSE /\ c.updated = FALSE
    BY DEF ikcp_create
  <2> HIDE DEF k, c
  <2>2. /\ k.rmt_wnd = c.rmt_wnd /\ k.cwnd = c.cwnd /\ k.incr = c.incr /\ k.ssthresh = c.ssthresh
        /\ k.probe = c.probe /\ k.probing = c.probing /\ k.updated = c.updated
    <3>1. Same(c, k, Names \ {"fastresend", "nocwnd", "snd_wnd", "rcv_wnd", "mtu", "mss"})
      BY <1>3 DEF k, c
    <3>2. QED
      BY <3>1 DEF Same, Names
  <2>3. k.mtu = mtu /\ k.mss = mtu - IKCP_OVERHEAD /\ k.fastresend = resend /\ k.nocwnd = FALSE
    BY <1>3 DEF k
  <2>4. Instance(0).mss = mtu - IKCP_OVERHEAD
    BY <1>3
  <2>5. QED
    BY <2>1, <2>2, <2>3, <2>4
<1>6. k.nocwnd \in BOOLEAN /\ k.probing \in BOOLEAN /\ k.updated \in BOOLEAN
  BY <1>5, Zenon
<1> HIDE DEF k
<1>7. Numbers(k.snd_buf) = {} /\ Numbers(k.rcv_buf) = {}
  BY <1>4 DEF Numbers
<1>8. SendOK(k, S)
  BY <1>2, <1>4 DEF SendOK, QueueOK, Sorted
<1>9. Held(k) = {} /\ Gone(k) = {} /\ Given(k) = 0 /\ Passed(k) = 0
  <2>1. k.rcv_nxt - 1 = -1 /\ k.snd_nxt - 1 = -1 /\ 0..-1 = {}
    BY <1>4
  <2>2. Held(k) = {} /\ Gone(k) = {}
    BY <1>7, <2>1 DEF Held, Gone
  <2>3. Len(k.snd_queue) = 0 /\ Len(k.rcv_queue) = 0
    BY <1>4, EmptySeq
  <2>4. Given(k) = 0 /\ Passed(k) = 0
    <3>1. k.snd_nxt = 0 /\ k.rcv_nxt = 0
      BY <1>4
    <3>2. QED
      BY <2>3, <3>1 DEF Given, Passed
  <2>5. QED
    BY <2>2, <2>4
<1>10. RecvOK(k, S)
  BY <1>2, <1>4, <1>7 DEF RecvOK, Sorted
<1>11. OtherOK(k)
  BY <1>1, <1>2, <1>5, <1>6 DEF OtherOK
<1>12. QED
  BY <1>4, <1>5, <1>8, <1>9, <1>10, <1>11 DEF Good, k

\* A block is an instance.
LEMMA GoodIsSet == ASSUME NEW S, NEW k, Good(k, S) PROVE k # Unset
<1>1. "snd_una" \in DOMAIN k
  BY DEF Good, Shape, Names
<1>2. QED
  BY <1>1 DEF Unset

\* An end that can receive has a message waiting.
LEMMA CanRecvIs == ASSUME NEW k, NEW len, CanRecv(k, len) PROVE k.rcv_queue # <<>> /\ ikcp_peeksize(k) \in 0..len
BY DEF CanRecv, ikcp_peeksize

----------------------------------------------------------------------------
(* The two ends. *)

\* Two blocks, and what is on its way to each of them.
Linked(S, a, b, toA, toB) ==
  /\ Good(a, S) /\ Good(b, S)
  /\ toA \subseteq Seq(FineOf(S, b)) /\ toB \subseteq Seq(FineOf(S, a))
  /\ Gone(a) \subseteq Held(b) /\ Gone(b) \subseteq Held(a)
  /\ Held(a) \subseteq 0..(b.snd_nxt - 1) /\ Held(b) \subseteq 0..(a.snd_nxt - 1)

\* The two ends are alike.
LEMMA Turned ==
  ASSUME NEW S, NEW a, NEW b, NEW toA, NEW toB, Linked(S, a, b, toA, toB)
  PROVE  Linked(S, b, a, toB, toA)
BY DEF Linked

\* One end moves on: it lets go only what the other one has, and takes only
\* what the other one has sent.
LEMMA OneMoves ==
  ASSUME NEW S, NEW a, NEW b, NEW toA, NEW toB, Linked(S, a, b, toA, toB),
         NEW j, Good(j, S), Changes(a, j, Held(b), 0..(b.snd_nxt - 1)),
         NEW nowA, nowA \subseteq toA, NEW nowB, nowB \subseteq toB \cup Seq(FineOf(S, j))
  PROVE  Linked(S, j, b, nowA, nowB)
<1>1. a.rcv_nxt \in Nat /\ j.rcv_nxt \in Nat /\ a.snd_nxt \in Nat /\ j.snd_nxt \in Nat
  BY DEF Linked, Good, SendOK, RecvOK
<1>2. a.rcv_nxt <= j.rcv_nxt /\ a.snd_nxt <= j.snd_nxt /\ Held(a) \subseteq Held(j)
  BY DEF Changes
<1>3. FineOf(S, a) \subseteq FineOf(S, j)
  BY <1>1, <1>2, StaysFine
<1>4. toB \subseteq Seq(FineOf(S, j))
  <2> DEFINE A == FineOf(S, a)
             J == FineOf(S, j)
  <2>1. A \subseteq J /\ toB \subseteq Seq(A)
    BY <1>3 DEF Linked
  <2> HIDE DEF A, J
  <2>2. toB \subseteq Seq(J)
    BY <2>1, SeqMonotonic
  <2>3. QED
    BY <2>2 DEF J
<1>5. 0..(a.snd_nxt - 1) \subseteq 0..(j.snd_nxt - 1)
  BY <1>1, <1>2
<1> DEFINE old == 0..(a.snd_nxt - 1)
           new == 0..(j.snd_nxt - 1)
           other == 0..(b.snd_nxt - 1)
<1>6. /\ old \subseteq new /\ Held(b) \subseteq old /\ Held(a) \subseteq other /\ Held(j) \subseteq Held(a) \cup other
      /\ Gone(j) \subseteq Gone(a) \cup Held(b) /\ Gone(a) \subseteq Held(b) /\ Gone(b) \subseteq Held(a)
      /\ toA \subseteq Seq(FineOf(S, b))
  BY <1>5 DEF Linked, Changes
<1>7. Good(b, S)
  BY DEF Linked
<1> HIDE DEF old, new, other
<1>8. Held(b) \subseteq new /\ Held(j) \subseteq other /\ Gone(j) \subseteq Held(b) /\ Gone(b) \subseteq Held(j)
      /\ nowA \subseteq Seq(FineOf(S, b)) /\ nowB \subseteq Seq(FineOf(S, j))
  BY <1>2, <1>4, <1>6
<1>9. QED
  BY <1>7, <1>8 DEF Linked, new, other

\* What a datagram acknowledges the sender of it has, and what it brings the
\* sender of it has sent.
LEMMA Arriving ==
  ASSUME NEW S, NEW a, NEW b, NEW toA, NEW toB, Linked(S, a, b, toA, toB), NEW d \in toA
  PROVE  /\ d \in Seq(HeaderOf(S))
         /\ \A i \in 1..Len(d) : Acknowledged(d[i]) \subseteq Held(b) /\ Brought(d[i]) \subseteq 0..(b.snd_nxt - 1)
<1>1. d \in Seq(FineOf(S, b)) /\ b.rcv_nxt \in Nat /\ b.snd_nxt \in Nat
  BY DEF Linked, Good, SendOK, RecvOK
<1>2. FineOf(S, b) \subseteq HeaderOf(S)
  BY DEF FineOf
<1>3. d \in Seq(HeaderOf(S))
  BY <1>1, <1>2, SeqMonotonic
<1>4. ASSUME NEW i \in 1..Len(d)
      PROVE  Acknowledged(d[i]) \subseteq Held(b) /\ Brought(d[i]) \subseteq 0..(b.snd_nxt - 1)
  <2> DEFINE h == d[i]
  <2>1. h \in FineOf(S, b)
    BY <1>1, SequenceOf
  <2>2. h \in Header /\ Fine(h, b)
    BY <2>1 DEF FineOf, HeaderOf
  <2>3. h.sn \in Nat /\ h.una \in Nat
    BY <2>2 DEF Header
  <2> HIDE DEF h
  <2>4. 0..(h.una - 1) \subseteq 0..(b.rcv_nxt - 1)
    BY <1>1, <2>2, <2>3 DEF Fine
  <2>5. Acknowledged(h) \subseteq Held(b)
    BY <2>2, <2>4 DEF Acknowledged, Fine, Held
  <2>6. Brought(h) \subseteq 0..(b.snd_nxt - 1)
    BY <1>1, <2>2, <2>3 DEF Brought, Fine
  <2>7. QED
    BY <2>5, <2>6 DEF h
<1>5. QED
  BY <1>3, <1>4

\* The block of an end; the instance the server will create is there already.
Now(e) == IF Exists(e) THEN kcp[e] ELSE Instance(kcp.client.fastresend)

\* What the two programs keep, whatever segments S may be sent.
Base(S) ==
  /\ kcp = [e \in Ends |-> kcp[e]] /\ net = [e \in Ends |-> net[e]] /\ got = [e \in Ends |-> got[e]]
  /\ sent \in [Ends -> Nat] /\ sent["client"] <= Len(Sizes)
  /\ Exists("client")
  /\ Linked(S, Now("client"), Now("server"), net["client"], net["server"])

\* Each end is linked with its peer.
LEMMA LinkedEnds ==
  ASSUME NEW S, Base(S), NEW e \in Ends
  PROVE  Peer(e) \in Ends /\ Peer(Peer(e)) = e /\ Linked(S, Now(e), Now(Peer(e)), net[e], net[Peer(e)])
<1>1. CASE e = "client"
  BY <1>1 DEF Base, Ends, Peer
<1>2. CASE e = "server"
  <2>1. Peer(e) = "client" /\ Peer(Peer(e)) = e
    BY <1>2 DEF Peer
  <2>2. Linked(S, Now("server"), Now("client"), net["server"], net["client"])
    BY Turned DEF Base
  <2>3. QED
    BY <1>2, <2>1, <2>2 DEF Ends
<1>3. QED
  BY <1>1, <1>2 DEF Ends

\* What a pass hands to the network may get lost there, nothing else appears.
LEMMA OutputIs ==
  ASSUME NEW from, from = [x \in Ends |-> from[x]], NEW e \in Ends, NEW new, Output(from, e, new)
  PROVE  /\ net' = [x \in Ends |-> net'[x]]
         /\ net'[e] \subseteq from[e] \cup new /\ \A x \in Ends \ {e} : net'[x] = from[x]
<1> DEFINE all == from[e] \cup new
           Kept == IF Cardinality(new) <= MaxNet THEN {new \cup old : old \in SUBSET from[e]} ELSE SUBSET new
           Options == IF Cardinality(all) <= MaxNet THEN {all} ELSE {some \in Kept : Cardinality(some) = MaxNet}
<1>1. PICK on \in Options : net' = [from EXCEPT ![e] = on]
  BY Zenon DEF Output
<1>2. on \subseteq all
  <2>1. \A some \in Kept : some \subseteq all
    OBVIOUS
  <2> HIDE DEF Kept, all
  <2>2. QED
    BY <2>1
<1> HIDE DEF Options, all
<1>3. net' = [x \in Ends |-> IF x = e THEN on ELSE from[x]]
  BY <1>1
<1>4. QED
  BY <1>2, <1>3 DEF all

\* One end takes a step, and what is on the network after it is what was there
\* before or comes from that end.
LEMMA EndChanges ==
  ASSUME NEW S, Base(S), NEW e \in Ends, NEW j, Good(j, S),
         Changes(Now(e), j, Held(Now(Peer(e))), 0..(Now(Peer(e)).snd_nxt - 1)),
         kcp' = [kcp EXCEPT ![e] = j], net' = [x \in Ends |-> net'[x]],
         net'[e] \subseteq net[e], net'[Peer(e)] \subseteq net[Peer(e)] \cup Seq(FineOf(S, j)),
         sent' \in [Ends -> Nat], sent'["client"] <= Len(Sizes), got' = [x \in Ends |-> got'[x]]
  PROVE  Base(S)' /\ Now(e)' = j /\ Now(Peer(e))' = Now(Peer(e))
<1> DEFINE p == Peer(e)
           b == Now(p)
<1>1. /\ p \in Ends /\ Peer(p) = e /\ p # e /\ Ends = {e, p}
      /\ Linked(S, Now(e), b, net[e], net[p])
  BY LinkedEnds DEF Ends, Peer
<1>2. net' = [x \in Ends |-> net'[x]]
  OBVIOUS
<1>3. Linked(S, j, b, net'[e], net'[p])
  BY <1>1, OneMoves
<1>4. kcp' = [x \in Ends |-> kcp'[x]] /\ kcp'[e] = j /\ kcp'[p] = kcp[p]
  BY <1>1 DEF Base
<1>5. j # Unset /\ j.fastresend = Now(e).fastresend
  BY GoodIsSet DEF Changes
<1>6. Now(e)' = j
  BY <1>4, <1>5 DEF Now, Exists
<1>7. b' = b /\ Exists("client")'
  <2>1. CASE e = "client"
    <3>1. kcp'["client"] = j /\ Now(e) = kcp["client"]
      BY <1>4, <2>1 DEF Base, Now
    <3>2. QED
      BY <1>4, <1>5, <2>1, <3>1 DEF Now, Exists
  <2>2. CASE e = "server"
    <3>1. p = "client" /\ kcp'["client"] = kcp["client"] /\ kcp["client"] # Unset
      BY <1>4, <2>2 DEF Peer, Base, Exists
    <3>2. QED
      BY <3>1 DEF Now, Exists
  <2>3. QED
    BY <2>1, <2>2 DEF Ends
<1>8. Linked(S, Now("client")', Now("server")', net'["client"], net'["server"])
  <2>1. CASE e = "client"
    <3>1. p = "server"
      BY <2>1 DEF Peer
    <3>2. QED
      BY <1>3, <1>6, <1>7, <2>1, <3>1
  <2>2. CASE e = "server"
    <3>1. p = "client"
      BY <2>2 DEF Peer
    <3>2. Linked(S, b, j, net'[p], net'[e])
      BY <1>3, Turned
    <3>3. QED
      BY <1>6, <1>7, <2>2, <3>1, <3>2
  <2>3. QED
    BY <2>1, <2>2 DEF Ends
<1>9. Base(S)'
  BY <1>2, <1>4, <1>7, <1>8 DEF Base
<1>10. QED
  BY <1>6, <1>7, <1>9

\* One end takes a step.
LEMMA EndMoves ==
  ASSUME NEW S, Base(S), NEW e \in Ends, NEW j, Good(j, S),
         Changes(Now(e), j, Held(Now(Peer(e))), 0..(Now(Peer(e)).snd_nxt - 1)),
         kcp' = [kcp EXCEPT ![e] = j],
         NEW from, from = [x \in Ends |-> from[x]], from[e] \subseteq net[e], from[Peer(e)] = net[Peer(e)],
         NEW out \in SUBSET Seq(FineOf(S, j)), Output(from, Peer(e), out),
         sent' \in [Ends -> Nat], sent'["client"] <= Len(Sizes), got' = [x \in Ends |-> got'[x]]
  PROVE  Base(S)' /\ Now(e)' = j /\ Now(Peer(e))' = Now(Peer(e))
<1>1. Peer(e) \in Ends /\ Peer(Peer(e)) = e /\ Peer(e) # e
  BY LinkedEnds DEF Ends, Peer
<1>2. /\ net' = [x \in Ends |-> net'[x]] /\ net'[e] = from[e]
      /\ net'[Peer(e)] \subseteq from[Peer(e)] \cup out
  BY <1>1, OutputIs
<1>3. net'[e] \subseteq net[e] /\ net'[Peer(e)] \subseteq net[Peer(e)] \cup Seq(FineOf(S, j))
  BY <1>2
<1>4. QED
  BY <1>2, <1>3, EndChanges

\* One end takes a step and sends nothing.
LEMMA EndMovesQuietly ==
  ASSUME NEW S, Base(S), NEW e \in Ends, NEW j, Good(j, S),
         Changes(Now(e), j, Held(Now(Peer(e))), 0..(Now(Peer(e)).snd_nxt - 1)),
         kcp' = [kcp EXCEPT ![e] = j], net' = net,
         sent' \in [Ends -> Nat], sent'["client"] <= Len(Sizes), got' = [x \in Ends |-> got'[x]]
  PROVE  Base(S)' /\ Now(e)' = j /\ Now(Peer(e))' = Now(Peer(e))
<1>1. net = [x \in Ends |-> net[x]]
  BY DEF Base
<1>2. QED
  BY <1>1, EndChanges

\* Two changes of an end, one after the other.
LEMMA MovesOn ==
  ASSUME NEW S, NEW k, NEW j, NEW l, NEW G, NEW P, Good(k, S), Good(j, S), Good(l, S),
         Changes(k, j, G, P), Changes(j, l, {}, {})
  PROVE  Changes(k, l, G, P)
<1>1. /\ k.rcv_nxt \in Nat /\ j.rcv_nxt \in Nat /\ l.rcv_nxt \in Nat
      /\ k.snd_nxt \in Nat /\ j.snd_nxt \in Nat /\ l.snd_nxt \in Nat
  BY DEF Good, SendOK, RecvOK
<1>2. QED
  BY <1>1, ChangesAfter

\* No change is a change of an end.
LEMMA StaysAsIs == ASSUME NEW S, NEW k, Good(k, S) PROVE Changes(k, k, {}, {})
<1>1. k.rcv_nxt \in Nat /\ k.snd_nxt \in Nat
  BY DEF Good, SendOK, RecvOK
<1>2. QED
  BY <1>1 DEF Changes

\* The programs start with new instances.
LEMMA Starting ==
  ASSUME KcpEchoAssumption, NEW S, Init
  PROVE  Base(S) /\ \A e \in Ends : Given(Now(e)) = 0 /\ Passed(Now(e)) = 0 /\ got[e] = <<>> /\ sent[e] = 0
<1>1. PICK resend \in FastResends : kcp = [client |-> Instance(resend), server |-> Unset]
  BY DEF Init
<1>2. resend \in Nat
  BY DEF KcpEchoAssumption
<1> DEFINE k == Instance(resend)
<1>3. /\ Good(k, S) /\ k.fastresend = resend /\ k.snd_nxt = 0
      /\ Gone(k) = {} /\ Held(k) = {} /\ Given(k) = 0 /\ Passed(k) = 0
  BY <1>2, InstanceIs
<1>4. kcp["client"] = k /\ kcp["server"] = Unset /\ kcp = [e \in Ends |-> kcp[e]]
  BY <1>1 DEF Ends
<1> HIDE DEF k
<1>5. k # Unset
  BY <1>3, GoodIsSet
<1>6. Now("client") = k /\ Exists("client") /\ Now("server") = k
  <2>1. Instance(k.fastresend) = k
    BY <1>3 DEF k
  <2>2. QED
    BY <1>4, <1>5, <2>1 DEF Now, Exists
<1>7. net = [e \in Ends |-> {}] /\ sent = [e \in Ends |-> 0] /\ got = [e \in Ends |-> <<>>]
  BY DEF Init
<1>8. Linked(S, k, k, {}, {})
  BY <1>3 DEF Linked
<1>9. net["client"] = {} /\ net["server"] = {} /\ sent["client"] = 0
  BY <1>7 DEF Ends
<1>10. Sizes \in Seq(Nat) /\ 0 <= Len(Sizes)
  BY SequenceOf DEF KcpEchoAssumption
<1>11. Base(S)
  BY <1>4, <1>6, <1>7, <1>8, <1>9, <1>10 DEF Base
<1>12. QED
  BY <1>3, <1>6, <1>7, <1>11 DEF Ends

\* What an end hands to its application, when it does.
Receives(S, e) ==
  \/ got'[e] = got[e] /\ Passed(Now(e)') = Passed(Now(e))
  \/ \E k : /\ Good(k, S) /\ CanRecv(k, BufSize) /\ Passed(k) = Passed(Now(e))
            /\ got'[e] = Append(got[e], Merged(k))
            /\ Passed(Now(e)') = Passed(k) + Len(Received(k))

\* The client sends the next message, or only flushes and updates (ClientSend).
LEMMA ClientSends ==
  ASSUME KcpEchoAssumption, NEW S \in SUBSET DataSegment, Base(S), ClientSend,
         ClientHasMore => Fitting(S, kcp.client, sent.client + 1, Sizes[sent.client + 1])
  PROVE  /\ Base(S)' /\ Now("server")' = Now("server") /\ got' = got
         /\ Passed(Now("client")') = Passed(Now("client"))
         /\ IF ClientHasMore
            THEN /\ sent' = [sent EXCEPT !["client"] = sent["client"] + 1]
                 /\ Given(Now("client")') = Given(Now("client"))
                                            + Len(Fragments(kcp.client, sent.client + 1, Sizes[sent.client + 1]))
            ELSE sent' = sent /\ Given(Now("client")') = Given(Now("client"))
<1> DEFINE k == kcp.client
           m == sent.client + 1
           more == IF ClientHasMore THEN Len(Fragments(k, m, Sizes[m])) ELSE 0
           b == ClientBlock
<1>1. /\ k = Now("client") /\ "client" \in Ends /\ Peer("client") = "server" /\ "server" \in Ends
      /\ net = [x \in Ends |-> net[x]] /\ got = [x \in Ends |-> got[x]]
      /\ sent \in [Ends -> Nat] /\ sent["client"] <= Len(Sizes) /\ Len(Sizes) \in Nat
  BY SequenceOf DEF Base, Now, Ends, Peer, KcpEchoAssumption
<1>2. Good(k, S)
  BY <1>1 DEF Base, Linked
<1>3. /\ Good(b, S) /\ Changes(k, b, {}, {})
      /\ Given(b) = Given(k) + more /\ Passed(b) = Passed(k)
  <2>1. CASE ClientHasMore
    <3>1. m \in Nat /\ m \in 1..Len(Sizes)
      <4>1. sent.client \in Nat /\ sent.client < Len(Sizes) /\ Len(Sizes) \in Nat
        BY <1>1, <2>1 DEF ClientHasMore
      <4>2. QED
        BY <4>1
    <3>2. Sizes[m] \in Nat
      BY <3>1, SequenceOf DEF KcpEchoAssumption
    <3>3. b = ikcp_send(k, m, Sizes[m]) /\ more = Len(Fragments(k, m, Sizes[m]))
      BY <2>1 DEF ClientBlock
    <3>4. QED
      BY <1>2, <2>1, <3>1, <3>2, <3>3, SendIs
  <2>2. CASE ~ ClientHasMore
    <3>1. b = k /\ more = 0 /\ Given(k) \in Int
      <4>1. k.snd_nxt \in Nat /\ Len(k.snd_queue) \in Nat
        BY <1>2, SequenceOf DEF Good, SendOK, QueueOK
      <4>2. QED
        BY <2>2, <4>1 DEF ClientBlock, Given
    <3>2. QED
      BY <1>2, <3>1, StaysAsIs
  <2>3. QED
    BY <2>1, <2>2
<1>4. PICK r \in Passes(b) : ClientPass(r)
  BY DEF ClientSend
<1>5. Good(r.k, S) /\ Changes(b, r.k, {}, {}) /\ Inside(b, r.k) /\ r.out \subseteq Seq(FineOf(S, r.k))
  BY <1>3, PassIs
<1>6. Changes(k, r.k, {}, {})
  BY <1>2, <1>3, <1>5, MovesOn
<1> HIDE DEF b, more
<1>7. Changes(k, r.k, Held(Now("server")), 0..(Now("server").snd_nxt - 1))
  BY <1>6 DEF Changes
<1>8. /\ kcp' = [kcp EXCEPT !["client"] = r.k] /\ Output(net, "server", r.out) /\ got' = got
      /\ sent' = IF ClientHasMore THEN [sent EXCEPT !["client"] = sent["client"] + 1] ELSE sent
  BY <1>1, <1>4 DEF ClientPass
<1>9. sent' \in [Ends -> Nat] /\ sent'["client"] <= Len(Sizes)
  <2>1. CASE ClientHasMore
    <3>1. sent["client"] < Len(Sizes) /\ sent["client"] \in Nat
      BY <1>1, <2>1 DEF ClientHasMore
    <3>2. sent' = [sent EXCEPT !["client"] = sent["client"] + 1]
      BY <1>8, <2>1
    <3>3. QED
      <4>1. sent["client"] + 1 \in Nat /\ sent["client"] + 1 <= Len(Sizes)
        <5> DEFINE x == sent["client"]
                   N == Len(Sizes)
        <5>1. x \in Nat /\ N \in Nat /\ x < N
          BY <1>1, <3>1
        <5> HIDE DEF x, N
        <5>2. x + 1 \in Nat /\ x + 1 <= N
          BY <5>1
        <5>3. QED
          BY <5>2 DEF x, N
      <4>2. sent'["client"] = sent["client"] + 1
        BY <1>1, <3>2
      <4>3. sent' \in [Ends -> Nat]
        BY <1>1, <3>2, <4>1
      <4>4. QED
        BY <4>1, <4>2, <4>3
  <2>2. CASE ~ ClientHasMore
    BY <1>1, <1>8, <2>2
  <2>3. QED
    BY <2>1, <2>2
<1>10. Base(S)' /\ Now("client")' = r.k /\ Now("server")' = Now("server")
  <2> DEFINE e == "client"
  <2>1. Changes(Now(e), r.k, Held(Now(Peer(e))), 0..(Now(Peer(e)).snd_nxt - 1))
    BY <1>1, <1>7
  <2>2. e \in Ends /\ Peer(e) = "server" /\ kcp' = [kcp EXCEPT ![e] = r.k] /\ Output(net, Peer(e), r.out)
    BY <1>1, <1>8
  <2>3. got' = [x \in Ends |-> got'[x]]
    BY <1>1, <1>8
  <2> HIDE DEF e
  <2>4. Base(S)' /\ Now(e)' = r.k /\ Now(Peer(e))' = Now(Peer(e))
    BY <1>1, <1>5, <1>9, <2>1, <2>2, <2>3, EndMoves
  <2>5. QED
    BY <2>2, <2>4 DEF e
<1>11. Given(r.k) = Given(k) + more /\ Passed(r.k) = Passed(k)
  BY <1>3, <1>5 DEF Inside
<1>12. Given(k) + 0 = Given(k)
  <2>1. k.snd_nxt \in Nat /\ Len(k.snd_queue) \in Nat
    BY <1>2, SequenceOf DEF Good, SendOK, QueueOK
  <2>2. QED
    BY <2>1 DEF Given
<1>13. QED
  BY <1>1, <1>8, <1>10, <1>11, <1>12 DEF more

\* Losing datagrams, and standing still.
LEMMA NothingMoves ==
  ASSUME NEW S, Base(S), UNCHANGED <<kcp, sent, got>>, net' = [x \in Ends |-> net'[x]],
         \A x \in Ends : net'[x] \subseteq net[x]
  PROVE  Base(S)' /\ \A x \in Ends : Now(x)' = Now(x)
<1>1. \A x \in Ends : Now(x)' = Now(x)
  BY DEF Now, Exists
<1>2. Now("client")' = Now("client") /\ Now("server")' = Now("server") /\ Exists("client")'
  BY DEF Base, Now, Exists
<1>3. net'["client"] \subseteq net["client"] /\ net'["server"] \subseteq net["server"]
  BY DEF Ends
<1>4. Linked(S, Now("client")', Now("server")', net'["client"], net'["server"])
  BY <1>2, <1>3 DEF Base, Linked
<1>5. Base(S)'
  BY <1>2, <1>4 DEF Base
<1>6. QED
  BY <1>1, <1>5

\* The network loses a datagram (Lose).
LEMMA Losing ==
  ASSUME NEW S, Base(S), NEW e \in Ends, NEW d, Lose(e, d)
  PROVE  Base(S)' /\ \A x \in Ends : Now(x)' = Now(x)
<1>1. net = [x \in Ends |-> net[x]]
  BY DEF Base
<1>2. net' = [net EXCEPT ![e] = net[e] \ {d}] /\ UNCHANGED <<kcp, sent, got>>
  BY DEF Lose
<1>3. net' = [x \in Ends |-> net'[x]] /\ \A x \in Ends : net'[x] \subseteq net[x]
  BY <1>1, <1>2
<1>4. QED
  BY <1>2, <1>3, NothingMoves

\* What is left on the network after a datagram has arrived.
LEMMA ArrivesIs ==
  ASSUME NEW S, Base(S), NEW e \in Ends, NEW d, NEW from \in Arrives(e, d)
  PROVE  from = [x \in Ends |-> from[x]] /\ from[e] \subseteq net[e] /\ from[Peer(e)] = net[Peer(e)]
<1>1. net = [x \in Ends |-> net[x]] /\ Peer(e) \in Ends /\ Peer(e) # e
  BY DEF Base, Ends, Peer
<1>2. CASE from = net
  BY <1>1, <1>2
<1>3. CASE from = [net EXCEPT ![e] = net[e] \ {d}]
  BY <1>1, <1>3
<1>4. QED
  BY <1>2, <1>3 DEF Arrives

\* A datagram is read, and a flush and an update follow.
LEMMA InputPasses ==
  ASSUME NEW S \in SUBSET DataSegment, Base(S), NEW e \in Ends, NEW d \in net[e], NEW r \in Passes(ikcp_input(Now(e), d))
  PROVE  /\ Good(r.k, S) /\ Inside(Now(e), r.k) /\ r.out \subseteq Seq(FineOf(S, r.k))
         /\ Changes(Now(e), r.k, Held(Now(Peer(e))), 0..(Now(Peer(e)).snd_nxt - 1))
<1> DEFINE k == Now(e)
           b == Now(Peer(e))
           j == ikcp_input(k, d)
           G == Held(b)
           P == 0..(b.snd_nxt - 1)
<1>1. Linked(S, k, b, net[e], net[Peer(e)])
  BY LinkedEnds
<1> HIDE DEF k, b
<1>2. d \in Seq(HeaderOf(S)) /\ \A i \in 1..Len(d) : Acknowledged(d[i]) \subseteq G /\ Brought(d[i]) \subseteq P
  BY <1>1, Arriving
<1> HIDE DEF G, P
<1>3. Good(k, S)
  BY <1>1 DEF Linked
<1>4. Good(j, S) /\ Changes(k, j, G, P) /\ Inside(k, j)
  BY <1>2, <1>3, InputIs
<1>5. r \in Passes(j)
  BY DEF k
<1> HIDE DEF j
<1>6. Good(r.k, S) /\ Changes(j, r.k, {}, {}) /\ Inside(j, r.k) /\ r.out \subseteq Seq(FineOf(S, r.k))
  BY <1>4, <1>5, PassIs
<1>7. Changes(k, r.k, G, P)
  BY <1>3, <1>4, <1>6, MovesOn
<1>8. Inside(k, r.k)
  BY <1>4, <1>6 DEF Inside
<1>9. QED
  BY <1>6, <1>7, <1>8 DEF k, b, G, P

\* The server reads a datagram.
LEMMA ServerReads ==
  ASSUME NEW S \in SUBSET DataSegment, Base(S), NEW d \in net.server, ServerInput(d)
  PROVE  /\ Base(S)' /\ Now("client")' = Now("client") /\ UNCHANGED <<sent, got>>
         /\ Given(Now("server")') = Given(Now("server")) /\ Passed(Now("server")') = Passed(Now("server"))
<1> DEFINE e == "server"
<1>1. e \in Ends /\ Peer(e) = "client" /\ d \in net[e]
  BY DEF Ends, Peer
<1>2. PICK from \in Arrives("server", d), r \in Passes(ikcp_input(Now("server"), d)) :
        /\ Output(from, "client", r.out)
        /\ kcp' = [kcp EXCEPT !["server"] = r.k]
        /\ UNCHANGED <<sent, got>>
  BY DEF ServerInput, Now
<1>3. /\ sent' \in [Ends -> Nat] /\ sent'["client"] <= Len(Sizes) /\ got' = [x \in Ends |-> got'[x]]
  BY <1>2 DEF Base
<1>4. kcp' = [kcp EXCEPT ![e] = r.k] /\ Output(from, Peer(e), r.out) /\ from \in Arrives(e, d) /\ r \in Passes(ikcp_input(Now(e), d))
  BY <1>1, <1>2
<1> HIDE DEF e
<1>5. from = [x \in Ends |-> from[x]] /\ from[e] \subseteq net[e] /\ from[Peer(e)] = net[Peer(e)]
  BY <1>1, <1>4, ArrivesIs
<1>6. /\ Good(r.k, S) /\ Inside(Now(e), r.k) /\ r.out \subseteq Seq(FineOf(S, r.k))
      /\ Changes(Now(e), r.k, Held(Now(Peer(e))), 0..(Now(Peer(e)).snd_nxt - 1))
  BY <1>1, <1>4, InputPasses
<1>7. Base(S)' /\ Now(e)' = r.k /\ Now(Peer(e))' = Now(Peer(e))
  BY <1>1, <1>3, <1>4, <1>5, <1>6, EndMoves
<1>8. QED
  BY <1>1, <1>2, <1>6, <1>7 DEF Inside, e

\* The client reads a datagram, and receives at most one message.
LEMMA ClientReads ==
  ASSUME NEW S \in SUBSET DataSegment, Base(S), NEW d \in net.client, ClientInput(d)
  PROVE  /\ Base(S)' /\ Now("server")' = Now("server") /\ sent' = sent /\ got'["server"] = got["server"]
         /\ Given(Now("client")') = Given(Now("client")) /\ Receives(S, "client")
<1> DEFINE e == "client"
<1>1. e \in Ends /\ Peer(e) = "server" /\ d \in net[e] /\ Now(e) = kcp.client
  BY DEF Ends, Peer, Base, Now
<1>2. PICK from \in Arrives("client", d), r \in Passes(ikcp_input(kcp.client, d)) :
        /\ Output(from, "server", r.out)
        /\ IF CanRecv(r.k, BufSize)
           THEN /\ kcp' = [kcp EXCEPT !["client"] = ikcp_recv(r.k)]
                /\ got' = [got EXCEPT !["client"] = Append(got["client"], Merged(r.k))]
           ELSE kcp' = [kcp EXCEPT !["client"] = r.k] /\ UNCHANGED got
        /\ UNCHANGED sent
  BY DEF ClientInput
<1> DEFINE j == IF CanRecv(r.k, BufSize) THEN ikcp_recv(r.k) ELSE r.k
<1>3. /\ kcp' = [kcp EXCEPT ![e] = j] /\ Output(from, Peer(e), r.out) /\ from \in Arrives(e, d)
      /\ r \in Passes(ikcp_input(Now(e), d)) /\ sent' = sent
  BY <1>1, <1>2
<1>4. /\ sent' \in [Ends -> Nat] /\ sent'["client"] <= Len(Sizes) /\ got' = [x \in Ends |-> got'[x]]
      /\ got'["server"] = got["server"]
      /\ got'[e] = IF CanRecv(r.k, BufSize) THEN Append(got[e], Merged(r.k)) ELSE got[e]
  <2>1. got = [x \in Ends |-> got[x]] /\ sent \in [Ends -> Nat] /\ sent["client"] <= Len(Sizes)
    BY DEF Base
  <2>2. CASE CanRecv(r.k, BufSize)
    BY <1>2, <2>1, <2>2 DEF Ends
  <2>3. CASE ~ CanRecv(r.k, BufSize)
    BY <1>2, <2>1, <2>3 DEF Ends
  <2>4. QED
    BY <2>2, <2>3
<1> HIDE DEF e
<1>5. from = [x \in Ends |-> from[x]] /\ from[e] \subseteq net[e] /\ from[Peer(e)] = net[Peer(e)]
  BY <1>1, <1>3, ArrivesIs
<1>6. /\ Good(r.k, S) /\ Inside(Now(e), r.k) /\ r.out \subseteq Seq(FineOf(S, r.k))
      /\ Changes(Now(e), r.k, Held(Now(Peer(e))), 0..(Now(Peer(e)).snd_nxt - 1))
  BY <1>1, <1>3, InputPasses
<1>7. /\ Good(j, S) /\ Changes(r.k, j, {}, {}) /\ Given(j) = Given(r.k)
      /\ CanRecv(r.k, BufSize) => Passed(j) = Passed(r.k) + Len(Received(r.k))
      /\ ~ CanRecv(r.k, BufSize) => Passed(j) = Passed(r.k)
  <2>1. CASE CanRecv(r.k, BufSize)
    <3>1. r.k.rcv_queue # <<>>
      BY <2>1, CanRecvIs
    <3>2. j = ikcp_recv(r.k)
      BY <2>1
    <3>3. QED
      BY <1>6, <2>1, <3>1, <3>2, RecvIs
  <2>2. CASE ~ CanRecv(r.k, BufSize)
    <3>1. j = r.k
      BY <2>2
    <3>2. QED
      BY <1>6, <2>2, <3>1, StaysAsIs
  <2>3. QED
    BY <2>1, <2>2
<1>8. Changes(Now(e), j, Held(Now(Peer(e))), 0..(Now(Peer(e)).snd_nxt - 1))
  <2>1. Good(Now(e), S)
    BY <1>1, LinkedEnds DEF Linked
  <2>2. QED
    BY <1>6, <1>7, <2>1, MovesOn
<1>9. r.out \subseteq Seq(FineOf(S, j))
  <2>1. /\ r.k.rcv_nxt \in Nat /\ j.rcv_nxt \in Nat /\ r.k.snd_nxt \in Nat /\ j.snd_nxt \in Nat
        /\ r.k.rcv_nxt <= j.rcv_nxt /\ r.k.snd_nxt <= j.snd_nxt /\ Held(r.k) \subseteq Held(j)
    BY <1>6, <1>7 DEF Good, SendOK, RecvOK, Changes
  <2>2. FineOf(S, r.k) \subseteq FineOf(S, j)
    BY <2>1, StaysFine
  <2> HIDE DEF j
  <2>3. \A x \in Seq(FineOf(S, r.k)) : x \in Seq(FineOf(S, j))
    BY <2>2, SeqMonotonic
  <2>4. QED
    BY <1>6, <2>3
<1> HIDE DEF j
<1>10. Base(S)' /\ Now(e)' = j /\ Now(Peer(e))' = Now(Peer(e))
  BY <1>1, <1>3, <1>4, <1>5, <1>7, <1>8, <1>9, EndMoves
<1>11. Given(Now(e)') = Given(Now(e)) /\ Passed(r.k) = Passed(Now(e))
  BY <1>6, <1>7, <1>10 DEF Inside
<1>12. Receives(S, e)
  <2>1. CASE CanRecv(r.k, BufSize)
    <3>1. Passed(Now(e)') = Passed(r.k) + Len(Received(r.k)) /\ got'[e] = Append(got[e], Merged(r.k))
      BY <1>4, <1>7, <1>10, <2>1
    <3>2. QED
      BY <1>6, <1>11, <2>1, <3>1 DEF Receives
  <2>2. CASE ~ CanRecv(r.k, BufSize)
    <3>1. Passed(Now(e)') = Passed(Now(e)) /\ got'[e] = got[e]
      BY <1>4, <1>7, <1>10, <1>11, <2>2
    <3>2. QED
      BY <3>1 DEF Receives
  <2>3. QED
    BY <2>1, <2>2
<1>13. QED
  BY <1>1, <1>3, <1>4, <1>10, <1>11, <1>12 DEF e

\* The server receives a message and sends it back.
LEMMA ServerEchoes ==
  ASSUME KcpEchoAssumption, NEW S \in SUBSET DataSegment, Base(S), ServerEcho,
         Taken(ikcp_recv(kcp.server), sent.server + 1, ikcp_peeksize(kcp.server)),
         Fitting(S, ikcp_recv(kcp.server), sent.server + 1, ikcp_peeksize(kcp.server))
  PROVE  /\ Base(S)' /\ Now("client")' = Now("client")
         /\ Good(kcp.server, S) /\ CanRecv(kcp.server, BufSize) /\ Now("server") = kcp.server
         /\ sent' = [sent EXCEPT !["server"] = sent["server"] + 1]
         /\ got'["client"] = got["client"] /\ got'["server"] = Append(got["server"], Merged(kcp.server))
         /\ Passed(Now("server")') = Passed(kcp.server) + Len(Received(kcp.server))
         /\ Given(Now("server")') = Given(kcp.server)
              + Len(Fragments(ikcp_recv(kcp.server), sent.server + 1, ikcp_peeksize(kcp.server)))
<1> DEFINE e == "server"
           k == kcp.server
           j == ikcp_recv(k)
           m == sent.server + 1
           len == ikcp_peeksize(k)
           b == ikcp_send(j, m, len)
           F == Fragments(j, m, len)
<1>1. /\ e \in Ends /\ Peer(e) = "client" /\ Now(e) = k /\ CanRecv(k, BufSize) /\ BufSize \in Nat
      /\ net = [x \in Ends |-> net[x]] /\ sent \in [Ends -> Nat] /\ sent["client"] <= Len(Sizes)
      /\ got = [x \in Ends |-> got[x]] /\ sent[e] \in Nat /\ m \in Nat
  <2>1. e \in Ends /\ Peer(e) = "client"
    BY DEF Ends, Peer
  <2>2. Now(e) = k /\ CanRecv(k, BufSize)
    BY DEF ServerEcho, Now
  <2>3. BufSize \in Nat
    BY DEF KcpEchoAssumption
  <2>4. /\ net = [x \in Ends |-> net[x]] /\ sent \in [Ends -> Nat] /\ sent["client"] <= Len(Sizes)
        /\ got = [x \in Ends |-> got[x]]
    BY DEF Base
  <2>5. sent[e] \in Nat
    BY <2>1, <2>4
  <2> HIDE DEF k
  <2>6. m \in Nat
    BY <2>5
  <2>7. QED
    BY <2>1, <2>2, <2>3, <2>4, <2>5, <2>6
<1>2. /\ sent' = [sent EXCEPT !["server"] = m]
      /\ got' = [got EXCEPT !["server"] = Append(got["server"], Merged(k))]
      /\ \E r \in Passes(b) : kcp' = [kcp EXCEPT !["server"] = r.k] /\ Output(net, "client", r.out)
  BY DEF ServerEcho
<1>0. PICK r \in Passes(b) : kcp' = [kcp EXCEPT !["server"] = r.k] /\ Output(net, "client", r.out)
  BY <1>2
<1>3. Good(k, S)
  BY <1>1, LinkedEnds DEF Linked
<1>4. k.rcv_queue # <<>> /\ len \in Nat
  <2>1. k.rcv_queue # <<>> /\ len \in 0..BufSize
    BY <1>1, CanRecvIs
  <2> HIDE DEF len
  <2>2. QED
    BY <1>1, <2>1
<1>5. Fitting(S, j, m, len)
  OBVIOUS
<1> HIDE DEF len, m
<1>6. Good(j, S) /\ Changes(k, j, {}, {}) /\ Given(j) = Given(k) /\ Passed(j) = Passed(k) + Len(Received(k))
  BY <1>3, <1>4, RecvIs
<1> HIDE DEF j
<1>7. Good(b, S) /\ Changes(j, b, {}, {}) /\ Given(b) = Given(j) + Len(F) /\ Passed(b) = Passed(j)
  <2>1. Good(j, S) /\ m \in Nat /\ len \in Nat /\ Fitting(S, j, m, len)
    BY <1>1, <1>4, <1>5, <1>6
  <2>2. QED
    BY <2>1, SendIs
<1>8. Good(r.k, S) /\ Changes(b, r.k, {}, {}) /\ Inside(b, r.k) /\ r.out \subseteq Seq(FineOf(S, r.k))
  BY <1>7, PassIs
<1> HIDE DEF b, F
<1>9. Changes(k, r.k, {}, {})
  BY <1>3, <1>6, <1>7, <1>8, MovesOn
<1>10. Changes(Now(e), r.k, Held(Now(Peer(e))), 0..(Now(Peer(e)).snd_nxt - 1))
  BY <1>1, <1>9 DEF Changes
<1>11. kcp' = [kcp EXCEPT ![e] = r.k] /\ Output(net, Peer(e), r.out)
  BY <1>0, <1>1
<1>12. /\ sent' \in [Ends -> Nat] /\ sent'["client"] <= Len(Sizes) /\ got' = [x \in Ends |-> got'[x]]
       /\ got'["client"] = got["client"] /\ got'["server"] = Append(got["server"], Merged(k))
  BY <1>1, <1>2 DEF Ends
<1> HIDE DEF e, k
<1>13. Base(S)' /\ Now(e)' = r.k /\ Now(Peer(e))' = Now(Peer(e))
  BY <1>1, <1>8, <1>10, <1>11, <1>12, EndMoves
<1>14. Given(r.k) = Given(k) + Len(F) /\ Passed(r.k) = Passed(k) + Len(Received(k))
  BY <1>6, <1>7, <1>8 DEF Inside
<1>15. QED
  BY <1>1, <1>2, <1>3, <1>12, <1>13, <1>14 DEF e, k, F, j, m, len

\* The server receives a message and ikcp_send does not take it: nothing more happens.
LEMMA ServerKeepsBack ==
  ASSUME KcpEchoAssumption, NEW S \in SUBSET DataSegment, Base(S), ServerEcho,
         ~ Taken(ikcp_recv(kcp.server), sent.server + 1, ikcp_peeksize(kcp.server))
  PROVE  Base(S)'
<1> DEFINE e == "server"
           k == kcp.server
           j == ikcp_recv(k)
<1>1. /\ e \in Ends /\ Peer(e) = "client" /\ Now(e) = k /\ CanRecv(k, BufSize)
      /\ kcp' = [kcp EXCEPT ![e] = j] /\ net' = net /\ sent' = sent
      /\ got' = [got EXCEPT ![e] = Append(got["server"], Merged(kcp.server))]
  BY DEF ServerEcho, Ends, Peer, Now
<1>2. Good(k, S) /\ k.rcv_queue # <<>>
  BY <1>1, LinkedEnds, CanRecvIs DEF Linked, KcpEchoAssumption
<1>3. Good(j, S) /\ Changes(k, j, {}, {})
  BY <1>2, RecvIs
<1> HIDE DEF j, k
<1>4. Changes(Now(e), j, Held(Now(Peer(e))), 0..(Now(Peer(e)).snd_nxt - 1))
  BY <1>1, <1>3 DEF Changes
<1>5. /\ net = [x \in Ends |-> net[x]] /\ sent' \in [Ends -> Nat] /\ sent'["client"] <= Len(Sizes)
      /\ got' = [x \in Ends |-> got'[x]]
  BY <1>1 DEF Base
<1> HIDE DEF e
<1>6. QED
  BY <1>1, <1>3, <1>4, <1>5, EndMovesQuietly

----------------------------------------------------------------------------
(* The windows, and what acknowledgements are for, whatever is sent. *)

\* Whatever is given to ikcp_send are data segments.
LEMMA AllFit ==
  ASSUME NEW S, NEW k, Good(k, S), NEW msg \in Nat, NEW len \in Nat
  PROVE  Fitting(DataSegment, k, msg, len)
<1> DEFINE F == Fragments(k, msg, len)
<1>1. k.mss \in Nat \ {0} /\ k.snd_nxt \in Nat /\ Len(k.snd_queue) \in Nat
  BY SequenceOf DEF Good, OtherOK, SendOK, QueueOK
<1>2. F \in Seq(Fragment) /\ Len(F) \in Nat /\ \A i \in 1..Len(F) : F[i] \in Fragment
  BY <1>1, FragmentsAre, SequenceOf
<1> HIDE DEF F
<1>3. ASSUME NEW i \in 1..Len(F) PROVE Piece(F[i], Given(k) + i - 1) \in DataSegment
  <2>1. F[i] \in Fragment /\ Given(k) + i - 1 \in Nat
    BY <1>1, <1>2 DEF Given
  <2>2. QED
    BY <2>1 DEF Piece, Fragment, DataSegment
<1>4. QED
  BY <1>3 DEF Fitting, F

\* Every step keeps Base.
LEMMA BaseStep ==
  ASSUME KcpEchoAssumption, Base(DataSegment), [Next]_vars
  PROVE  Base(DataSegment)'
<1>0. DataSegment \in SUBSET DataSegment
  OBVIOUS
<1>1. CASE ClientSend
  <2>1. ASSUME ClientHasMore PROVE Fitting(DataSegment, kcp.client, sent.client + 1, Sizes[sent.client + 1])
    <3>1. Good(kcp.client, DataSegment)
      BY DEF Base, Linked, Now
    <3>2. sent.client \in Nat
      BY DEF Base, Ends
    <3>3. sent.client + 1 \in 1..Len(Sizes) /\ Sizes \in Seq(Nat)
      BY <2>1, <3>2, SequenceOf DEF ClientHasMore, KcpEchoAssumption
    <3>4. Sizes[sent.client + 1] \in Nat /\ sent.client + 1 \in Nat
      BY <3>3, SequenceOf
    <3>5. QED
      BY <3>1, <3>4, AllFit
  <2>2. QED
    BY <1>0, <1>1, <2>1, ClientSends
<1>2. ASSUME NEW d \in net.client, ClientInput(d) PROVE Base(DataSegment)'
  BY <1>0, <1>2, ClientReads
<1>3. ASSUME NEW d \in net.server, ServerInput(d) PROVE Base(DataSegment)'
  BY <1>0, <1>3, ServerReads
<1>4. CASE ServerEcho
  <2> DEFINE k == kcp.server
             len == ikcp_peeksize(k)
             m == sent.server + 1
  <2>1. k = Now("server") /\ CanRecv(k, BufSize) /\ BufSize \in Nat /\ sent["server"] \in Nat
    BY <1>4 DEF ServerEcho, Now, KcpEchoAssumption, Base, Ends
  <2> HIDE DEF k
  <2>2. Good(k, DataSegment)
    BY <2>1 DEF Base, Linked
  <2>3. k.rcv_queue # <<>> /\ len \in 0..BufSize
    BY <2>1, CanRecvIs
  <2> HIDE DEF len
  <2>4. len \in Nat /\ m \in Nat
    BY <2>1, <2>3
  <2>5. Good(ikcp_recv(k), DataSegment)
    BY <1>0, <2>2, <2>3, RecvIs
  <2>6. Fitting(DataSegment, ikcp_recv(k), m, len)
    BY <2>4, <2>5, AllFit
  <2>7. CASE Taken(ikcp_recv(kcp.server), sent.server + 1, ikcp_peeksize(kcp.server))
    BY <1>0, <1>4, <2>6, <2>7, ServerEchoes DEF k, len
  <2>8. CASE ~ Taken(ikcp_recv(kcp.server), sent.server + 1, ikcp_peeksize(kcp.server))
    BY <1>0, <1>4, <2>8, ServerKeepsBack
  <2>9. QED
    BY <2>7, <2>8
<1>5. ASSUME NEW e \in Ends, NEW d \in net[e], Lose(e, d) PROVE Base(DataSegment)'
  BY <1>5, Losing
<1>6. CASE UNCHANGED vars
  <2>1. UNCHANGED <<kcp, sent, got>> /\ net' = net
    BY <1>6 DEF vars
  <2>2. net' = [x \in Ends |-> net'[x]] /\ \A x \in Ends : net'[x] \subseteq net[x]
    BY <2>1 DEF Base
  <2>3. QED
    BY <2>1, <2>2, NothingMoves
<1>7. QED
  BY <1>1, <1>2, <1>3, <1>4, <1>5, <1>6 DEF Next

\* Both blocks stay good and linked: sequence numbers, buffers and windows of each
\* end are what ikcp.c means them to be, what left a send buffer the peer holds,
\* what the peer holds was sent, and what is on its way says no more than that.
THEOREM KcpInvariant == Spec => []Base(DataSegment)
<1>1. Init => Base(DataSegment)
  BY KcpEchoAssumption, Starting
<1>2. Base(DataSegment) /\ [Next]_vars => Base(DataSegment)'
  BY KcpEchoAssumption, BaseStep
<1>3. QED
  BY <1>1, <1>2, PTL DEF Spec

\* A segment leaves the send buffer only when the peer has it.
THEOREM KcpAcked == Spec => []AckedIsHeld
<1>1. Base(DataSegment) => AckedIsHeld
  <2>1. SUFFICES ASSUME Base(DataSegment), NEW e \in Ends, Exists(e)
                 PROVE  LET held == IF Exists(Peer(e))
                                    THEN 0..(kcp[Peer(e)].rcv_nxt - 1) \cup Numbers(kcp[Peer(e)].rcv_buf) ELSE {}
                        IN 0..(kcp[e].snd_nxt - 1) \subseteq Numbers(kcp[e].snd_buf) \cup held
    BY DEF AckedIsHeld
  <2> DEFINE k == kcp[e]
             p == Peer(e)
             held == IF Exists(p) THEN 0..(kcp[p].rcv_nxt - 1) \cup Numbers(kcp[p].rcv_buf) ELSE {}
  <2>2. k = Now(e) /\ Linked(DataSegment, Now(e), Now(p), net[e], net[p])
    BY <2>1, LinkedEnds DEF Now
  <2>3. Held(Now(p)) = held
    <3>1. CASE Exists(p)
      BY <3>1 DEF Now, Held
    <3>2. CASE ~ Exists(p)
      <4>1. Now(p) = Instance(kcp.client.fastresend)
        BY <3>2 DEF Now
      <4>2. kcp.client.fastresend \in Nat
        BY <2>1 DEF Base, Linked, Now, Good, OtherOK
      <4>3. Held(Now(p)) = {}
        BY <4>1, <4>2, KcpEchoAssumption, InstanceIs
      <4>4. QED
        BY <3>2, <4>3
    <3>3. QED
      BY <3>1, <3>2
  <2> HIDE DEF held, k
  <2>4. 0..(k.snd_nxt - 1) \ Numbers(k.snd_buf) \subseteq held
    BY <2>2, <2>3 DEF Linked, Gone
  <2>5. 0..(k.snd_nxt - 1) \subseteq Numbers(k.snd_buf) \cup held
    BY <2>4
  <2>6. QED
    BY <2>5 DEF held, k
<1>2. QED
  BY <1>1, KcpInvariant, PTL

\* Both ends stay inside their windows.
THEOREM KcpWindows == Spec => []WindowsKept
<1>1. Base(DataSegment) => WindowsKept
  <2>1. SUFFICES ASSUME Base(DataSegment), NEW e \in Ends, Exists(e), NEW k, k = kcp[e]
                 PROVE  /\ k.snd_nxt - k.snd_una <= k.snd_wnd
                        /\ Numbers(k.snd_buf) \subseteq k.snd_una..(k.snd_nxt - 1)
                        /\ k.snd_una = (IF k.snd_buf = <<>> THEN k.snd_nxt ELSE Head(k.snd_buf).sn)
                        /\ Len(k.rcv_queue) <= k.rcv_wnd
                        /\ Numbers(k.rcv_buf) \subseteq k.rcv_nxt..(k.rcv_nxt + k.rcv_wnd - 1)
                        /\ k.rcv_nxt \in Numbers(k.rcv_buf) => Len(k.rcv_queue) = k.rcv_wnd
    BY DEF WindowsKept, SendWindow, ReceiveWindow
  <2>2. Good(k, DataSegment)
    BY <2>1, LinkedEnds DEF Linked, Now
  <2>3. /\ k.snd_buf \in Seq(SendingOf(DataSegment)) /\ k.snd_una \in Nat /\ k.snd_nxt \in Nat
        /\ k.rcv_buf \in Seq(DataSegment) /\ k.rcv_nxt \in Nat /\ k.rcv_wnd \in Nat
    BY <2>2 DEF Good, SendOK, RecvOK
  <2>4. Numbers(k.snd_buf) \subseteq k.snd_una..(k.snd_nxt - 1)
    <3>1. /\ Numbers(k.snd_buf) = {k.snd_buf[i].sn : i \in 1..Len(k.snd_buf)} /\ Numbers(k.snd_buf) \in SUBSET Nat
      BY <2>3, NumbersOf, SendingNumbered
    <3>2. SUFFICES ASSUME NEW n \in Numbers(k.snd_buf) PROVE n \in k.snd_una..(k.snd_nxt - 1)
      OBVIOUS
    <3>3. PICK i \in 1..Len(k.snd_buf) : n = k.snd_buf[i].sn
      BY <3>1
    <3>4. k.snd_una <= n /\ n < k.snd_nxt /\ n \in Nat
      BY <2>2, <3>1, <3>3 DEF Good, SendOK
    <3>5. QED
      BY <2>3, <3>4
  <2>5. Numbers(k.rcv_buf) \subseteq k.rcv_nxt..(k.rcv_nxt + k.rcv_wnd - 1)
    <3>1. /\ Numbers(k.rcv_buf) = {k.rcv_buf[i].sn : i \in 1..Len(k.rcv_buf)} /\ Numbers(k.rcv_buf) \in SUBSET Nat
      BY <2>3, NumbersOf, DataNumbered
    <3>2. SUFFICES ASSUME NEW n \in Numbers(k.rcv_buf) PROVE n \in k.rcv_nxt..(k.rcv_nxt + k.rcv_wnd - 1)
      OBVIOUS
    <3>3. PICK i \in 1..Len(k.rcv_buf) : n = k.rcv_buf[i].sn
      BY <3>1
    <3>4. k.rcv_nxt <= n /\ n < k.rcv_nxt + k.rcv_wnd /\ n \in Nat
      BY <2>2, <3>1, <3>3 DEF Good, RecvOK
    <3>5. QED
      BY <2>3, <3>4
  <2>6. k.snd_una = (IF k.snd_buf = <<>> THEN k.snd_nxt ELSE Head(k.snd_buf).sn)
    <3>1. k.snd_una = IF k.snd_buf = <<>> THEN k.snd_nxt ELSE k.snd_buf[1].sn
      BY <2>2 DEF Good, SendOK
    <3>2. k.snd_buf # <<>> => Head(k.snd_buf) = k.snd_buf[1]
      BY <2>3
    <3>3. QED
      BY <3>1, <3>2
  <2>7. /\ k.snd_nxt - k.snd_una <= k.snd_wnd /\ Len(k.rcv_queue) <= k.rcv_wnd
        /\ k.rcv_nxt \in Numbers(k.rcv_buf) => Len(k.rcv_queue) = k.rcv_wnd
    BY <2>2 DEF Good, SendOK, RecvOK
  <2>8. QED
    BY <2>4, <2>5, <2>6, <2>7
<1>2. QED
  BY <1>1, KcpInvariant, PTL

----------------------------------------------------------------------------
(* The order of delivery. *)

\* The pieces of message m, whether the client or the server sends it; the
\* number of the piece that follows the first n messages; all pieces.
Pieces(m) == Fragments(Instance(0), m, Sizes[m])
Start[n \in 0..Len(Sizes)] == IF n = 0 THEN 0 ELSE Start[n - 1] + Len(Pieces(n))
Stream == {d \in DataSegment : \E m \in 1..Len(Sizes) : \E i \in 1..Len(Pieces(m)) :
                           d = Piece(Pieces(m)[i], Start[m - 1] + i - 1)}

\* No message has too many fragments: what ikcp_send turns down never arrives.
Deliverable == \A m \in 1..Len(Sizes) : Pieces(m) # <<>>

\* What the application receives of message m.
Whole(m) == [i \in 1..Len(Pieces(m)) |-> <<m, Len(Pieces(m)) - i>>]

\* The messages of the client have lengths.
LEMMA SizesAre ==
  ASSUME KcpEchoAssumption
  PROVE  Len(Sizes) \in Nat /\ \A m \in 1..Len(Sizes) : Sizes[m] \in Nat
BY SequenceOf DEF KcpEchoAssumption

\* The pieces of a message, in its order.
LEMMA PiecesAre ==
  ASSUME KcpEchoAssumption, NEW m \in 1..Len(Sizes)
  PROVE  /\ Pieces(m) \in Seq(Fragment) /\ Len(Pieces(m)) \in Nat
         /\ LET c == Len(Pieces(m))
                mss == Instance(0).mss
            IN \A i \in 1..c : /\ Pieces(m)[i].frg = c - i /\ Pieces(m)[i].msg = m
                               /\ Pieces(m)[i].len = IF i < c THEN mss ELSE Sizes[m] - (c - 1) * mss
<1> DEFINE k == Instance(0)
           len == Sizes[m]
           count == IF len <= k.mss THEN 1 ELSE (len + k.mss - 1) \div k.mss
           One(i) == [frg |-> count - i, msg |-> m,
                      len |-> IF i < count THEN k.mss ELSE len - (count - 1) * k.mss]
           all == [i \in 1..count |-> One(i)]
<1>1. len \in Nat /\ m \in Nat
  BY SizesAre
<1>2. k.mss \in Nat \ {0}
  BY InstanceIs DEF Good, OtherOK
<1> HIDE DEF k, len
<1>3. Fragments(k, m, len) \in Seq(Fragment) /\ Len(Fragments(k, m, len)) \in Nat
  BY <1>1, <1>2, FragmentsAre, SequenceOf
<1>4. count \in Nat
  <2>1. ASSUME NEW l \in Nat, NEW s \in Nat \ {0} PROVE (l + s - 1) \div s \in Nat
    OBVIOUS
  <2>2. QED
    BY <1>1, <1>2, <2>1
<1>5. Fragments(k, m, len) = IF count >= IKCP_WND_RCV THEN <<>> ELSE all
  BY DEF Fragments
<1> HIDE DEF count
<1>6. Pieces(m) = Fragments(k, m, len)
  BY DEF Pieces, k, len
<1>7. CASE count >= IKCP_WND_RCV
  <2>1. Len(Pieces(m)) = 0
    BY <1>5, <1>6, <1>7, EmptySeq
  <2>2. QED
    BY <1>3, <1>6, <2>1
<1>8. CASE ~ (count >= IKCP_WND_RCV)
  <2>1. Pieces(m) = all /\ Len(all) = count
    BY <1>4, <1>5, <1>6, <1>8
  <2>2. \A i \in 1..count : all[i] = One(i)
    OBVIOUS
  <2> HIDE DEF all
  <2>3. \A i \in 1..count : /\ Pieces(m)[i].frg = count - i /\ Pieces(m)[i].msg = m
                            /\ Pieces(m)[i].len = IF i < count THEN k.mss ELSE len - (count - 1) * k.mss
    BY <2>1, <2>2
  <2>4. QED
    BY <1>3, <1>6, <2>1, <2>3 DEF k, len
<1>9. QED
  BY <1>7, <1>8

\* Each message starts where the one before it ends.
LEMMA StartIs ==
  ASSUME KcpEchoAssumption
  PROVE  /\ Start[0] = 0 /\ \A n \in 0..Len(Sizes) : Start[n] \in Nat
         /\ \A n \in 1..Len(Sizes) : Start[n] = Start[n - 1] + Len(Pieces(n))
<1> DEFINE N == Len(Sizes)
           next == [n \in 1..N |-> [x \in Nat |-> x + Len(Pieces(n))]]
           Eq(f) == f = [n \in 0..N |-> IF n = 0 THEN 0 ELSE f[n - 1] + Len(Pieces(n))]
<1>1. N \in Nat /\ \A n \in 1..N : Len(Pieces(n)) \in Nat
  BY SizesAre, PiecesAre
<1>2. next \in Steps(N, Nat) /\ \A n \in 1..N, x \in Nat : next[n][x] = x + Len(Pieces(n))
  BY <1>1 DEF Steps
<1>3. \E f : IsRecursion(f, N, Nat, 0, next)
  <2> HIDE DEF next, N
  <2>1. QED
    BY <1>1, <1>2, RecursionUpTo
<1>4. PICK f : f \in [0..N -> Nat] /\ f[0] = 0 /\ \A n \in 1..N : f[n] = next[n][f[n - 1]]
  BY <1>3 DEF IsRecursion
<1>5. Eq(f)
  <2>1. \A n \in 0..N : f[n] = IF n = 0 THEN 0 ELSE f[n - 1] + Len(Pieces(n))
    <3>1. SUFFICES ASSUME NEW n \in 0..N, n # 0 PROVE f[n] = f[n - 1] + Len(Pieces(n))
      BY <1>4
    <3>2. n \in 1..N /\ n - 1 \in 0..N
      BY <1>1, <3>1
    <3> HIDE DEF next
    <3>3. QED
      BY <1>2, <1>4, <3>2
  <2>2. QED
    BY <1>4, <2>1
<1>6. Eq(Start)
  <2>1. Start = CHOOSE g : Eq(g)
    BY DEF Start
  <2> HIDE DEF Eq
  <2>2. QED
    BY <1>5, <2>1
<1>7. \A n \in 0..N : Start[n] = IF n = 0 THEN 0 ELSE Start[n - 1] + Len(Pieces(n))
  BY <1>6
<1>8. Start[0] = 0 /\ \A n \in 1..N : Start[n] = Start[n - 1] + Len(Pieces(n))
  BY <1>1, <1>7
<1> DEFINE Done == {n \in 0..N : Start[n] \in Nat}
<1>9. 0..N \subseteq Done
  <2>1. 0 \in Done
    BY <1>1, <1>8
  <2>2. \A n \in 1..N : n - 1 \in Done => n \in Done
    BY <1>1, <1>8
  <2> HIDE DEF Done
  <2>3. QED
    BY <1>1, <2>1, <2>2, InductionUpTo
<1>10. QED
  BY <1>8, <1>9

\* Later messages start later, unless those between have no fragment.
LEMMA StartGrows ==
  ASSUME KcpEchoAssumption, NEW n \in 0..Len(Sizes), NEW h \in 0..n
  PROVE  Start[h] <= Start[n] /\ (Deliverable /\ h < n => Start[h] < Start[n])
<1> DEFINE N == Len(Sizes)
           Grown(x) == \A y \in 0..x : Start[y] <= Start[x] /\ (Deliverable /\ y < x => Start[y] < Start[x])
           Done == {x \in 0..N : Grown(x)}
<1>1. /\ N \in Nat /\ Start[0] = 0 /\ \A x \in 0..N : Start[x] \in Nat
      /\ \A x \in 1..N : Start[x] = Start[x - 1] + Len(Pieces(x))
  BY SizesAre, StartIs
<1>2. ASSUME NEW x \in 1..N PROVE Len(Pieces(x)) \in Nat /\ (Deliverable => Len(Pieces(x)) # 0)
  BY PiecesAre, SequenceOf DEF Deliverable
<1>3. 0 \in Done
  BY <1>1
<1>4. ASSUME NEW x \in 1..N, x - 1 \in Done PROVE x \in Done
  <2>1. SUFFICES ASSUME NEW y \in 0..x PROVE Start[y] <= Start[x] /\ (Deliverable /\ y < x => Start[y] < Start[x])
    BY <1>1
  <2>2. /\ x - 1 \in 0..N /\ y \in 0..N /\ Start[x] \in Nat /\ Start[x - 1] \in Nat /\ Start[y] \in Nat
        /\ Start[x] = Start[x - 1] + Len(Pieces(x)) /\ Len(Pieces(x)) \in Nat
        /\ (Deliverable => Len(Pieces(x)) # 0)
    BY <1>1, <1>2
  <2>3. CASE y = x
    BY <2>2, <2>3
  <2>4. CASE y # x
    <3>1. y \in 0..(x - 1)
      BY <2>1, <2>4
    <3>2. Start[y] <= Start[x - 1]
      BY <1>4, <3>1
    <3>3. QED
      <4> DEFINE a == Start[y]
                 b == Start[x - 1]
                 l == Len(Pieces(x))
      <4>1. a \in Nat /\ b \in Nat /\ l \in Nat /\ Start[x] = b + l /\ a <= b /\ (Deliverable => l # 0)
        BY <2>2, <3>2
      <4> HIDE DEF a, b, l
      <4>2. a <= b + l /\ (Deliverable => a < b + l)
        BY <4>1
      <4>3. QED
        BY <4>1, <4>2 DEF a
  <2>5. QED
    BY <2>3, <2>4
<1> HIDE DEF Done
<1>5. n \in Done
  BY <1>1, <1>3, <1>4, InductionUpTo
<1>6. QED
  BY <1>5 DEF Done

\* The next number of an end is that of the first piece of a message.
LEMMA FirstWaiting ==
  ASSUME KcpEchoAssumption, Deliverable, NEW k, Good(k, Stream), NEW n \in 0..Len(Sizes),
         Passed(k) = Start[n], CanRecv(k, BufSize)
  PROVE  /\ n + 1 \in 1..Len(Sizes) /\ Len(Pieces(n + 1)) <= Len(k.rcv_queue)
         /\ \A i \in 1..Len(Pieces(n + 1)) :
              k.rcv_queue[i] = Piece(Pieces(n + 1)[i], Start[n] + i - 1)
<1> DEFINE N == Len(Sizes)
           q == k.rcv_queue
           m == n + 1
           c == Len(Pieces(m))
<1>1. /\ N \in Nat /\ \A x \in 0..N : Start[x] \in Nat
      /\ \A x \in 1..N : Start[x] = Start[x - 1] + Len(Pieces(x)) /\ Len(Pieces(x)) \in Nat
  BY SizesAre, StartIs, PiecesAre
<1>2. /\ q \in Seq(Stream) /\ Len(q) \in Nat /\ DOMAIN q = 1..Len(q) /\ q # <<>> /\ Len(q) # 0
      /\ \A i \in 1..Len(q) : q[i] \in Stream /\ q[i].sn = Start[n] + i - 1
  <2>1. q \in Seq(Stream) /\ \A i \in 1..Len(q) : q[i].sn = Start[n] + i - 1
    BY DEF Good, RecvOK
  <2>2. q # <<>>
    BY CanRecvIs
  <2>3. QED
    BY <2>1, <2>2, SequenceOf
<1> HIDE DEF q
<1>3. ASSUME NEW i \in 1..Len(q)
      PROVE  \E h \in 1..N : /\ Start[h - 1] <= Start[n] + i - 1 /\ Start[n] + i - 1 < Start[h]
                             /\ \E a \in 1..Len(Pieces(h)) :
                                  q[i] = Piece(Pieces(h)[a], Start[h - 1] + a - 1) /\ Start[h - 1] + a - 1 = Start[n] + i - 1
  <2>1. q[i] \in Stream /\ q[i].sn = Start[n] + i - 1
    BY <1>2
  <2>2. PICK h \in 1..N : \E a \in 1..Len(Pieces(h)) : q[i] = Piece(Pieces(h)[a], Start[h - 1] + a - 1)
    BY <2>1 DEF Stream
  <2>3. PICK a \in 1..Len(Pieces(h)) : q[i] = Piece(Pieces(h)[a], Start[h - 1] + a - 1)
    BY <2>2
  <2>4. q[i].sn = Start[h - 1] + a - 1
    BY <2>3 DEF Piece
  <2>5. /\ h - 1 \in 0..N /\ Start[h - 1] \in Nat /\ Start[h] = Start[h - 1] + Len(Pieces(h)) /\ Len(Pieces(h)) \in Nat
    BY <1>1
  <2>6. Start[h - 1] <= Start[n] + i - 1 /\ Start[n] + i - 1 < Start[h]
    <3> DEFINE b == Start[h - 1]
               l == Len(Pieces(h))
               x == Start[n] + i - 1
    <3>1. b \in Nat /\ l \in Nat /\ Start[h] = b + l /\ a \in 1..l /\ x = b + a - 1
      BY <2>1, <2>4, <2>5
    <3> HIDE DEF b, l, x
    <3>2. b <= x /\ x < b + l
      BY <3>1
    <3>3. QED
      BY <3>1, <3>2 DEF b, x
  <2>7. QED
    BY <2>1, <2>3, <2>4, <2>6
<1>4. ASSUME NEW h \in 1..N, NEW x \in Nat, Start[h - 1] <= x, x < Start[h], Start[n] <= x, m \in 1..N => x < Start[m]
      PROVE  m \in 1..N /\ h = m
  <2>1. /\ h - 1 \in 0..N /\ h \in 0..N /\ n \in 0..N
        /\ Start[h] \in Nat /\ Start[h - 1] \in Nat /\ Start[n] \in Nat
    BY <1>1
  <2>2. ~ (h <= n)
    <3>1. SUFFICES ASSUME h <= n PROVE FALSE
      OBVIOUS
    <3>2. h \in 0..n
      BY <2>1, <3>1
    <3>3. Start[h] <= Start[n]
      BY <3>2, StartGrows
    <3>4. QED
      BY <1>4, <2>1, <3>3
  <2>3. m \in 1..N
    BY <1>1, <2>2
  <2>4. ~ (m < h)
    <3>1. SUFFICES ASSUME m < h PROVE FALSE
      OBVIOUS
    <3>2. m \in 0..(h - 1) /\ m \in 0..N
      BY <1>1, <2>1, <2>3, <3>1
    <3>3. Start[m] <= Start[h - 1]
      BY <2>1, <3>2, StartGrows
    <3>4. Start[m] \in Nat
      BY <1>1, <3>2
    <3>5. QED
      BY <1>4, <2>1, <2>3, <3>3, <3>4
  <2>5. QED
    BY <2>1, <2>2, <2>3, <2>4
<1>5. m \in 1..N
  <2>1. 1 \in 1..Len(q)
    BY <1>2
  <2>2. PICK h \in 1..N : Start[h - 1] <= Start[n] + 1 - 1 /\ Start[n] + 1 - 1 < Start[h]
    BY <1>3, <2>1
  <2>3. Start[n] \in Nat /\ (m \in 1..N => Start[n] < Start[m])
    <3>1. m \in 1..N => m \in 0..N /\ n \in 0..m /\ n < m
      BY <1>1
    <3>2. QED
      BY <1>1, <3>1, StartGrows
  <2>4. h \in 1..N /\ Start[h - 1] <= Start[n] /\ Start[n] < Start[h]
    <3>1. Start[n] + 1 - 1 = Start[n]
      BY <2>3
    <3>2. QED
      BY <2>2, <3>1
  <2>5. QED
    BY <1>4, <2>3, <2>4
<1>6. Start[m] = Start[n] + c /\ c \in Nat /\ Start[n] \in Nat /\ c # 0
  <2>1. m - 1 = n
    OBVIOUS
  <2>2. Start[m] = Start[m - 1] + c /\ c \in Nat
    BY <1>1, <1>5
  <2>3. c # 0
    BY <1>5, PiecesAre, SequenceOf DEF Deliverable
  <2>4. QED
    BY <1>1, <2>1, <2>2, <2>3
<1>7. ASSUME NEW i \in 1..Len(q), i <= c PROVE q[i] = Piece(Pieces(m)[i], Start[n] + i - 1)
  <2> DEFINE x == Start[n] + i - 1
  <2>1. x \in Nat /\ Start[n] <= x /\ x < Start[m]
    BY <1>6, <1>7
  <2>2. PICK h \in 1..N : /\ Start[h - 1] <= x /\ x < Start[h]
                          /\ \E a \in 1..Len(Pieces(h)) : q[i] = Piece(Pieces(h)[a], Start[h - 1] + a - 1) /\ Start[h - 1] + a - 1 = x
    BY <1>3
  <2> HIDE DEF x
  <2>3. h = m
    BY <1>4, <2>1, <2>2
  <2>4. PICK a \in 1..Len(Pieces(h)) : q[i] = Piece(Pieces(h)[a], Start[h - 1] + a - 1) /\ Start[h - 1] + a - 1 = x
    BY <2>2
  <2>5. a = i
    <3>1. Start[h - 1] = Start[n]
      BY <2>3
    <3>2. Start[n] + a - 1 = Start[n] + i - 1
      BY <2>4, <3>1 DEF x
    <3>3. a \in Int /\ i \in Int
      BY <1>2, <1>6, <2>3, <2>4
    <3>4. QED
      <4> DEFINE s == Start[n]
      <4>1. s \in Int /\ s + a - 1 = s + i - 1
        BY <1>6, <3>2
      <4> HIDE DEF s
      <4>2. QED
        BY <3>3, <4>1
  <2>6. QED
    BY <2>3, <2>4, <2>5 DEF x
<1>8. c <= Len(q)
  <2>1. 1 \in 1..Len(q) /\ 1 <= c /\ 1 \in 1..c
    BY <1>2, <1>6
  <2>2. q[1] = Piece(Pieces(m)[1], Start[n] + 1 - 1)
    BY <1>7, <2>1
  <2>3. Pieces(m)[1].frg = c - 1
    BY <1>5, <2>1, PiecesAre
  <2>4. Head(q).frg = c - 1
    <3>1. Head(q) = q[1]
      BY <1>2
    <3>2. QED
      BY <2>2, <2>3, <3>1 DEF Piece
  <2>5. ~ (Len(q) < Head(q).frg + 1)
    <3>1. SUFFICES ASSUME Len(q) < Head(q).frg + 1 PROVE FALSE
      OBVIOUS
    <3>2. ikcp_peeksize(k) = -1
      BY <3>1 DEF ikcp_peeksize, q
    <3>3. ikcp_peeksize(k) \in 0..BufSize /\ BufSize \in Nat
      BY CanRecvIs DEF KcpEchoAssumption
    <3>4. QED
      BY <3>2, <3>3
  <2>6. QED
    BY <1>2, <1>6, <2>4, <2>5
<1>9. \A i \in 1..c : q[i] = Piece(Pieces(m)[i], Start[n] + i - 1)
  <2>1. SUFFICES ASSUME NEW i \in 1..c PROVE q[i] = Piece(Pieces(m)[i], Start[n] + i - 1)
    OBVIOUS
  <2>2. i \in 1..Len(q) /\ i <= c
    BY <1>2, <1>6, <1>8
  <2>3. QED
    BY <1>7, <2>2
<1>10. QED
  BY <1>5, <1>8, <1>9 DEF q

\* What an application receives is the message that is next.
LEMMA NextMessage ==
  ASSUME KcpEchoAssumption, Deliverable, NEW k, Good(k, Stream), NEW n \in 0..Len(Sizes),
         Passed(k) = Start[n], CanRecv(k, BufSize)
  PROVE  /\ n + 1 \in 1..Len(Sizes) /\ Merged(k) = Whole(n + 1)
         /\ LastFragment(k.rcv_queue) = Len(Pieces(n + 1)) /\ Len(Received(k)) = Len(Pieces(n + 1))
<1> DEFINE q == k.rcv_queue
           m == n + 1
           c == Len(Pieces(m))
           l == LastFragment(q)
           R == Received(k)
<1>1. /\ m \in 1..Len(Sizes) /\ c <= Len(q)
      /\ \A i \in 1..c : q[i] = Piece(Pieces(m)[i], Start[n] + i - 1)
  BY FirstWaiting
<1>2. c \in Nat /\ c # 0 /\ \A i \in 1..c : Pieces(m)[i].frg = c - i /\ Pieces(m)[i].msg = m
  <2>1. Pieces(m) \in Seq(Fragment) /\ Pieces(m) # <<>>
    BY <1>1, PiecesAre DEF Deliverable
  <2>2. c \in Nat /\ c # 0
    BY <2>1, SequenceOf
  <2>3. QED
    BY <1>1, <2>2, PiecesAre
<1>3. ASSUME NEW i \in 1..c PROVE q[i].frg = c - i /\ q[i].msg = m
  <2> DEFINE p == Pieces(m)[i]
             x == Start[n] + i - 1
  <2>1. q[i] = Piece(p, x) /\ p.frg = c - i /\ p.msg = m
    BY <1>1, <1>2
  <2> HIDE DEF q, c, m, p, x
  <2>2. QED
    BY <2>1 DEF Piece
<1>4. q \in Seq(Stream) /\ q # <<>> /\ Len(q) \in Nat
  BY CanRecvIs, SequenceOf DEF Good, RecvOK
<1>5. l \in 1..Len(q) /\ (q[l].frg = 0 \/ l = Len(q)) /\ \A i \in 1..(l - 1) : q[i].frg # 0
  BY <1>4, LastFragmentIs
<1> HIDE DEF l, c, q
<1>6. l = c
  <2>1. ~ (c < l)
    <3>1. SUFFICES ASSUME c < l PROVE FALSE
      OBVIOUS
    <3>2. c \in 1..(l - 1) /\ c \in 1..c
      BY <1>2, <1>5, <3>1
    <3>3. q[c].frg = 0
      BY <1>2, <1>3, <3>2
    <3>4. QED
      BY <1>5, <3>2, <3>3
  <2>2. ~ (l < c)
    <3>1. SUFFICES ASSUME l < c PROVE FALSE
      OBVIOUS
    <3>2. l \in 1..c /\ l # Len(q)
      BY <1>1, <1>2, <1>4, <1>5, <3>1 DEF c, q
    <3>3. q[l].frg = c - l
      BY <1>3, <3>2
    <3>4. QED
      BY <1>2, <1>5, <3>1, <3>2, <3>3
  <2>3. QED
    BY <1>2, <1>5, <2>1, <2>2
<1>7. R = SubSeq(q, 1, l)
  BY DEF Received, l, q
<1>8. Len(R) = c /\ DOMAIN R = 1..c /\ \A i \in 1..c : R[i] = q[i]
  <2>1. l \in 0..Len(q)
    BY <1>4, <1>5
  <2> HIDE DEF R
  <2>2. R \in Seq(Stream) /\ Len(R) = l /\ \A i \in 1..l : R[i] = q[i]
    BY <1>4, <1>7, <2>1, FrontOf
  <2>3. QED
    BY <1>6, <2>2, SequenceOf
<1>9. Merged(k) = [i \in DOMAIN R |-> <<R[i].msg, R[i].frg>>]
  BY DEF Merged
<1> HIDE DEF R
<1>10. Merged(k) = Whole(m)
  <2>1. \A i \in 1..c : <<R[i].msg, R[i].frg>> = <<m, c - i>>
    BY <1>3, <1>8
  <2>2. Whole(m) = [i \in 1..c |-> <<m, c - i>>]
    BY DEF Whole, c
  <2> HIDE DEF m, c
  <2>3. QED
    BY <1>8, <1>9, <2>1, <2>2
<1>11. QED
  BY <1>1, <1>6, <1>8, <1>10 DEF R, l, q, c

\* Its size is what the client sent.
LEMMA NextSize ==
  ASSUME KcpEchoAssumption, Deliverable, NEW k, Good(k, Stream), NEW n \in 0..Len(Sizes),
         Passed(k) = Start[n], CanRecv(k, BufSize)
  PROVE  ikcp_peeksize(k) = Sizes[n + 1]
<1> DEFINE q == k.rcv_queue
           N == Len(q)
           m == n + 1
           c == Len(Pieces(m))
           mss == Instance(0).mss
           next == [i \in 1..N |-> [x \in Int |-> x + q[i].len]]
           Eq(f) == f = [i \in 0..N |-> IF i = 0 THEN 0 ELSE f[i - 1] + q[i].len]
           size == CHOOSE f : Eq(f)
<1>1. /\ m \in 1..Len(Sizes) /\ c <= N /\ LastFragment(q) = c
      /\ \A i \in 1..c : q[i] = Piece(Pieces(m)[i], Start[n] + i - 1)
  BY FirstWaiting, NextMessage
<1>2. /\ N \in Nat /\ q # <<>> /\ \A i \in 1..N : q[i].len \in Int
  <2>1. q \in Seq(Stream) /\ q # <<>>
    BY CanRecvIs DEF Good, RecvOK
  <2>2. \A d \in Stream : d.len \in Int
    BY DEF Stream, DataSegment
  <2>3. QED
    BY <2>1, <2>2, SequenceOf
<1>3. /\ c \in Nat /\ c # 0 /\ mss \in Nat
      /\ \A i \in 1..c : q[i].len = IF i < c THEN mss ELSE Sizes[m] - (c - 1) * mss
  <2>1. Pieces(m) # <<>> /\ Pieces(m) \in Seq(Fragment)
    BY <1>1, PiecesAre DEF Deliverable
  <2>2. c \in Nat /\ c # 0
    BY <2>1, SequenceOf
  <2>3. \A i \in 1..c : Pieces(m)[i].len = IF i < c THEN mss ELSE Sizes[m] - (c - 1) * mss
    BY <1>1, PiecesAre
  <2>4. mss \in Nat
    BY InstanceIs DEF Good, OtherOK
  <2>5. ASSUME NEW i \in 1..c PROVE q[i].len = Pieces(m)[i].len
    <3> DEFINE p == Pieces(m)[i]
               x == Start[n] + i - 1
    <3>1. q[i] = Piece(p, x)
      BY <1>1
    <3> HIDE DEF q, p, x
    <3>2. q[i].len = p.len
      BY <3>1 DEF Piece
    <3>3. QED
      BY <3>2 DEF p
  <2> HIDE DEF c, mss, q, m
  <2>6. QED
    BY <2>2, <2>3, <2>4, <2>5
<1> HIDE DEF q, N
<1>4. next \in Steps(N, Int) /\ \A i \in 1..N, x \in Int : next[i][x] = x + q[i].len
  BY <1>2 DEF Steps
<1>5. \E f : IsRecursion(f, N, Int, 0, next)
  <2>1. N \in Nat /\ 0 \in Int /\ next \in Steps(N, Int)
    BY <1>2, <1>4
  <2> HIDE DEF next
  <2>2. QED
    BY <2>1, RecursionUpTo
<1>6. PICK f : f \in [0..N -> Int] /\ f[0] = 0 /\ \A i \in 1..N : f[i] = next[i][f[i - 1]]
  BY <1>5 DEF IsRecursion
<1>7. Eq(f)
  <2>1. \A i \in 0..N : f[i] = IF i = 0 THEN 0 ELSE f[i - 1] + q[i].len
    <3>1. SUFFICES ASSUME NEW i \in 0..N, i # 0 PROVE f[i] = f[i - 1] + q[i].len
      BY <1>6
    <3>2. i \in 1..N /\ i - 1 \in 0..N
      BY <1>2, <3>1
    <3> HIDE DEF next
    <3>3. QED
      BY <1>4, <1>6, <3>2
  <2>2. QED
    BY <1>6, <2>1
<1>8. Eq(size)
  <2> HIDE DEF Eq
  <2>1. QED
    BY <1>7
<1>9. ikcp_peeksize(k) = size[c]
  <2>1. ikcp_peeksize(k) = IF q = <<>> \/ N < Head(q).frg + 1 THEN -1 ELSE size[LastFragment(q)]
    BY DEF ikcp_peeksize, q, N
  <2>2. ikcp_peeksize(k) # -1
    <3>1. ikcp_peeksize(k) \in 0..BufSize /\ BufSize \in Nat
      BY CanRecvIs DEF KcpEchoAssumption
    <3>2. QED
      BY <3>1
  <2> HIDE DEF size
  <2>3. QED
    BY <1>1, <2>1, <2>2 DEF q
<1> HIDE DEF size
<1>10. size[0] = 0 /\ \A i \in 1..N : size[i] = size[i - 1] + q[i].len
  <2>1. \A i \in 0..N : size[i] = IF i = 0 THEN 0 ELSE size[i - 1] + q[i].len
    BY <1>8
  <2>2. QED
    BY <1>2, <2>1
<1> HIDE DEF c, mss
<1>11. c <= N
  BY <1>1 DEF N, q
<1> DEFINE Done == {i \in 0..(c - 1) : size[i] = i * mss}
<1>12. c - 1 \in Done
  <2>1. 0 \in Done
    BY <1>3, <1>10
  <2>2. ASSUME NEW i \in 1..(c - 1), i - 1 \in Done PROVE i \in Done
    <3>1. i \in 1..N /\ i \in 1..c /\ i < c
      BY <1>2, <1>3, <1>11, <2>2
    <3>2. size[i] = size[i - 1] + mss /\ size[i - 1] = (i - 1) * mss
      BY <1>3, <1>10, <2>2, <3>1
    <3>3. (i - 1) * mss + mss = i * mss
      BY <1>3
    <3>4. QED
      BY <3>2, <3>3
  <2> HIDE DEF Done
  <2>3. 0..(c - 1) \subseteq Done
    <3>1. c - 1 \in Nat
      BY <1>3
    <3>2. QED
      BY <2>1, <2>2, <3>1, InductionUpTo
  <2>4. QED
    BY <1>3, <2>3
<1>13. size[c] = Sizes[m]
  <2>1. size[c - 1] = (c - 1) * mss /\ c \in 1..N /\ c \in 1..c
    BY <1>2, <1>3, <1>11, <1>12
  <2>2. size[c] = (c - 1) * mss + (Sizes[m] - (c - 1) * mss)
    BY <1>3, <1>10, <2>1
  <2>3. (c - 1) * mss \in Int /\ Sizes[m] \in Int
    BY <1>1, <1>3, SizesAre
  <2>4. QED
    BY <2>2, <2>3
<1>14. QED
  BY <1>9, <1>13

\* A message that is given to ikcp_send at its place in the stream.
LEMMA InItsPlace ==
  ASSUME KcpEchoAssumption, NEW k, Good(k, Stream), NEW m \in 1..Len(Sizes), Given(k) = Start[m - 1]
  PROVE  Fragments(k, m, Sizes[m]) = Pieces(m) /\ Fitting(Stream, k, m, Sizes[m])
<1> DEFINE F == Pieces(m)
<1>1. Fragments(k, m, Sizes[m]) = F
  <2>1. k.mss = Instance(0).mss
    BY DEF Good, OtherOK
  <2>2. QED
    BY <2>1 DEF Fragments, Pieces
<1>2. m \in Nat /\ m - 1 \in 0..Len(Sizes) /\ Start[m - 1] \in Nat
  BY SizesAre, StartIs
<1>3. F \in Seq(Fragment) /\ Len(F) \in Nat /\ \A i \in 1..Len(F) : F[i] \in Fragment
  BY PiecesAre, SequenceOf
<1>4. ASSUME NEW i \in 1..Len(F) PROVE Piece(F[i], Start[m - 1] + i - 1) \in Stream
  <2> DEFINE d == Piece(F[i], Start[m - 1] + i - 1)
  <2>1. d \in DataSegment
    <3>1. F[i] \in Fragment /\ Start[m - 1] + i - 1 \in Nat
      BY <1>2, <1>3
    <3> HIDE DEF F
    <3>2. QED
      BY <3>1 DEF Piece, Fragment, DataSegment
  <2>2. \E h \in 1..Len(Sizes) : \E a \in 1..Len(Pieces(h)) : d = Piece(Pieces(h)[a], Start[h - 1] + a - 1)
    OBVIOUS
  <2> HIDE DEF d
  <2>3. d \in Stream
    BY <2>1, <2>2 DEF Stream
  <2>4. QED
    BY <2>3 DEF d
<1>5. QED
  BY <1>1, <1>4 DEF Fitting

\* What the application of an end has given and got: the messages in their
\* order, each at its place in the stream.
Wholes == {Whole(m) : m \in 1..Len(Sizes)}
GivenInOrder(e) == sent[e] \in 0..Len(Sizes) /\ Given(Now(e)) = Start[sent[e]]
GotInOrder(e) ==
  /\ got[e] \in Seq(Wholes) /\ Len(got[e]) \in 0..Len(Sizes)
  /\ Passed(Now(e)) = Start[Len(got[e])]
  /\ \A m \in 1..Len(got[e]) : got[e][m] = Whole(m)
Order ==
  /\ Base(Stream)
  /\ \A e \in Ends : GivenInOrder(e) /\ GotInOrder(e)
  /\ sent["server"] = Len(got["server"])

\* An end that receives gets the next message.
LEMMA GetsNext ==
  ASSUME KcpEchoAssumption, Deliverable, NEW e, GotInOrder(e), Receives(Stream, e)
  PROVE  GotInOrder(e)'
<1> DEFINE n == Len(got[e])
<1>1. n \in 0..Len(Sizes) /\ got[e] \in Seq(Wholes) /\ Passed(Now(e)) = Start[n]
  BY DEF GotInOrder
<1>2. CASE got'[e] = got[e] /\ Passed(Now(e)') = Passed(Now(e))
  BY <1>2 DEF GotInOrder
<1>3. ASSUME NEW k, Good(k, Stream), CanRecv(k, BufSize), Passed(k) = Passed(Now(e)),
             got'[e] = Append(got[e], Merged(k)), Passed(Now(e)') = Passed(k) + Len(Received(k))
      PROVE  GotInOrder(e)'
  <2>1. Passed(k) = Start[n]
    BY <1>1, <1>3
  <2>2. n + 1 \in 1..Len(Sizes) /\ Merged(k) = Whole(n + 1) /\ Len(Received(k)) = Len(Pieces(n + 1))
    BY <1>1, <1>3, <2>1, NextMessage
  <2>3. Passed(Now(e)') = Start[n + 1]
    <3>1. Start[n + 1] = Start[n] + Len(Pieces(n + 1))
      <4>1. (n + 1) - 1 = n
        BY <1>1
      <4>2. QED
        BY <2>2, <4>1, StartIs
    <3>2. QED
      BY <1>3, <2>1, <2>2, <3>1
  <2>4. Whole(n + 1) \in Wholes
    BY <2>2 DEF Wholes
  <2> DEFINE g == got[e]
             h == Append(g, Whole(n + 1))
  <2>5. got'[e] = h /\ g \in Seq(Wholes)
    BY <1>1, <1>3, <2>2
  <2>6. n \in Nat /\ Len(g) = n /\ \A m \in 1..n : g[m] = Whole(m)
    BY <1>1, SizesAre DEF GotInOrder
  <2> HIDE DEF g, n
  <2>7. h \in Seq(Wholes) /\ Len(h) = n + 1 /\ h[n + 1] = Whole(n + 1) /\ \A m \in 1..n : h[m] = g[m]
    BY <2>4, <2>5, <2>6, AppendProperties
  <2> HIDE DEF h
  <2>8. \A m \in 1..(n + 1) : h[m] = Whole(m)
    <3>1. \A m \in 1..(n + 1) : m = n + 1 \/ m \in 1..n
      BY <2>6
    <3>2. QED
      BY <2>6, <2>7, <3>1
  <2>9. Len(h) \in 0..Len(Sizes)
    BY <2>2, <2>7, SizesAre
  <2>10. QED
    BY <2>3, <2>5, <2>7, <2>8, <2>9 DEF GotInOrder
<1>4. QED
  BY <1>2, <1>3 DEF Receives

\* An end that gives nothing keeps the order of what it gave.
LEMMA GivesNothing ==
  ASSUME NEW e, GivenInOrder(e), sent'[e] = sent[e], Given(Now(e)') = Given(Now(e))
  PROVE  GivenInOrder(e)'
BY DEF GivenInOrder

\* An end that gets nothing keeps the order of what it got.
LEMMA GetsNothing ==
  ASSUME NEW e, GotInOrder(e), got'[e] = got[e], Passed(Now(e)') = Passed(Now(e))
  PROVE  GotInOrder(e)'
BY DEF GotInOrder

\* The client gives the next message.
LEMMA ClientKeepsOrder ==
  ASSUME KcpEchoAssumption, Deliverable, Order, ClientSend
  PROVE  Order'
<1> DEFINE k == Now("client")
           m == sent["client"] + 1
<1>1. /\ Base(Stream) /\ GivenInOrder("client") /\ GotInOrder("client") /\ GivenInOrder("server") /\ GotInOrder("server")
      /\ sent \in [Ends -> Nat]
  BY DEF Order, Base, Ends
<1>2. kcp.client = k /\ Good(k, Stream) /\ Stream \in SUBSET DataSegment
  BY <1>1 DEF Base, Linked, Now, Stream
<1>3. sent["client"] \in 0..Len(Sizes) /\ Given(k) = Start[sent["client"]] /\ Len(Sizes) \in Nat
  BY <1>1, SizesAre DEF GivenInOrder
<1>4. ASSUME ClientHasMore
      PROVE  m \in 1..Len(Sizes) /\ Fragments(k, m, Sizes[m]) = Pieces(m) /\ Fitting(Stream, k, m, Sizes[m])
  <2>1. m \in 1..Len(Sizes) /\ m - 1 = sent["client"]
    BY <1>3, <1>4 DEF ClientHasMore
  <2> HIDE DEF k
  <2>2. Given(k) = Start[m - 1]
    BY <1>3, <2>1
  <2> HIDE DEF m
  <2>3. QED
    BY <1>2, <2>1, <2>2, InItsPlace
<1>5. /\ Base(Stream)' /\ Now("server")' = Now("server") /\ got' = got
      /\ Passed(Now("client")') = Passed(Now("client"))
      /\ IF ClientHasMore
         THEN /\ sent' = [sent EXCEPT !["client"] = m]
              /\ Given(Now("client")') = Given(k) + Len(Fragments(k, m, Sizes[m]))
         ELSE sent' = sent /\ Given(Now("client")') = Given(k)
  <2>1. ClientHasMore => Fitting(Stream, kcp.client, sent.client + 1, Sizes[sent.client + 1])
    BY <1>2, <1>4
  <2>2. /\ Base(Stream)' /\ Now("server")' = Now("server") /\ got' = got
         /\ Passed(Now("client")') = Passed(Now("client"))
         /\ IF ClientHasMore
            THEN /\ sent' = [sent EXCEPT !["client"] = sent["client"] + 1]
                 /\ Given(Now("client")') = Given(Now("client"))
                                            + Len(Fragments(kcp.client, sent.client + 1, Sizes[sent.client + 1]))
            ELSE sent' = sent /\ Given(Now("client")') = Given(Now("client"))
    BY <1>1, <1>2, <2>1, ClientSends
  <2>3. QED
    BY <1>2, <2>2
<1>6. GivenInOrder("client")'
  <2>1. CASE ClientHasMore
    <3>1. sent'["client"] = m
      BY <1>1, <1>5, <2>1 DEF Ends
    <3>2. Start[m] = Start[sent["client"]] + Len(Pieces(m)) /\ m \in 0..Len(Sizes)
      <4>1. m - 1 = sent["client"] /\ m \in 1..Len(Sizes)
        BY <1>3, <1>4, <2>1
      <4>2. QED
        BY <1>3, <4>1, StartIs
    <3>3. Given(Now("client")') = Start[m]
      BY <1>3, <1>4, <1>5, <2>1, <3>2
    <3>4. QED
      BY <3>1, <3>2, <3>3 DEF GivenInOrder
  <2>2. CASE ~ ClientHasMore
    BY <1>1, <1>5, <2>2, GivesNothing
  <2>3. QED
    BY <2>1, <2>2
<1>7. GivenInOrder("server")' /\ sent'["server"] = sent["server"]
  <2>1. sent'["server"] = sent["server"]
    <3>1. "server" # "client" /\ "server" \in Ends
      BY DEF Ends
    <3>2. QED
      BY <1>1, <1>5, <3>1
  <2>2. QED
    BY <1>1, <1>5, <2>1, GivesNothing
<1>8. GotInOrder("client")' /\ GotInOrder("server")'
  BY <1>1, <1>5, GetsNothing
<1>9. sent'["server"] = Len(got'["server"])
  BY <1>5, <1>7 DEF Order
<1>10. QED
  BY <1>5, <1>6, <1>7, <1>8, <1>9 DEF Order, Ends

\* The server sends back what it receives, under the number it has there.
LEMMA EchoKeepsOrder ==
  ASSUME KcpEchoAssumption, Deliverable, Order, ServerEcho
  PROVE  Order'
<1> DEFINE k == kcp.server
           j == ikcp_recv(k)
           n == Len(got["server"])
           m == n + 1
<1>1. /\ Base(Stream) /\ GivenInOrder("client") /\ GotInOrder("client") /\ GivenInOrder("server") /\ GotInOrder("server")
      /\ sent \in [Ends -> Nat] /\ sent["server"] = n /\ Stream \in SUBSET DataSegment
  BY DEF Order, Base, Ends, Stream
<1>2. k = Now("server") /\ CanRecv(k, BufSize)
  BY DEF ServerEcho, Now
<1>3. Good(k, Stream) /\ Given(k) = Start[n] /\ Passed(k) = Start[n] /\ n \in 0..Len(Sizes)
  <2>1. Good(Now("server"), Stream)
    BY <1>1 DEF Base, Linked
  <2>2. Given(Now("server")) = Start[n] /\ Passed(Now("server")) = Start[n] /\ n \in 0..Len(Sizes)
    BY <1>1 DEF GivenInOrder, GotInOrder
  <2>3. QED
    BY <1>2, <2>1, <2>2
<1> HIDE DEF k
<1>4. k.rcv_queue # <<>>
  BY <1>2, CanRecvIs
<1>5. Good(j, Stream) /\ Given(j) = Given(k) /\ Changes(k, j, {}, {})
  BY <1>1, <1>3, <1>4, RecvIs
<1> HIDE DEF j, n
<1>6. /\ m \in 1..Len(Sizes) /\ Merged(k) = Whole(m) /\ Len(Received(k)) = Len(Pieces(m))
      /\ ikcp_peeksize(k) = Sizes[m]
  BY <1>2, <1>3, NextMessage, NextSize
<1>7. m - 1 = n /\ Start[m] = Start[n] + Len(Pieces(m)) /\ m \in 0..Len(Sizes)
  <2>1. m - 1 = n
    BY <1>3
  <2>2. QED
    BY <1>6, <2>1, StartIs
<1>8. Fragments(j, m, Sizes[m]) = Pieces(m) /\ Fitting(Stream, j, m, Sizes[m])
  <2>1. Given(j) = Start[m - 1]
    BY <1>3, <1>5, <1>7
  <2> HIDE DEF m
  <2>2. QED
    BY <1>5, <1>6, <2>1, InItsPlace
<1>9. sent.server + 1 = m /\ sent["server"] + 1 = m
  BY <1>1
<1> HIDE DEF m
<1>10. /\ Fitting(Stream, ikcp_recv(kcp.server), sent.server + 1, ikcp_peeksize(kcp.server))
       /\ Taken(ikcp_recv(kcp.server), sent.server + 1, ikcp_peeksize(kcp.server))
  <2>1. Pieces(m) # <<>>
    BY <1>6 DEF Deliverable
  <2>2. QED
    BY <1>6, <1>8, <1>9, <2>1 DEF j, k, Taken
<1>11. /\ Base(Stream)' /\ Now("client")' = Now("client")
       /\ sent' = [sent EXCEPT !["server"] = sent["server"] + 1]
       /\ got'["client"] = got["client"] /\ got'["server"] = Append(got["server"], Merged(kcp.server))
       /\ Passed(Now("server")') = Passed(kcp.server) + Len(Received(kcp.server))
       /\ Given(Now("server")') = Given(kcp.server)
              + Len(Fragments(ikcp_recv(kcp.server), sent.server + 1, ikcp_peeksize(kcp.server)))
  BY <1>1, <1>10, ServerEchoes
<1>12. sent'["server"] = m /\ sent'["client"] = sent["client"]
  <2>1. "server" # "client" /\ "server" \in Ends /\ "client" \in Ends
    BY DEF Ends
  <2>2. QED
    BY <1>1, <1>9, <1>11, <2>1
<1>13. GivenInOrder("server")'
  <2>1. Given(Now("server")') = Start[n] + Len(Pieces(m))
    <3>1. Given(Now("server")') = Given(k) + Len(Fragments(j, sent.server + 1, ikcp_peeksize(k)))
      BY <1>11 DEF j, k
    <3>2. QED
      BY <1>3, <1>6, <1>8, <1>9, <3>1
  <2>2. QED
    BY <1>7, <1>12, <2>1 DEF GivenInOrder
<1>14. GotInOrder("server")'
  <2>1. Good(k, Stream) /\ CanRecv(k, BufSize) /\ Passed(k) = Passed(Now("server"))
    BY <1>2, <1>3
  <2>2. /\ got'["server"] = Append(got["server"], Merged(k))
        /\ Passed(Now("server")') = Passed(k) + Len(Received(k))
    BY <1>11 DEF k
  <2>3. Receives(Stream, "server")
    BY <2>1, <2>2 DEF Receives
  <2>4. QED
    BY <1>1, <2>3, GetsNext
<1>15. GivenInOrder("client")' /\ GotInOrder("client")'
  BY <1>1, <1>11, <1>12, GivesNothing, GetsNothing
<1>16. sent'["server"] = Len(got'["server"])
  <2>1. got["server"] \in Seq(Wholes)
    BY <1>1 DEF GotInOrder
  <2>2. Merged(k) \in Wholes
    BY <1>6 DEF Wholes
  <2>3. Len(Append(got["server"], Merged(k))) = m
    BY <2>1, <2>2, AppendProperties DEF m, n
  <2>4. QED
    BY <1>11, <1>12, <2>3 DEF k
<1>17. QED
  BY <1>11, <1>13, <1>14, <1>15, <1>16 DEF Order, Ends

\* Every step keeps the order.
LEMMA OrderStep ==
  ASSUME KcpEchoAssumption, Deliverable, Order, [Next]_vars
  PROVE  Order'
<1>1. /\ Base(Stream) /\ GivenInOrder("client") /\ GotInOrder("client") /\ GivenInOrder("server") /\ GotInOrder("server")
      /\ sent["server"] = Len(got["server"]) /\ Stream \in SUBSET DataSegment
  BY DEF Order, Ends, Stream
<1>2. CASE ClientSend
  BY <1>2, ClientKeepsOrder
<1>3. ASSUME NEW d \in net.client, ClientInput(d) PROVE Order'
  <2>1. /\ Base(Stream)' /\ Now("server")' = Now("server") /\ sent' = sent /\ got'["server"] = got["server"]
        /\ Given(Now("client")') = Given(Now("client")) /\ Receives(Stream, "client")
    BY <1>1, <1>3, ClientReads
  <2>2. GivenInOrder("client")' /\ GivenInOrder("server")'
    BY <1>1, <2>1, GivesNothing
  <2>3. GotInOrder("client")' /\ GotInOrder("server")'
    BY <1>1, <2>1, GetsNext, GetsNothing
  <2>4. QED
    BY <1>1, <2>1, <2>2, <2>3 DEF Order, Ends
<1>4. ASSUME NEW d \in net.server, ServerInput(d) PROVE Order'
  <2>1. /\ Base(Stream)' /\ Now("client")' = Now("client") /\ UNCHANGED <<sent, got>>
        /\ Given(Now("server")') = Given(Now("server")) /\ Passed(Now("server")') = Passed(Now("server"))
    BY <1>1, <1>4, ServerReads
  <2>2. GivenInOrder("client")' /\ GivenInOrder("server")' /\ GotInOrder("client")' /\ GotInOrder("server")'
    BY <1>1, <2>1, GivesNothing, GetsNothing
  <2>3. QED
    BY <1>1, <2>1, <2>2 DEF Order, Ends
<1>5. CASE ServerEcho
  BY <1>5, EchoKeepsOrder
<1>6. ASSUME Base(Stream)', \A x \in Ends : Now(x)' = Now(x), UNCHANGED <<sent, got>> PROVE Order'
  <2>1. Now("client")' = Now("client") /\ Now("server")' = Now("server")
    BY <1>6 DEF Ends
  <2>2. GivenInOrder("client")' /\ GivenInOrder("server")' /\ GotInOrder("client")' /\ GotInOrder("server")'
    BY <1>1, <1>6, <2>1, GivesNothing, GetsNothing
  <2>3. QED
    BY <1>1, <1>6, <2>2 DEF Order, Ends
<1>7. ASSUME NEW e \in Ends, NEW d \in net[e], Lose(e, d) PROVE Order'
  <2>1. Base(Stream)' /\ \A x \in Ends : Now(x)' = Now(x)
    BY <1>1, <1>7, Losing
  <2>2. UNCHANGED <<sent, got>>
    BY <1>7 DEF Lose
  <2>3. QED
    BY <1>6, <2>1, <2>2
<1>8. CASE UNCHANGED vars
  <2>1. UNCHANGED <<kcp, sent, got>> /\ net' = net
    BY <1>8 DEF vars
  <2>2. net' = [x \in Ends |-> net'[x]] /\ \A x \in Ends : net'[x] \subseteq net[x]
    BY <1>1, <2>1 DEF Base
  <2>3. Base(Stream)' /\ \A x \in Ends : Now(x)' = Now(x)
    BY <1>1, <2>1, <2>2, NothingMoves
  <2>4. QED
    BY <1>6, <2>1, <2>3
<1>9. QED
  BY <1>2, <1>3, <1>4, <1>5, <1>7, <1>8 DEF Next

\* At the start nothing has been given or got.
LEMMA OrderStarts ==
  ASSUME KcpEchoAssumption, Init
  PROVE  Order
<1>1. Base(Stream) /\ \A e \in Ends : Given(Now(e)) = 0 /\ Passed(Now(e)) = 0 /\ got[e] = <<>> /\ sent[e] = 0
  BY Starting
<1>2. Len(Sizes) \in Nat /\ Start[0] = 0
  BY SizesAre, StartIs
<1>3. ASSUME NEW e \in Ends PROVE GivenInOrder(e) /\ GotInOrder(e) /\ sent[e] = Len(got[e])
  <2>1. Given(Now(e)) = 0 /\ Passed(Now(e)) = 0 /\ got[e] = <<>> /\ sent[e] = 0
    BY <1>1
  <2>2. Len(got[e]) = 0 /\ got[e] \in Seq(Wholes)
    BY <2>1, EmptySeq
  <2>3. QED
    BY <1>2, <2>1, <2>2 DEF GivenInOrder, GotInOrder
<1>4. "server" \in Ends
  BY DEF Ends
<1>5. QED
  BY <1>1, <1>3, <1>4 DEF Order

\* An application gets no more than the other one has given.
LEMMA OrderDelivers ==
  ASSUME KcpEchoAssumption, Deliverable, Order
  PROVE  DeliveredInOrder
<1>1. SUFFICES ASSUME NEW e \in Ends, NEW m \in DOMAIN got[e]
               PROVE  m <= sent[Peer(e)] /\ got[e][m] = Expected("client", m)
  BY DEF DeliveredInOrder
<1> DEFINE p == Peer(e)
           k == Now(e)
           b == Now(p)
           n == Len(got[e])
<1>2. p \in Ends /\ Linked(Stream, k, b, net[e], net[p])
  BY LinkedEnds DEF Order
<1>3. GotInOrder(e) /\ GivenInOrder(p)
  BY <1>2 DEF Order
<1>4. got[e] \in Seq(Wholes) /\ n \in 0..Len(Sizes) /\ Passed(k) = Start[n] /\ got[e][m] = Whole(m) /\ m \in 1..n
  <2>1. got[e] \in Seq(Wholes)
    BY <1>3 DEF GotInOrder
  <2>2. m \in 1..n
    BY <1>1, <2>1, SequenceOf
  <2>3. QED
    BY <1>3, <2>1, <2>2 DEF GotInOrder
<1>5. sent[p] \in 0..Len(Sizes) /\ Given(b) = Start[sent[p]]
  BY <1>3 DEF GivenInOrder
<1> HIDE DEF k, b, n, p
<1>6. Passed(k) <= Given(b)
  <2>1. /\ k.rcv_nxt \in Nat /\ b.snd_nxt \in Nat /\ Len(k.rcv_queue) \in Nat /\ Len(b.snd_queue) \in Nat
        /\ Held(k) \subseteq 0..(b.snd_nxt - 1)
    BY <1>2, SequenceOf DEF Linked, Good, RecvOK, SendOK, QueueOK
  <2>2. 0..(k.rcv_nxt - 1) \subseteq 0..(b.snd_nxt - 1)
    BY <2>1 DEF Held
  <2>3. k.rcv_nxt <= b.snd_nxt
    <3>1. SUFFICES ASSUME b.snd_nxt < k.rcv_nxt PROVE FALSE
      BY <2>1
    <3>2. b.snd_nxt \in 0..(k.rcv_nxt - 1) /\ b.snd_nxt \notin 0..(b.snd_nxt - 1)
      BY <2>1, <3>1
    <3>3. QED
      BY <2>2, <3>2
  <2>4. QED
    BY <2>1, <2>3 DEF Passed, Given
<1>7. n <= sent[p]
  <2>1. SUFFICES ASSUME sent[p] < n PROVE FALSE
    BY <1>4, <1>5, SizesAre
  <2>2. sent[p] \in 0..n /\ n \in 0..Len(Sizes)
    BY <1>4, <1>5, <2>1
  <2>3. Start[sent[p]] < Start[n]
    BY <2>1, <2>2, StartGrows
  <2>4. Start[sent[p]] \in Nat /\ Start[n] \in Nat
    BY <1>4, <1>5, StartIs
  <2>5. QED
    BY <1>4, <1>5, <1>6, <2>3, <2>4
<1>8. m <= sent[p]
  BY <1>4, <1>5, <1>7, SizesAre
<1>9. Expected("client", m) = Whole(m)
  <2>1. Good(kcp["client"], Stream)
    BY DEF Order, Base, Linked, Now
  <2>2. kcp["client"].mss = Instance(0).mss
    BY <2>1 DEF Good, OtherOK
  <2>3. Fragments(kcp["client"], m, Sizes[m]) = Pieces(m)
    BY <2>2 DEF Fragments, Pieces
  <2>4. QED
    BY <2>3 DEF Expected, Whole
<1>10. QED
  BY <1>4, <1>8, <1>9 DEF p

\* What the applications receive are the messages the other one sent, whole, in
\* order, each once, over a network that loses, repeats and reorders, provided
\* that ikcp_send takes every message.
THEOREM KcpDelivers ==
  ASSUME Deliverable
  PROVE  Spec => []DeliveredInOrder
<1>1. Init => Order
  BY KcpEchoAssumption, OrderStarts
<1>2. Order /\ [Next]_vars => Order'
  BY KcpEchoAssumption, OrderStep
<1>3. Order => DeliveredInOrder
  BY KcpEchoAssumption, OrderDelivers
<1>4. QED
  BY <1>1, <1>2, <1>3, PTL DEF Spec
=============================================================================
