-------------------------- MODULE NaturalRecursion --------------------------
(***************************************************************************)
(* What the proofs need of the natural numbers: a least element, induction *)
(* over the numbers in a set, that functions defined by recursion on 0..N  *)
(* exist, and what is left of a number when its carries are put back.      *)
(* Nothing here is about one program.                                      *)
(***************************************************************************)
EXTENDS Integers, FiniteSetTheorems, TLAPS

\* A set T of numbers that is not empty has a least one, m: of the sets 0..k
\* with k in T, 0..m has no other inside it.
LEMMA LeastOf ==
  ASSUME NEW T \in SUBSET Nat, T # {}
  PROVE  \E m \in T : \A k \in T : m <= k
<1> DEFINE Below(k) == 0..k
           Cuts == {Below(k) : k \in T}
<1>1. Cuts \subseteq FiniteSubsetsOf(Nat) /\ Cuts # {}
  <2>1. \A k \in T : IsFiniteSet(Below(k)) /\ Below(k) \in SUBSET Nat
    BY FS_Interval
  <2>2. QED
    BY <2>1 DEF FiniteSubsetsOf
<1>2. PICK c \in Cuts : \A d \in Cuts : ~ (<<d, c>> \in StrictSubsetOrdering(Nat))
  <2> HIDE DEF Cuts
  <2>1. IsWellFoundedOn(StrictSubsetOrdering(Nat), FiniteSubsetsOf(Nat))
    BY FS_StrictSubsetOrderingWellFounded
  <2>2. QED
    BY <1>1, <2>1, WFMin
<1>3. PICK m \in T : c = Below(m)
  OBVIOUS
<1>4. ASSUME NEW k \in T, k < m PROVE FALSE
  <2>1. Below(k) \in Cuts /\ Below(k) \in SUBSET Nat /\ Below(m) \in SUBSET Nat
    OBVIOUS
  <2>2. Below(k) \subseteq Below(m) /\ m \in Below(m) /\ m \notin Below(k)
    BY <1>4
  <2>3. <<Below(k), c>> \in StrictSubsetOrdering(Nat)
    BY <1>3, <2>1, <2>2 DEF StrictSubsetOrdering
  <2>4. QED
    BY <1>2, <2>1, <2>3
<1>5. QED
  BY <1>4

\* A set of numbers with a bound that is not empty has a greatest one.
LEMMA GreatestOf ==
  ASSUME NEW T \in SUBSET Nat, T # {}, NEW bound \in Nat, \A k \in T : k <= bound
  PROVE  \E m \in T : \A k \in T : k <= m
<1> DEFINE Distances == {d \in Nat : bound - d \in T}
<1>1. Distances # {}
  <2>1. PICK k \in T : k <= bound
    OBVIOUS
  <2>2. bound - k \in Nat /\ bound - (bound - k) = k
    BY <2>1
  <2>3. QED
    BY <2>2
<1>2. PICK d \in Distances : \A e \in Distances : d <= e
  BY <1>1, LeastOf
<1>3. ASSUME NEW k \in T PROVE k <= bound - d
  <2>1. bound - k \in Nat /\ bound - (bound - k) = k
    OBVIOUS
  <2>2. d <= bound - k
    BY <1>2, <2>1
  <2>3. QED
    BY <2>2
<1>4. QED
  BY <1>2, <1>3

\* Induction up to N, over the numbers for which something holds.
LEMMA InductionUpTo ==
  ASSUME NEW N \in Nat, NEW S, 0 \in S, \A n \in 1..N : n - 1 \in S => n \in S
  PROVE  0..N \subseteq S
<1> DEFINE Missing == {n \in Nat : n \in 0..N /\ n \notin S}
<1>1. SUFFICES ASSUME Missing # {} PROVE FALSE
  OBVIOUS
<1>2. PICK m \in Missing : \A k \in Missing : m <= k
  BY <1>1, LeastOf
<1>3. m \in 1..N /\ m - 1 \in Nat /\ m - 1 \in 0..N /\ ~ (m <= m - 1)
  BY <1>2
<1>4. m - 1 \in S
  BY <1>2, <1>3
<1>5. QED
  BY <1>2, <1>3, <1>4

\* Steps of a recursion over 0..N: step n makes a value of T from the one before.
Steps(N, T) == [1..N -> [T -> T]]

\* f starts with b and goes on as next says.
IsRecursion(f, N, T, b, next) ==
  f \in [0..N -> T] /\ f[0] = b /\ \A n \in 1..N : f[n] = next[n][f[n - 1]]

\* Functions defined by recursion exist.
LEMMA RecursionUpTo ==
  ASSUME NEW N \in Nat, NEW T, NEW b \in T, NEW next \in Steps(N, T)
  PROVE  \E f : IsRecursion(f, N, T, b, next)
<1> USE DEF Steps
<1> DEFINE Starts(f) == f[0] = b
           Follows(f, n) == f[n] = next[n][f[n - 1]]
           Upto(m) == \E f \in [0..m -> T] : Starts(f) /\ \A n \in 1..m : Follows(f, n)
           Good == {m \in 0..N : Upto(m)}
<1>1. Upto(0)
  <2>1. [k \in 0..0 |-> b] \in [0..0 -> T] /\ Starts([k \in 0..0 |-> b])
    OBVIOUS
  <2>2. \A n \in 1..0 : Follows([k \in 0..0 |-> b], n)
    OBVIOUS
  <2> HIDE DEF Starts, Follows
  <2>3. QED
    BY <2>1, <2>2
<1>2. ASSUME NEW m \in 1..N, Upto(m - 1) PROVE Upto(m)
  <2>1. PICK f \in [0..(m - 1) -> T] : Starts(f) /\ \A n \in 1..(m - 1) : Follows(f, n)
    BY <1>2
  <2> DEFINE g == [k \in 0..m |-> IF k = m THEN next[m][f[m - 1]] ELSE f[k]]
  <2>2. m - 1 \in 0..(m - 1) /\ \A k \in 0..m : k # m => k \in 0..(m - 1)
    OBVIOUS
  <2>3. f[m - 1] \in T /\ next[m][f[m - 1]] \in T
    BY <2>2
  <2>4. g \in [0..m -> T]
    BY <2>2, <2>3
  <2>5. g[m] = next[m][f[m - 1]] /\ \A k \in 0..(m - 1) : g[k] = f[k]
    OBVIOUS
  <2> HIDE DEF g
  <2>6. ASSUME NEW n \in 1..m PROVE Follows(g, n)
    <3>1. n - 1 \in 0..(m - 1) /\ g[n - 1] = f[n - 1]
      BY <2>5
    <3>2. CASE n = m
      BY <2>5, <3>1, <3>2
    <3>3. CASE n # m
      <4>1. n \in 1..(m - 1) /\ n \in 0..(m - 1)
        BY <3>3
      <4>2. QED
        BY <2>1, <2>5, <3>1, <4>1
    <3>4. QED
      BY <3>2, <3>3
  <2>7. Starts(g)
    BY <2>1, <2>5
  <2> HIDE DEF Starts, Follows
  <2>8. QED
    BY <2>4, <2>6, <2>7
<1>3. N \in Good
  <2>1. 0 \in Good
    BY <1>1
  <2>2. \A m \in 1..N : m - 1 \in Good => m \in Good
    <3> HIDE DEF Upto
    <3>1. QED
      BY <1>2
  <2> HIDE DEF Good
  <2>3. 0..N \subseteq Good
    BY <2>1, <2>2, InductionUpTo
  <2>4. QED
    BY <2>3
<1>4. QED
  BY <1>3 DEF IsRecursion

----------------------------------------------------------------------------
(* Division, multiples, and what is left when carries are put back. *)

\* The multiples of m.
Multiples(m) == {k * m : k \in Int}

\* Division with a rest.
LEMMA DivMod ==
  ASSUME NEW n \in Nat, NEW w \in Nat \ {0}
  PROVE  n \div w \in Nat /\ n % w \in Nat /\ n % w < w /\ n = (w * (n \div w)) + (n % w)
<1>1. n % w \in 0..(w - 1)
  OBVIOUS
<1>2. n \div w \in Int /\ n \div w >= 0
  OBVIOUS
<1>3. n = (w * (n \div w)) + (n % w)
  OBVIOUS
<1>4. QED
  BY <1>1, <1>2, <1>3

\* Sums and differences of multiples are multiples.
LEMMA MultiplesClosed ==
  ASSUME NEW m \in Int, NEW a \in Multiples(m), NEW b \in Multiples(m)
  PROVE  a \in Int /\ a + b \in Multiples(m) /\ a - b \in Multiples(m) /\ -a \in Multiples(m)
<1>1. PICK i \in Int : a = i * m
  BY DEF Multiples
<1>2. PICK j \in Int : b = j * m
  BY DEF Multiples
<1>3. i * m + j * m = (i + j) * m /\ i * m - j * m = (i - j) * m /\ -(i * m) = (-i) * m
  OBVIOUS
<1>4. a \in Int /\ i + j \in Int /\ i - j \in Int /\ -i \in Int
  BY <1>1
<1>5. QED
  BY <1>1, <1>2, <1>3, <1>4 DEF Multiples

\* Between -m and m, 0 is the only multiple of m.
LEMMA SmallMultiple ==
  ASSUME NEW m \in Nat, NEW a \in Multiples(m), -m < a, a < m
  PROVE  a = 0
<1>1. PICK i \in Int : a = i * m
  BY DEF Multiples
<1>2. i >= 1 => i * m >= m
  OBVIOUS
<1>3. i <= -1 => i * m <= -m
  OBVIOUS
<1>4. i = 0 => i * m = 0
  OBVIOUS
<1>5. QED
  BY <1>1, <1>2, <1>3, <1>4

\* r is n with the carries put back, modulo span - 1 and 0 only for 0.
Carries(n, r, span) == r \in 0..(span - 1) /\ n - r \in Multiples(span - 1) /\ (r = 0 <=> n = 0)

\* Putting the carry back once: the rest modulo span - 1 stays, and the number gets smaller.
LEMMA CarriedOnce ==
  ASSUME NEW span \in Nat, span > 1, NEW n \in Nat
  PROVE  /\ (n \div span) + (n % span) \in Nat
         /\ n - ((n \div span) + (n % span)) \in Multiples(span - 1)
         /\ n >= span => (n \div span) + (n % span) < n
         /\ (n \div span) + (n % span) = 0 <=> n = 0
<1> DEFINE q == n \div span
           r == n % span
<1>1. q \in Nat /\ r \in Nat /\ r < span /\ n = span * q + r
  BY DivMod
<1> HIDE DEF q, r
<1>2. n - (q + r) = q * (span - 1)
  BY <1>1
<1>3. n - (q + r) \in Multiples(span - 1)
  BY <1>1, <1>2 DEF Multiples
<1>4. n >= span => q >= 1
  <2>1. q = 0 => span * q = 0
    BY <1>1
  <2>2. QED
    BY <1>1, <2>1
<1>5. q >= 1 => q * (span - 1) >= 1
  BY <1>1
<1>6. q + r = 0 <=> n = 0
  <2>1. q = 0 => span * q = 0
    BY <1>1
  <2>2. q >= 1 => span * q >= 1
    BY <1>1
  <2>3. QED
    BY <1>1, <2>1, <2>2
<1>7. q + r \in Nat /\ (n >= span => q + r < n)
  BY <1>1, <1>2, <1>4, <1>5
<1>8. QED
  BY <1>3, <1>6, <1>7 DEF q, r

\* What is left of n is a number, and only one.
LEMMA CarriesOne ==
  ASSUME NEW span \in Nat, span > 1, NEW n \in Nat
  PROVE  /\ \E r \in 0..(span - 1) : Carries(n, r, span)
         /\ \A r, s : Carries(n, r, span) /\ Carries(n, s, span) => r = s
<1>1. \E r \in 0..(span - 1) : Carries(n, r, span)
  <2>1. CASE n = 0
    <3>1. 0 * (span - 1) = 0 /\ n - 0 = 0
      BY <2>1
    <3>2. QED
      BY <2>1, <3>1 DEF Carries, Multiples
  <2>2. CASE n > 0
    <3> DEFINE m == span - 1
               k == n - 1
               q == k \div m
               r == k % m
    <3>1. m \in Nat \ {0} /\ k \in Nat
      BY <2>2
    <3>2. q \in Nat /\ r \in Nat /\ r < m /\ k = m * q + r
      BY <3>1, DivMod
    <3> HIDE DEF q, r
    <3>3. n - (r + 1) = q * (span - 1) /\ r + 1 \in 0..(span - 1) /\ r + 1 # 0
      BY <3>1, <3>2
    <3>4. n - (r + 1) \in Multiples(span - 1)
      BY <3>2, <3>3 DEF Multiples
    <3>5. Carries(n, r + 1, span)
      BY <2>2, <3>3, <3>4 DEF Carries
    <3>6. QED
      BY <3>3, <3>5
  <2>3. QED
    BY <2>1, <2>2
<1>2. ASSUME NEW r, NEW s, Carries(n, r, span), Carries(n, s, span) PROVE r = s
  <2>1. /\ r \in 0..(span - 1) /\ s \in 0..(span - 1) /\ (r = 0 <=> s = 0)
        /\ n - r \in Multiples(span - 1) /\ n - s \in Multiples(span - 1)
    BY <1>2 DEF Carries
  <2>2. (n - s) - (n - r) \in Multiples(span - 1) /\ (n - s) - (n - r) = r - s
    <3>1. span - 1 \in Int
      OBVIOUS
    <3>2. (n - s) - (n - r) \in Multiples(span - 1)
      BY <2>1, <3>1, MultiplesClosed
    <3>3. (n - s) - (n - r) = r - s
      BY <2>1
    <3>4. QED
      BY <3>2, <3>3
  <2>3. span - 1 \in Nat /\ -(span - 1) < r - s /\ r - s < span - 1
    BY <2>1
  <2>4. r - s = 0
    BY <2>2, <2>3, SmallMultiple
  <2>5. QED
    BY <2>1, <2>4
<1>3. QED
  BY <1>1, <1>2

\* What is left of a number is what is left when the carry has been put back.
LEMMA CarriesStep ==
  ASSUME NEW span \in Nat, span > 1, NEW n \in Nat, NEW r
  PROVE  Carries((n \div span) + (n % span), r, span) <=> Carries(n, r, span)
<1> DEFINE m == (n \div span) + (n % span)
<1>1. m \in Nat /\ n - m \in Multiples(span - 1) /\ (m = 0 <=> n = 0)
  BY CarriedOnce
<1> HIDE DEF m
<1>2. ASSUME r \in 0..(span - 1) PROVE m - r \in Multiples(span - 1) <=> n - r \in Multiples(span - 1)
  <2>0. span - 1 \in Int
    OBVIOUS
  <2>1. m - r \in Multiples(span - 1) => (n - m) + (m - r) \in Multiples(span - 1)
    BY <1>1, <2>0, MultiplesClosed
  <2>2. n - r \in Multiples(span - 1) => (n - r) - (n - m) \in Multiples(span - 1)
    BY <1>1, <2>0, MultiplesClosed
  <2>3. (n - m) + (m - r) = n - r /\ (n - r) - (n - m) = m - r
    BY <1>1, <1>2
  <2>4. QED
    BY <2>1, <2>2, <2>3
<1>3. QED
  BY <1>1, <1>2 DEF Carries, m
=============================================================================
