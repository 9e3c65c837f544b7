------------------------ MODULE PacketizerH264Proofs ------------------------
(***************************************************************************)
(* What the packetizer does with a frame, for every set of frames, every   *)
(* maximal payload length and all limits that leave room.                  *)
(***************************************************************************)
EXTENDS PacketizerH264, FiniteSetTheorems, SequenceTheorems, WellFoundedInduction, TLAPS
-----------------------------------------------------------------------------
\* Induction along a loop, and the functions that loops are.

\* A set of naturals that is not empty has a smallest element.
LEMMA SmallestOf ==
  ASSUME NEW S \in SUBSET Nat, S # {}
  PROVE  \E n \in S : \A m \in S : n <= m
<1> DEFINE R == OpToRel(<, Nat)
<1>1. PICK t \in S : \A u \in S : ~ (<<u, t>> \in R)
  <2>1. IsWellFoundedOn(R, Nat)
    BY NatLessThanWellFounded
  <2> HIDE DEF R
  <2> QED BY <2>1, WFMin
<1>2. \A u \in S : ~ (u < t)
  BY <1>1 DEF OpToRel
<1> QED BY <1>2

\* What holds before the first round of a loop, and after each round when it
\* held before that round, holds at the end.
LEMMA AtTheEnd ==
  ASSUME NEW n \in Nat, NEW Good \in SUBSET (0 .. n), 0 \in Good,
         \A i \in 1 .. n : i - 1 \in Good => i \in Good
  PROVE  Good = 0 .. n
<1> SUFFICES ASSUME Good # 0 .. n PROVE FALSE
  OBVIOUS
<1> DEFINE Bad == (0 .. n) \ Good
<1>1. Bad \in SUBSET Nat /\ Bad # {}
  <2>1. Bad \in SUBSET Nat
    OBVIOUS
  <2>2. Bad # {}
    OBVIOUS
  <2> QED BY <2>1, <2>2
<1>2. PICK i \in Bad : \A j \in Bad : i <= j
  BY <1>1, SmallestOf
<1>3. i \in 1 .. n /\ i - 1 \in 0 .. n
  OBVIOUS
<1>4. i - 1 \notin Bad
  <2> HIDE DEF Bad
  <2> QED BY <1>1, <1>2, <1>3
<1> QED BY <1>3, <1>4

\* The states of a loop that begins with a, by the number of rounds.
IsRun(g, a, step, n) == \A i \in 0 .. n : g[i] = IF i = 0 THEN a ELSE step[<<g[i - 1], i>>]

\* A loop of n rounds over states in S has a run.
LEMMA LoopRuns ==
  ASSUME NEW S, NEW a \in S, NEW step \in [S \X Nat -> S], NEW n \in Nat
  PROVE  \E g \in [0 .. n -> S] : IsRun(g, a, step, n)
<1> SUFFICES \E g \in [0 .. n -> S] :
               \A i \in 0 .. n : g[i] = IF i = 0 THEN a ELSE step[<<g[i - 1], i>>]
  BY DEF IsRun
<1> DEFINE Run(m, g) == \A i \in 0 .. m : g[i] = IF i = 0 THEN a ELSE step[<<g[i - 1], i>>]
           Good == {m \in 0 .. n : \E g \in [0 .. m -> S] : Run(m, g)}
<1>1. 0 \in Good
  <2> DEFINE g == [i \in 0 .. 0 |-> a]
  <2>1. g \in [0 .. 0 -> S] /\ Run(0, g)
    OBVIOUS
  <2> HIDE DEF g, Run
  <2> QED BY <2>1
<1>2. ASSUME NEW m \in 1 .. n, m - 1 \in Good
      PROVE  m \in Good
  <2>1. PICK g \in [0 .. m - 1 -> S] : Run(m - 1, g)
    BY <1>2
  <2> DEFINE h == [i \in 0 .. m |-> IF i < m THEN g[i] ELSE step[<<g[m - 1], m>>]]
  <2>2. g[m - 1] \in S /\ <<g[m - 1], m>> \in S \X Nat
    OBVIOUS
  <2>3. h \in [0 .. m -> S]
    BY <2>2
  <2>4. ASSUME NEW i \in 0 .. m
        PROVE  h[i] = IF i = 0 THEN a ELSE step[<<h[i - 1], i>>]
    <3>1. CASE i < m
      <4>1. h[i] = g[i] /\ (i # 0 => h[i - 1] = g[i - 1]) /\ i \in 0 .. m - 1
        BY <3>1
      <4> HIDE DEF h
      <4> QED BY <2>1, <4>1
    <3>2. CASE i = m
      <4>1. h[m] = step[<<g[m - 1], m>>] /\ h[m - 1] = g[m - 1]
        OBVIOUS
      <4> HIDE DEF h
      <4> QED BY <3>2, <4>1
    <3> QED BY <3>1, <3>2
  <2>5. Run(m, h)
    <3> HIDE DEF h
    <3> QED BY <2>4
  <2> HIDE DEF h, Run
  <2> QED BY <2>3, <2>5
<1>3. Good = 0 .. n
  <2>1. Good \in SUBSET (0 .. n)
    OBVIOUS
  <2> HIDE DEF Good
  <2> QED BY <1>1, <1>2, <2>1, AtTheEnd
<1>4. n \in Good
  <2> HIDE DEF Good
  <2> QED BY <1>3
<1> QED BY <1>4

\* The function that Total sums along.
LEMMA TotalRuns ==
  ASSUME NEW f, NEW n \in Nat, \A k \in 1 .. n : f[k] \in Int
  PROVE  \E g \in [0 .. n -> Int] :
           /\ g[0] = 0 /\ \A i \in 1 .. n : g[i] = g[i - 1] + f[i]
           /\ Total(f, n) = g[n]
<1> DEFINE step == [x \in Int \X Nat |-> IF x[2] \in 1 .. n THEN x[1] + f[x[2]] ELSE 0]
           IsSum(g) == g = [k \in 0 .. n |-> IF k = 0 THEN 0 ELSE g[k - 1] + f[k]]
<1>1. step \in [Int \X Nat -> Int]
  OBVIOUS
<1>2. PICK g \in [0 .. n -> Int] :
        \A i \in 0 .. n : g[i] = IF i = 0 THEN 0 ELSE step[<<g[i - 1], i>>]
  <2>1. \E g \in [0 .. n -> Int] : IsRun(g, 0, step, n)
    <3>1. 0 \in Int
      OBVIOUS
    <3> HIDE DEF step
    <3> QED BY <1>1, <3>1, LoopRuns
  <2> HIDE DEF step
  <2> QED BY <2>1 DEF IsRun
<1>3. \A i \in 1 .. n : g[i] = g[i - 1] + f[i]
  <2> TAKE i \in 1 .. n
  <2>1. <<g[i - 1], i>> \in Int \X Nat /\ i - 1 \in 0 .. n
    OBVIOUS
  <2>2. step[<<g[i - 1], i>>] = g[i - 1] + f[i]
    BY <2>1
  <2>3. i \in 0 .. n /\ i # 0
    OBVIOUS
  <2> HIDE DEF step
  <2> QED BY <1>2, <2>2, <2>3
<1>4. g[0] = 0
  <2>1. 0 \in 0 .. n
    OBVIOUS
  <2> HIDE DEF step
  <2> QED BY <1>2, <2>1
<1>5. IsSum(g)
  <2>1. \A k \in 0 .. n : g[k] = IF k = 0 THEN 0 ELSE g[k - 1] + f[k]
    BY <1>3, <1>4
  <2> QED BY <2>1
<1> DEFINE c == CHOOSE h : IsSum(h)
<1>6. IsSum(c)
  <2> HIDE DEF IsSum
  <2> QED BY <1>5
<1>7. Total(f, n) = c[n]
  BY DEF Total
<1>8. c[0] = 0 /\ \A i \in 1 .. n : c[i] = c[i - 1] + f[i]
  <2> HIDE DEF c
  <2> QED BY <1>6
<1>9. \A i \in 0 .. n : c[i] = g[i]
  <2> HIDE DEF c
  <2> DEFINE Good == {i \in 0 .. n : c[i] = g[i]}
  <2>1. 0 \in Good /\ \A i \in 1 .. n : i - 1 \in Good => i \in Good
    BY <1>3, <1>4, <1>8
  <2>2. Good = 0 .. n
    <3>1. Good \in SUBSET (0 .. n)
      OBVIOUS
    <3> HIDE DEF Good
    <3> QED BY <2>1, <3>1, AtTheEnd
  <2> QED BY <2>2
<1> HIDE DEF c
<1> QED BY <1>3, <1>4, <1>7, <1>9


\* Total is a sum: it goes on by one summand at a time.
LEMMA TotalGrows ==
  ASSUME NEW f, NEW n \in Nat, \A k \in 1 .. n : f[k] \in Int
  PROVE  /\ Total(f, n) \in Int
         /\ n = 0 => Total(f, n) = 0
         /\ n > 0 => Total(f, n - 1) \in Int /\ Total(f, n) = Total(f, n - 1) + f[n]
<1>1. PICK g \in [0 .. n -> Int] :
        /\ g[0] = 0 /\ \A i \in 1 .. n : g[i] = g[i - 1] + f[i]
        /\ Total(f, n) = g[n]
  BY TotalRuns
<1>2. ASSUME n > 0
      PROVE  Total(f, n - 1) \in Int /\ Total(f, n) = Total(f, n - 1) + f[n]
  <2>1. n - 1 \in Nat /\ \A k \in 1 .. n - 1 : f[k] \in Int
    BY <1>2
  <2>2. PICK h \in [0 .. n - 1 -> Int] :
          /\ h[0] = 0 /\ \A i \in 1 .. n - 1 : h[i] = h[i - 1] + f[i]
          /\ Total(f, n - 1) = h[n - 1]
    BY <2>1, TotalRuns
  <2> DEFINE Good == {i \in 0 .. n - 1 : h[i] = g[i]}
  <2>3. 0 \in Good /\ \A i \in 1 .. n - 1 : i - 1 \in Good => i \in Good
    BY <1>1, <2>1, <2>2
  <2>4. Good = 0 .. n - 1
    <3>1. Good \in SUBSET (0 .. n - 1)
      OBVIOUS
    <3> HIDE DEF Good
    <3> QED BY <2>1, <2>3, <3>1, AtTheEnd
  <2>5. h[n - 1] = g[n - 1] /\ h[n - 1] \in Int
    <3>1. n - 1 \in 0 .. n - 1
      BY <2>1
    <3>2. n - 1 \in Good
      BY <2>4, <3>1
    <3> QED BY <3>1, <3>2
  <2>6. n \in 1 .. n
    BY <1>2
  <2> QED BY <1>1, <2>2, <2>5, <2>6
<1> QED BY <1>1, <1>2

\* It depends on nothing but the summands.
LEMMA TotalAgrees ==
  ASSUME NEW f, NEW g, NEW n \in Nat,
         \A k \in 1 .. n : f[k] \in Int /\ g[k] = f[k]
  PROVE  Total(g, n) = Total(f, n)
<1> DEFINE Good == {m \in 0 .. n : Total(g, m) = Total(f, m)}
<1>1. ASSUME NEW m \in 0 .. n
      PROVE  /\ m = 0 => Total(f, m) = 0 /\ Total(g, m) = 0
             /\ m > 0 => /\ Total(f, m) = Total(f, m - 1) + f[m]
                         /\ Total(g, m) = Total(g, m - 1) + g[m]
  <2>1. m \in Nat /\ (\A k \in 1 .. m : f[k] \in Int) /\ (\A k \in 1 .. m : g[k] \in Int)
    OBVIOUS
  <2>2. m = 0 => Total(f, m) = 0 /\ Total(g, m) = 0
    BY <2>1, TotalGrows
  <2>3. m > 0 => Total(f, m) = Total(f, m - 1) + f[m]
    BY <2>1, TotalGrows
  <2>4. m > 0 => Total(g, m) = Total(g, m - 1) + g[m]
    BY <2>1, TotalGrows
  <2> QED BY <2>2, <2>3, <2>4
<1>2. 0 \in Good
  BY <1>1
<1>3. ASSUME NEW m \in 1 .. n, m - 1 \in Good
      PROVE  m \in Good
  <2>1. g[m] = f[m] /\ m > 0 /\ m \in 0 .. n
    OBVIOUS
  <2>2. Total(g, m - 1) = Total(f, m - 1)
    BY <1>3
  <2>3. Total(g, m) = Total(f, m)
    BY <1>1, <2>1, <2>2
  <2> QED BY <2>1, <2>3
<1>4. Good = 0 .. n
  <2>1. Good \in SUBSET (0 .. n)
    OBVIOUS
  <2> HIDE DEF Good
  <2> QED BY <1>2, <1>3, <2>1, AtTheEnd
<1>5. n \in Good
  <2> HIDE DEF Good
  <2> QED BY <1>4
<1> QED BY <1>5

\* Summands that are not negative make sums that do not shrink.
LEMMA TotalRises ==
  ASSUME NEW f, NEW n \in Nat, \A k \in 1 .. n : f[k] \in Nat
  PROVE  \A m \in 0 .. n : Total(f, m) \in 0 .. Total(f, n)
<1> DEFINE Good == {j \in 0 .. n : \A m \in 0 .. j : Total(f, m) \in 0 .. Total(f, j)}
<1>1. ASSUME NEW m \in 0 .. n
      PROVE  /\ Total(f, m) \in Int
             /\ m = 0 => Total(f, m) = 0
             /\ m > 0 => Total(f, m - 1) \in Int /\ Total(f, m) = Total(f, m - 1) + f[m]
  <2>1. m \in Nat /\ \A k \in 1 .. m : f[k] \in Int
    OBVIOUS
  <2> QED BY <2>1, TotalGrows
<1>2. 0 \in Good
  BY <1>1
<1>3. ASSUME NEW j \in 1 .. n, j - 1 \in Good
      PROVE  j \in Good
  <2>1. \A m \in 0 .. j - 1 : Total(f, m) \in 0 .. Total(f, j - 1)
    BY <1>3
  <2>2. Total(f, j) = Total(f, j - 1) + f[j] /\ f[j] \in Nat /\ Total(f, j - 1) \in Int
    BY <1>1
  <2>3. 0 <= Total(f, j - 1)
    <3>1. j - 1 \in 0 .. j - 1
      OBVIOUS
    <3> QED BY <2>1, <3>1
  <2>4. ASSUME NEW m \in 0 .. j
        PROVE  Total(f, m) \in 0 .. Total(f, j)
    <3>1. CASE m = j
      BY <2>2, <2>3, <3>1
    <3>2. CASE m \in 0 .. j - 1
      BY <2>1, <2>2, <3>2
    <3> QED BY <3>1, <3>2
  <2> QED BY <2>4
<1>4. Good = 0 .. n
  <2>1. Good \in SUBSET (0 .. n)
    OBVIOUS
  <2> HIDE DEF Good
  <2> QED BY <1>2, <1>3, <2>1, AtTheEnd
<1>5. n \in Good
  <2> HIDE DEF Good
  <2> QED BY <1>4
<1> QED BY <1>5

\* A sum over a sequence grows by what is appended to it.
LEMMA TotalOfAppend ==
  ASSUME NEW s \in Seq(Int), NEW x \in Int
  PROVE  Total(Append(s, x), Len(s) + 1) = Total(s, Len(s)) + x
<1> DEFINE t == Append(s, x)
           n == Len(s)
<1>1. n \in Nat /\ \A k \in 1 .. n + 1 : t[k] = IF k = n + 1 THEN x ELSE s[k]
  OBVIOUS
<1>2. \A k \in 1 .. n : s[k] \in Int
  OBVIOUS
<1> HIDE DEF t, n
<1>3. (\A k \in 1 .. n + 1 : t[k] \in Int) /\ (\A k \in 1 .. n : s[k] \in Int /\ t[k] = s[k])
  BY <1>1, <1>2
<1>4. Total(t, n + 1) = Total(t, n) + t[n + 1]
  <2> DEFINE m == n + 1
  <2>1. m \in Nat /\ m > 0 /\ m - 1 = n
    BY <1>1
  <2>2. \A k \in 1 .. m : t[k] \in Int
    BY <1>3
  <2> HIDE DEF m
  <2>3. Total(t, m) = Total(t, m - 1) + t[m]
    BY <2>1, <2>2, TotalGrows
  <2> QED BY <2>1, <2>3 DEF m
<1>5. Total(t, n) = Total(s, n)
  BY <1>1, <1>3, TotalAgrees
<1>6. t[n + 1] = x
  BY <1>1
<1> QED BY <1>4, <1>5, <1>6 DEF t, n

-----------------------------------------------------------------------------
\* split_about_equally: the arithmetic of the sizes.

\* The names of SplitAboutEqually: n parts, the last total % n of them of one
\* byte more than total \div n.
SplitTotal(len, l) == len + l.first + l.last
Parts(len, l) == Max({2, (SplitTotal(len, l) + l.max - 1) \div l.max})
PartBytes(len, l, k) == SplitTotal(len, l) \div Parts(len, l)
                          + (IF k <= SplitTotal(len, l) % Parts(len, l) THEN 1 ELSE 0)

\* A factor that is not negative keeps an order.
LEMMA TimesRises ==
  ASSUME NEW a \in Int, NEW b \in Int, NEW c \in Nat, a <= b
  PROVE  c * a <= c * b
<1>1. (b - a) * c >= 0
  BY SMT
<1>2. (b - a) * c = c * b - c * a
  BY SMT
<1>3. c * a \in Int /\ c * b \in Int
  OBVIOUS
<1> QED BY <1>1, <1>2, <1>3

\* What the numbers of a split satisfy: the parts are as few as possible, but
\* for the two that are made in any case.
SplitNumbers(max, first, last, len, n, q, r) ==
  /\ max \in Nat /\ first \in Nat /\ last \in Nat /\ len \in Nat /\ n \in Nat /\ q \in Nat
  /\ r \in 0 .. n - 1
  /\ max - first >= 1 /\ max - last >= 1 /\ len >= n /\ n >= 2
  /\ len + first + last = n * q + r
  /\ len + first + last <= n * max
  /\ n > 2 => len + first + last > (n - 1) * max

\* No part is empty and none is larger than a packet.
LEMMA PartsFit ==
  ASSUME NEW max, NEW first, NEW last, NEW len, NEW n, NEW q, NEW r,
         SplitNumbers(max, first, last, len, n, q, r)
  PROVE  q >= 1 /\ q <= max /\ (q = max => r = 0)
<1> USE DEF SplitNumbers
<1>1. q >= 1
  <2> SUFFICES ASSUME q = 0 PROVE FALSE
    OBVIOUS
  <2>1. n * q = 0
    OBVIOUS
  <2> QED BY <2>1
<1>2. ASSUME q >= max + 1 PROVE FALSE
  <2>1. n * (max + 1) <= n * q
    BY <1>2, TimesRises
  <2>2. n * (max + 1) = n * max + n
    OBVIOUS
  <2>3. n * max \in Int /\ n * q \in Int
    OBVIOUS
  <2> QED BY <2>1, <2>2, <2>3
<1>3. q = max => r = 0
  <2>1. n * max \in Int /\ n * q \in Int
    OBVIOUS
  <2> QED BY <2>1
<1> QED BY <1>1, <1>2, <1>3

\* When the last two of three or more parts are due, they have a byte each at
\* least, whatever the first packet had to leave out and the last one leaves.
LEMMA TwoPartsLeft ==
  ASSUME NEW max, NEW first, NEW last, NEW len, NEW n, NEW q, NEW r, NEW m,
         SplitNumbers(max, first, last, len, n, q, r), n > 2,
         m = IF r >= 2 THEN 2 ELSE r
  PROVE  /\ 2 * q + m - last >= 2
         /\ q <= first + 1 => 3 * q + m - last - first - 1 >= 2
<1> USE DEF SplitNumbers
<1>0. m \in 0 .. 2 /\ n * q \in Int /\ n * max \in Int /\ n - 1 \in Nat
  OBVIOUS
<1>1. ASSUME 2 * q + m <= max PROVE FALSE
  <2>1. (n - 1) * (2 * q + m) <= (n - 1) * max
    BY <1>0, <1>1, TimesRises
  <2>2. (n - 1) * (2 * q + m) = 2 * (n * q) - 2 * q + n * m - m
    BY <1>0
  <2>3. n * q >= 3 * q
    <3>1. q * 3 <= q * n
      BY TimesRises
    <3> QED BY <3>1
  <2>4. n * q + r >= 2 * (n * q) - 2 * q + n * m - m + 1
    BY <1>0, <2>1, <2>2
  <2>5. CASE m = 0
    BY <1>0, <2>3, <2>4, <2>5
  <2>6. CASE m = 1
    <3>1. n * m = n
      BY <2>6
    <3> QED BY <1>0, <2>3, <2>4, <2>6, <3>1
  <2>7. CASE m = 2
    <3>1. n * m = 2 * n
      BY <2>7
    <3> QED BY <1>0, <2>3, <2>4, <2>7, <3>1
  <2> QED BY <1>0, <2>5, <2>6, <2>7
<1>2. ASSUME n > 3, 3 * q + m <= 2 * max PROVE FALSE
  <2>1. (n - 1) * (3 * q + m) <= (n - 1) * (2 * max)
    BY <1>0, <1>2, TimesRises
  <2>2. (n - 1) * (3 * q + m) = 3 * (n * q) - 3 * q + n * m - m
    BY <1>0
  <2>3. n * q >= 4 * q
    <3>1. q * 4 <= q * n
      BY <1>2, TimesRises
    <3> QED BY <3>1
  <2>4. (n - 1) * (2 * max) = 2 * ((n - 1) * max)
    BY <1>0
  <2>5. 2 * (n * q) + 2 * r >= 3 * (n * q) - 3 * q + n * m - m + 2
    BY <1>0, <2>1, <2>2, <2>4
  <2>6. CASE m = 0
    BY <1>0, <2>3, <2>5, <2>6
  <2>7. CASE m = 1
    <3>1. n * m = n
      BY <2>7
    <3> QED BY <1>0, <1>2, <2>3, <2>5, <2>7, <3>1
  <2>8. CASE m = 2
    <3>1. n * m = 2 * n
      BY <2>8
    <3> QED BY <1>0, <2>3, <2>5, <2>8, <3>1
  <2> QED BY <1>0, <2>6, <2>7, <2>8
<1>3. ASSUME n = 3 PROVE 3 * q + m - last - first - 1 >= 2
  <2>1. n * q = 3 * q /\ m = r
    BY <1>3
  <2> QED BY <1>0, <1>3, <2>1
<1>4. n > 3 => 3 * q + m - last - first - 1 >= 2
  BY <1>0, <1>2
<1> QED BY <1>0, <1>1, <1>3, <1>4


\* The smaller and the larger of two numbers.
LEMMA MinOfTwo ==
  ASSUME NEW a \in Int, NEW b \in Int
  PROVE  Min({a, b}) = IF a <= b THEN a ELSE b
<1> DEFINE c == IF a <= b THEN a ELSE b
<1>1. c \in {a, b} /\ \A y \in {a, b} : c <= y
  OBVIOUS
<1>2. ASSUME NEW x \in {a, b}, \A y \in {a, b} : x <= y
      PROVE  x = c
  BY <1>2
<1>3. Min({a, b}) \in {a, b} /\ \A y \in {a, b} : Min({a, b}) <= y
  <2> HIDE DEF c
  <2> QED BY <1>1 DEF Min
<1> HIDE DEF c
<1>4. Min({a, b}) = c
  BY <1>2, <1>3
<1> QED BY <1>4 DEF c

\* The larger of two numbers.
LEMMA MaxOfTwo ==
  ASSUME NEW a \in Int, NEW b \in Int
  PROVE  Max({a, b}) = IF a >= b THEN a ELSE b
<1> DEFINE c == IF a >= b THEN a ELSE b
<1>1. c \in {a, b} /\ \A y \in {a, b} : c >= y
  OBVIOUS
<1>2. ASSUME NEW x \in {a, b}, \A y \in {a, b} : x >= y
      PROVE  x = c
  BY <1>2
<1>3. Max({a, b}) \in {a, b} /\ \A y \in {a, b} : Max({a, b}) >= y
  <2> HIDE DEF c
  <2> QED BY <1>1 DEF Max
<1> HIDE DEF c
<1>4. Max({a, b}) = c
  BY <1>2, <1>3
<1> QED BY <1>4 DEF c

\* What limits are in the calculations; the FU-A header may have made max negative.
SplitLimits == [max : Int, first : Nat, last : Nat, single : Nat]
SplitStates == [sizes : Seq(Int), rest : Int]

\* Room for a byte in the first and in the last packet, and bytes for all.
HasRoom(len, l) ==
  l.max - l.first >= 1 /\ l.max - l.last >= 1 /\ len >= Parts(len, l)

SplitStep(acc, len, l, i) ==
  LET k == Parts(len, l) + 1 - i
      s == PacketSize(l, PartBytes(len, l, k), k, acc.rest, i = 1)
  IN  IF acc.rest = 0 THEN acc
      ELSE [sizes |-> Append(acc.sizes, s), rest |-> acc.rest - s]

\* The numbers of a split are those the arithmetic above speaks of.
LEMMA SplitHasNumbers ==
  ASSUME NEW l \in SplitLimits, NEW len \in Nat, HasRoom(len, l)
  PROVE  SplitNumbers(l.max, l.first, l.last, len, Parts(len, l),
                      SplitTotal(len, l) \div Parts(len, l),
                      SplitTotal(len, l) % Parts(len, l))
<1> DEFINE max == l.max
           T == SplitTotal(len, l)
           x == (T + max - 1) \div max
           n == Parts(len, l)
<1>1. max \in Int /\ l.first \in Nat /\ l.last \in Nat /\ T \in Nat /\ T = len + l.first + l.last
  BY DEF SplitLimits, SplitTotal
<1>2. max \in Nat /\ max >= 1 /\ max - l.first >= 1 /\ max - l.last >= 1 /\ len >= n
  BY <1>1 DEF HasRoom
<1>3. n = Max({2, x})
  BY DEF Parts
<1> HIDE DEF T, n, max
<1>4. T + max - 1 \in Nat
  BY <1>1, <1>2
<1>5. PICK y \in Int, z \in 0 .. max - 1 : y = x /\ T + max - 1 = max * y + z
  <2> DEFINE a == T + max - 1
  <2>1. a \div max \in Int /\ a % max \in 0 .. max - 1 /\ a = max * (a \div max) + (a % max)
    BY <1>2, <1>4
  <2> QED BY <2>1
<1> HIDE DEF x
<1>6. x \in Int /\ n = IF 2 >= x THEN 2 ELSE x
  BY <1>3, <1>5, MaxOfTwo
<1>7. n \in Nat /\ n >= 2
  BY <1>6
<1>8. T <= n * max
  <2>1. max * x <= max * n
    BY <1>2, <1>6, <1>7, TimesRises
  <2>2. max * x \in Int /\ max * n \in Int /\ max * n = n * max
    BY <1>2, <1>6, <1>7
  <2> QED BY <1>1, <1>2, <1>5, <2>1, <2>2
<1>9. n > 2 => T > (n - 1) * max
  <2>1. n > 2 => n = x /\ max * x = (n - 1) * max + max
    BY <1>2, <1>6, <1>7
  <2>2. max * x \in Int /\ (n - 1) * max \in Int
    BY <1>2, <1>6, <1>7
  <2> QED BY <1>1, <1>2, <1>5, <2>1, <2>2
<1>10. T \div n \in Nat /\ T % n \in 0 .. n - 1 /\ T = n * (T \div n) + (T % n)
  <2>1. T \div n \in Int /\ T % n \in 0 .. n - 1 /\ T = n * (T \div n) + (T % n)
    <3>1. T \in Int /\ n \in Int /\ n > 0
      BY <1>1, <1>7
    <3> QED BY <3>1
  <2>2. PICK q \in Int, r \in 0 .. n - 1 : q = T \div n /\ r = T % n /\ T = n * q + r
    BY <2>1
  <2>3. ASSUME q <= -1 PROVE FALSE
    <3>1. n * q <= n * (-1)
      BY <1>7, <2>3, TimesRises
    <3>2. n * (-1) = - n /\ n * q \in Int
      BY <1>7
    <3> QED BY <1>1, <1>7, <2>2, <3>1, <3>2
  <2>4. q \in Nat
    BY <2>3
  <2> QED BY <2>1, <2>2, <2>4
<1> QED
  <2>1. SplitNumbers(max, l.first, l.last, len, n, T \div n, T % n)
    BY <1>1, <1>2, <1>7, <1>8, <1>9, <1>10 DEF SplitNumbers
  <2> QED BY <2>1 DEF max, n, T

\* The size of a packet: what is wanted, unless less is left; and of two packets
\* the first one leaves a byte.
WantedSize(bytes, isFirst, first) ==
  IF ~ isFirst THEN bytes ELSE IF bytes > first + 1 THEN bytes - first ELSE 1
CutSize(wanted, k, rest) ==
  LET size == IF wanted <= rest THEN wanted ELSE rest
  IN  IF k = 2 /\ size = rest THEN size - 1 ELSE size

\* The size of one fragment of split_about_equally, without its folds over sets.
LEMMA PacketSizeIs ==
  ASSUME NEW l \in SplitLimits, NEW bytes \in Int, NEW k \in Int, NEW rest \in Int,
         NEW isFirst \in BOOLEAN
  PROVE  PacketSize(l, bytes, k, rest, isFirst)
           = CutSize(WantedSize(bytes, isFirst, l.first), k, rest)
<1> DEFINE wanted == IF ~ isFirst THEN bytes
                     ELSE IF bytes > l.first + 1 THEN bytes - l.first ELSE 1
           size == IF wanted <= rest THEN wanted ELSE rest
<1>1. wanted \in Int
  BY DEF SplitLimits
<1>2. Min({wanted, rest}) = size
  <2> HIDE DEF wanted
  <2> QED BY <1>1, MinOfTwo
<1>3. PacketSize(l, bytes, k, rest, isFirst)
        = IF k = 2 /\ Min({wanted, rest}) = rest THEN Min({wanted, rest}) - 1 ELSE Min({wanted, rest})
  BY DEF PacketSize
<1>4. CutSize(WantedSize(bytes, isFirst, l.first), k, rest)
        = IF k = 2 /\ size = rest THEN size - 1 ELSE size
  BY DEF CutSize, WantedSize
<1> QED BY <1>2, <1>3, <1>4

\* That size is a number.
LEMMA PacketSizeType ==
  ASSUME NEW l \in SplitLimits, NEW bytes \in Int, NEW k \in Int, NEW rest \in Int,
         NEW isFirst \in BOOLEAN
  PROVE  PacketSize(l, bytes, k, rest, isFirst) \in Int
<1>1. l.first \in Int
  BY DEF SplitLimits
<1>2. PacketSize(l, bytes, k, rest, isFirst)
        = CutSize(WantedSize(bytes, isFirst, l.first), k, rest)
  BY PacketSizeIs
<1> QED BY <1>1, <1>2 DEF CutSize, WantedSize

\* The loop of split_about_equally.
LEMMA SplitIsLoop ==
  ASSUME NEW l \in SplitLimits, NEW len \in Nat, HasRoom(len, l), l.max < l.single + len
  PROVE  \E g \in [0 .. Parts(len, l) -> SplitStates] :
           /\ g[0] = [sizes |-> <<>>, rest |-> len]
           /\ \A i \in 1 .. Parts(len, l) : g[i] = SplitStep(g[i - 1], len, l, i)
           /\ SplitAboutEqually(len, l) = g[Parts(len, l)].sizes
<1> DEFINE total == len + l.first + l.last
           n == Max({2, (total + l.max - 1) \div l.max})
           bytes(k) == total \div n + (IF k <= total % n THEN 1 ELSE 0)
           a == [sizes |-> <<>>, rest |-> len]
           Step(acc, i) ==
             LET k == n + 1 - i
                 s == PacketSize(l, bytes(k), k, acc.rest, i = 1)
             IN  IF acc.rest = 0 THEN acc
                 ELSE [sizes |-> Append(acc.sizes, s), rest |-> acc.rest - s]
           IsSplit(h) == h = [i \in 0 .. n |-> IF i = 0 THEN a ELSE Step(h[i - 1], i)]
           c == CHOOSE h : IsSplit(h)
           step == [x \in SplitStates \X Nat |-> IF x[2] \in 1 .. n THEN Step(x[1], x[2]) ELSE a]
<1>1. n = Parts(len, l) /\ \A k : bytes(k) = PartBytes(len, l, k)
  BY DEF Parts, PartBytes, SplitTotal
<1>2. n \in Nat /\ n >= 2 /\ total \div n \in Nat
  <2>1. SplitTotal(len, l) = total
    BY DEF SplitTotal
  <2> HIDE DEF n, total
  <2> QED BY <1>1, <2>1, SplitHasNumbers DEF SplitNumbers
<1>3. \A acc, i : Step(acc, i) = SplitStep(acc, len, l, i)
  BY DEF SplitStep, Parts, PartBytes, SplitTotal
<1>4. SplitAboutEqually(len, l) = c[n].sizes
  <2> DEFINE r == SplitAboutEqually(len, l)
  <2>1. r = IF l.max >= l.single + len THEN <<len>>
            ELSE IF l.max - l.first < 1 \/ l.max - l.last < 1 \/ len < n THEN <<>>
            ELSE c[n].sizes
    BY Zenon DEF SplitAboutEqually
  <2>2. ~ (l.max >= l.single + len)
    BY DEF SplitLimits
  <2>3. ~ (l.max - l.first < 1 \/ l.max - l.last < 1 \/ len < n)
    <3> HIDE DEF n
    <3> QED BY <1>1, <1>2 DEF HasRoom, SplitLimits
  <2> HIDE DEF r, c, n
  <2> QED BY <2>1, <2>2, <2>3 DEF r
<1> HIDE DEF n, total, c
<1>5. ASSUME NEW acc \in SplitStates, NEW i \in 1 .. n
      PROVE  Step(acc, i) \in SplitStates
  <2> DEFINE k == n + 1 - i
             s == PacketSize(l, bytes(k), k, acc.rest, i = 1)
  <2>1. k \in Int /\ bytes(k) \in Int /\ acc.rest \in Int /\ (i = 1) \in BOOLEAN
    BY <1>2 DEF SplitStates
  <2>2. s \in Int
    <3> HIDE DEF k, bytes
    <3> QED BY <2>1, PacketSizeType
  <2> HIDE DEF s
  <2>3. Step(acc, i) = IF acc.rest = 0 THEN acc
                       ELSE [sizes |-> Append(acc.sizes, s), rest |-> acc.rest - s]
    BY DEF s
  <2> HIDE DEF Step
  <2> QED BY <2>1, <2>2, <2>3 DEF SplitStates
<1>6. a \in SplitStates
  BY DEF SplitStates
<1> HIDE DEF Step
<1>7. step \in [SplitStates \X Nat -> SplitStates]
  BY <1>5, <1>6
<1>8. \E g \in [0 .. n -> SplitStates] : IsRun(g, a, step, n)
  <2> HIDE DEF step, a
  <2> QED BY <1>2, <1>6, <1>7, LoopRuns
<1>9. PICK g \in [0 .. n -> SplitStates] :
        \A i \in 0 .. n : g[i] = IF i = 0 THEN a ELSE step[<<g[i - 1], i>>]
  <2> HIDE DEF step, a
  <2> QED BY <1>8 DEF IsRun
<1>10. \A i \in 1 .. n : g[i] = Step(g[i - 1], i)
  <2> TAKE i \in 1 .. n
  <2>1. g[i - 1] \in SplitStates /\ <<g[i - 1], i>> \in SplitStates \X Nat
    <3>1. i - 1 \in 0 .. n /\ i \in Nat
      BY <1>2
    <3> QED BY <3>1
  <2>2. step[<<g[i - 1], i>>] = Step(g[i - 1], i)
    BY <2>1
  <2>3. i \in 0 .. n /\ i # 0
    BY <1>2
  <2> HIDE DEF step, a
  <2> QED BY <1>9, <2>2, <2>3
<1>11. g[0] = a
  <2>1. 0 \in 0 .. n
    BY <1>2
  <2> HIDE DEF step, a
  <2> QED BY <1>9, <2>1
<1>12. IsSplit(g)
  <2>1. \A i \in 0 .. n : g[i] = IF i = 0 THEN a ELSE Step(g[i - 1], i)
    <3> HIDE DEF a
    <3> QED BY <1>2, <1>10, <1>11
  <2> HIDE DEF a
  <2> QED BY <2>1
<1>13. IsSplit(c)
  <2> HIDE DEF IsSplit
  <2> QED BY <1>12 DEF c
<1>14. c[0] = a /\ \A i \in 1 .. n : c[i] = Step(c[i - 1], i)
  <2> HIDE DEF a
  <2>1. c = [i \in 0 .. n |-> IF i = 0 THEN a ELSE Step(c[i - 1], i)]
    BY <1>13
  <2> HIDE DEF IsSplit
  <2> QED BY <1>2, <2>1
<1>15. \A i \in 0 .. n : c[i] = g[i]
  <2> DEFINE Good == {i \in 0 .. n : c[i] = g[i]}
  <2>1. 0 \in Good
    <3> HIDE DEF a
    <3> QED BY <1>2, <1>11, <1>14
  <2>2. \A i \in 1 .. n : i - 1 \in Good => i \in Good
    <3> HIDE DEF a
    <3> QED BY <1>2, <1>10, <1>14
  <2>3. Good = 0 .. n
    <3>1. Good \in SUBSET (0 .. n)
      OBVIOUS
    <3> HIDE DEF Good
    <3> QED BY <1>2, <2>1, <2>2, <3>1, AtTheEnd
  <2> QED BY <2>3
<1>16. n \in 0 .. n
  BY <1>2
<1>17. SplitAboutEqually(len, l) = g[n].sizes
  BY <1>4, <1>15, <1>16
<1>18. \A i \in 1 .. n : g[i] = SplitStep(g[i - 1], len, l, i)
  BY <1>3, <1>10
<1> HIDE DEF a
<1> QED BY <1>1, <1>11, <1>17, <1>18 DEF a


\* What is left after i of the n packets: all parts still due, but for what the
\* last packet leaves out and what a first packet of one byte had too much; the
\* last packet takes all there is.
Least(a, b) == IF a <= b THEN a ELSE b
RestIs(x, i, max, first, last, len, n, q, r) ==
  /\ x \in Int
  /\ i = 0 => x = len
  /\ i \in 1 .. n - 2 => x = q * (n - i) + Least(n - i, r) - last
                               - (IF q <= first + 1 THEN first + 1 - q ELSE 0)
  /\ i = n - 1 => /\ x >= 1 /\ x <= q + Least(1, r) /\ x <= max - last
                  /\ first = 0 /\ last = 0 => x = q + Least(1, r)
  /\ i = n => x = 0

\* One round of the loop keeps that, and what it cuts off fits in its packet.
LEMMA NextRest ==
  ASSUME NEW max, NEW first, NEW last, NEW len, NEW n, NEW q, NEW r,
         SplitNumbers(max, first, last, len, n, q, r),
         NEW i \in 1 .. n, NEW x, RestIs(x, i - 1, max, first, last, len, n, q, r),
         NEW s, s = CutSize(WantedSize(q + (IF n + 1 - i <= r THEN 1 ELSE 0), i = 1, first),
                            n + 1 - i, x)
  PROVE  /\ x # 0 /\ RestIs(x - s, i, max, first, last, len, n, q, r)
         /\ s \in 1 .. max
         /\ i = 1 => s <= max - first
         /\ i = n => s <= max - last
         /\ first = 0 /\ last = 0 => s \in {q, q + 1}
<1> DEFINE e == IF q <= first + 1 THEN first + 1 - q ELSE 0
           m == Least(2, r)
           bytes == q + (IF n + 1 - i <= r THEN 1 ELSE 0)
           wanted == IF i # 1 THEN bytes ELSE IF bytes > first + 1 THEN bytes - first ELSE 1
           size == IF wanted <= x THEN wanted ELSE x
<1>0. s = IF n + 1 - i = 2 /\ size = x THEN size - 1 ELSE size
  BY DEF CutSize, WantedSize
<1>1. /\ max \in Nat /\ first \in Nat /\ last \in Nat /\ len \in Nat /\ n \in Nat /\ q \in Nat
      /\ r \in 0 .. n - 1 /\ max - first >= 1 /\ max - last >= 1 /\ len >= n /\ n >= 2
      /\ len + first + last = n * q + r
  BY DEF SplitNumbers
<1>2. q >= 1 /\ q <= max /\ (q = max => r = 0)
  BY PartsFit
<1>3. e \in Nat /\ (first = 0 => e = 0) /\ m \in 0 .. 2 /\ m <= r
  BY <1>1, <1>2 DEF Least
<1>4. n > 2 => 2 * q + m - last - e >= 2
  <2>1. m = IF r >= 2 THEN 2 ELSE r
    BY <1>1 DEF Least
  <2> HIDE DEF m
  <2> QED BY <1>1, <2>1, TwoPartsLeft
<1>5. \A j \in Int : n - j >= 2 => q * (n - j) >= 2 * q /\ q * (n - j) \in Int
  <2> TAKE j \in Int
  <2> HAVE n - j >= 2
  <2>1. q * 2 <= q * (n - j)
    BY <1>1, TimesRises
  <2> QED BY <1>1, <2>1
<1>6. \A j \in Int : q * (n - j + 1) = q * (n - j) + q
  BY <1>1
<1>7. x \in Int /\ bytes \in Int /\ wanted \in Int /\ size \in Int /\ s \in Int
  <2>1. x \in Int
    BY DEF RestIs
  <2> QED BY <1>0, <1>1, <2>1
<1>13. /\ i - 1 < n - 1 => x = IF i = 1 THEN len ELSE q * (n - i + 1) + Least(n - i + 1, r) - last - e
       /\ i = n => /\ x >= 1 /\ x <= q + Least(1, r) /\ x <= max - last
                   /\ first = 0 /\ last = 0 => x = q + Least(1, r)
  <2>1. n - (i - 1) = n - i + 1 /\ i - 1 \in Int
    BY <1>1
  <2>2. i # 1 /\ i - 1 < n - 1 => i - 1 \in 1 .. n - 2
    BY <1>1
  <2> QED BY <2>1, <2>2 DEF RestIs
<1>14. /\ bytes = q + (IF n + 1 - i <= r THEN 1 ELSE 0)
       /\ wanted = IF i # 1 THEN bytes ELSE IF bytes > first + 1 THEN bytes - first ELSE 1
       /\ size = IF wanted <= x THEN wanted ELSE x
  BY Zenon
<1> USE <1>0, <1>13, <1>14
<1> HIDE DEF bytes, wanted, size
<1>8. CASE n = 2 /\ i = 1
  <2>1. x = len /\ bytes = q /\ n * q = 2 * q
    BY <1>1, <1>8
  <2>2. wanted >= 1 /\ wanted <= max - first /\ wanted <= max /\ wanted <= q
    BY <1>1, <1>2, <1>8, <2>1
  <2>3. s >= 1 /\ s <= wanted /\ x - s >= 1
    BY <1>1, <1>7, <1>8, <2>1, <2>2
  <2>4. x - s <= q + Least(1, r) /\ x - s <= max - last
    BY <1>1, <1>2, <1>7, <1>8, <2>1, <2>2 DEF Least
  <2>5. first = 0 /\ last = 0 => x - s = q + Least(1, r) /\ s = q
    BY <1>1, <1>2, <1>7, <1>8, <2>1, <2>2 DEF Least
  <2> QED BY <1>1, <1>7, <1>8, <2>1, <2>2, <2>3, <2>4, <2>5 DEF RestIs
<1>9. CASE n > 2 /\ i = 1
  <2>1. x = len /\ bytes = q /\ wanted = q - first + e
    BY <1>1, <1>2, <1>9
  <2>2. n * q = q * (n - 1) + q /\ q * (n - 1) >= 2 * q /\ q * (n - 1) \in Int /\ n * q \in Int
    BY <1>1, <1>5, <1>6, <1>9
  <2>3. x - wanted = q * (n - 1) + r - last - e
    BY <1>1, <1>3, <2>1, <2>2
  <2>4. x - wanted >= 2
    BY <1>1, <1>3, <1>4, <1>9, <2>2, <2>3
  <2>5. wanted >= 1 /\ wanted <= max - first /\ wanted <= max
    BY <1>1, <1>2, <1>9, <2>1
  <2>6. s = wanted /\ x # 0
    BY <1>7, <1>9, <1>1, <2>1, <2>4
  <2>7. Least(n - 1, r) = r
    BY <1>1 DEF Least
  <2>8. RestIs(x - s, i, max, first, last, len, n, q, r)
    <3>1. x - s = q * (n - i) + Least(n - i, r) - last - e
      BY <1>9, <2>3, <2>6, <2>7
    <3> QED BY <1>1, <1>7, <1>9, <3>1 DEF RestIs
  <2>9. first = 0 /\ last = 0 => s = q
    BY <1>1, <1>3, <2>1, <2>6
  <2> QED BY <1>1, <1>7, <1>9, <2>5, <2>6, <2>8, <2>9
<1>10. CASE i \in 2 .. n - 2
  <2>1. x = q * (n - i + 1) + Least(n - i + 1, r) - last - e /\ wanted = bytes
    BY <1>1, <1>10
  <2>2. Least(n - i + 1, r) - (IF n + 1 - i <= r THEN 1 ELSE 0) = Least(n - i, r)
    BY <1>1, <1>10 DEF Least
  <2>3. q * (n - i + 1) = q * (n - i) + q /\ q * (n - i) >= 2 * q /\ q * (n - i) \in Int
    BY <1>1, <1>5, <1>6, <1>10
  <2>4. x - wanted = q * (n - i) + Least(n - i, r) - last - e
    <3>1. Least(n - i + 1, r) \in Int /\ Least(n - i, r) \in Int
      BY <1>1 DEF Least
    <3> QED BY <1>1, <1>3, <2>1, <2>2, <2>3, <3>1
  <2>5. Least(n - i, r) >= m /\ Least(n - i, r) \in Int
    BY <1>1, <1>10 DEF Least
  <2>6. x - wanted >= 2
    BY <1>1, <1>3, <1>4, <1>10, <2>3, <2>4, <2>5
  <2>7. s = wanted /\ x # 0 /\ s >= 1 /\ s <= max
    BY <1>1, <1>2, <1>7, <1>10, <2>1, <2>6
  <2>8. RestIs(x - s, i, max, first, last, len, n, q, r)
    BY <1>1, <1>7, <1>10, <2>4, <2>7 DEF RestIs
  <2> QED BY <1>1, <1>10, <2>1, <2>7, <2>8
<1>11. CASE n > 2 /\ i = n - 1
  <2>1. n - i + 1 = 2 /\ n + 1 - i = 2
    BY <1>1, <1>11
  <2>2. x = 2 * q + m - last - e /\ wanted = bytes /\ bytes = q + (IF 2 <= r THEN 1 ELSE 0)
    <3>1. x = q * 2 + m - last - e
      BY <1>1, <1>11, <2>1
    <3> QED BY <1>1, <1>11, <2>1, <3>1
  <2>3. x >= 2
    BY <1>4, <1>11, <2>2
  <2>4. wanted >= 1 /\ wanted <= max
    BY <1>1, <1>2, <2>2
  <2>5. s >= 1 /\ s <= max /\ x - s >= 1
    BY <1>1, <1>7, <2>1, <2>3, <2>4
  <2>6. m - (IF 2 <= r THEN 1 ELSE 0) = Least(1, r)
    BY <1>1 DEF Least
  <2>7. Least(1, r) \in 0 .. 1 /\ q + Least(1, r) <= max
    BY <1>1, <1>2 DEF Least
  <2>8. x - s <= q + Least(1, r) /\ x - s <= max - last
    <3>1. CASE wanted < x
      <4>1. s = wanted
        BY <1>7, <3>1
      <4>2. x - s = q + Least(1, r) - last - e
        <5> DEFINE d == IF 2 <= r THEN 1 ELSE 0
        <5>1. d \in Int /\ m - d = Least(1, r) /\ bytes = q + d
          BY <2>2, <2>6
        <5>2. x = 2 * q + m - last - e /\ wanted = bytes
          BY <2>2
        <5>3. e \in Nat /\ last \in Nat /\ q \in Int /\ m \in Int
          BY <1>1, <1>3
        <5> HIDE DEF d, m, e
        <5> QED BY ONLY <2>7, <4>1, <5>1, <5>2, <5>3
      <4>3. e \in Nat /\ last \in Nat /\ q \in Int /\ max \in Int
        BY <1>1, <1>3
      <4> HIDE DEF e, m
      <4> QED BY ONLY <2>7, <4>2, <4>3
    <3>2. CASE wanted >= x
      <4>1. x - s = 1
        BY <1>7, <2>1, <3>2
      <4> QED BY <1>1, <1>2, <2>7, <4>1
    <3> QED BY <1>7, <3>1, <3>2
  <2>9. first = 0 /\ last = 0 => x - s = q + Least(1, r) /\ s \in {q, q + 1}
    <3> SUFFICES ASSUME first = 0, last = 0 PROVE x - s = q + Least(1, r) /\ s \in {q, q + 1}
      OBVIOUS
    <3>1. e = 0 /\ x = 2 * q + m
      BY <1>1, <1>3, <2>2
    <3>2. x - wanted = q + Least(1, r)
      BY <1>1, <1>3, <2>2, <2>6, <2>7, <3>1
    <3>3. s = wanted
      BY <1>1, <1>2, <1>7, <2>7, <3>2
    <3> QED BY <1>1, <2>2, <3>2, <3>3
  <2> QED BY <1>1, <1>7, <1>11, <2>3, <2>5, <2>8, <2>9 DEF RestIs
<1>12. CASE i = n
  <2>1. n + 1 - i = 1 /\ wanted = bytes /\ bytes = q + Least(1, r)
    BY <1>1, <1>12 DEF Least
  <2>2. s = x /\ x # 0 /\ x <= max
    BY <1>1, <1>7, <1>12, <2>1
  <2>3. Least(1, r) \in 0 .. 1
    BY <1>1 DEF Least
  <2> QED BY <1>1, <1>7, <1>12, <2>1, <2>2, <2>3 DEF RestIs
<1> QED BY <1>1, <1>8, <1>9, <1>10, <1>11, <1>12


\* The sizes of a NAL unit that is split: two at least, none empty, none larger
\* than a packet, the first and the last one with room to spare, and all bytes
\* in one of them.  Without room to spare they differ by a byte at most.
IsSplitOf(sizes, len, l) ==
  /\ sizes \in Seq(Nat \ {0}) /\ Len(sizes) >= 2
  /\ Total(sizes, Len(sizes)) = len
  /\ \A k \in 1 .. Len(sizes) : sizes[k] <= l.max
  /\ sizes[1] <= l.max - l.first /\ sizes[Len(sizes)] <= l.max - l.last
  /\ l.first = 0 /\ l.last = 0 =>
       \A j, k \in 1 .. Len(sizes) : sizes[j] - sizes[k] \in {-1, 0, 1}

\* split_about_equally makes such sizes whenever there is room, in every round
\* of its loop.
LEMMA SplitMakes ==
  ASSUME NEW l \in SplitLimits, NEW len \in Nat, HasRoom(len, l), l.max < l.single + len
  PROVE  IsSplitOf(SplitAboutEqually(len, l), len, l)
<1> DEFINE n == Parts(len, l)
           q == SplitTotal(len, l) \div Parts(len, l)
           r == SplitTotal(len, l) % Parts(len, l)
           Numbers == SplitNumbers(l.max, l.first, l.last, len, n, q, r)
           Rest(x, i) == RestIs(x, i, l.max, l.first, l.last, len, n, q, r)
<1>1. Numbers
  BY SplitHasNumbers
<1>2. PICK g \in [0 .. Parts(len, l) -> SplitStates] :
        /\ g[0] = [sizes |-> <<>>, rest |-> len]
        /\ \A i \in 1 .. Parts(len, l) : g[i] = SplitStep(g[i - 1], len, l, i)
        /\ SplitAboutEqually(len, l) = g[Parts(len, l)].sizes
  BY SplitIsLoop
<1>3. \A k : PartBytes(len, l, k) = q + (IF k <= r THEN 1 ELSE 0)
  BY DEF PartBytes
<1>4. /\ n \in Nat /\ n >= 2 /\ q \in Nat /\ r \in Nat
      /\ l.max \in Nat /\ l.first \in Nat /\ l.last \in Nat
  BY <1>1 DEF SplitNumbers
<1>5. \A i \in 0 .. n : g[i] \in SplitStates
  BY <1>2
<1>6. SplitAboutEqually(len, l) = g[n].sizes
  BY <1>2
<1>7. \A i \in 1 .. n : g[i] = SplitStep(g[i - 1], len, l, i)
  BY <1>2
<1> DEFINE Fits(s, i) == /\ s \in 1 .. l.max
                         /\ i = 1 => s <= l.max - l.first
                         /\ i = n => s <= l.max - l.last
                         /\ l.first = 0 /\ l.last = 0 => s \in {q, q + 1}
           Done(acc, i) == /\ Rest(acc.rest, i)
                           /\ Len(acc.sizes) = i
                           /\ Total(acc.sizes, i) + acc.rest = len
                           /\ \A k \in 1 .. i : Fits(acc.sizes[k], k)
           Good == {i \in 0 .. n : Done(g[i], i)}
<1>8. 0 \in Good
  <2>1. g[0].rest = len /\ g[0].sizes = <<>> /\ 0 \in 0 .. n
    BY <1>2, <1>4
  <2>2. Rest(len, 0)
    BY <1>4 DEF RestIs
  <2>3. Total(<<>>, 0) = 0
    <3>1. \A k \in 1 .. 0 : <<>>[k] \in Int
      OBVIOUS
    <3> QED BY <3>1, TotalGrows
  <2>4. Done(g[0], 0)
    <3>1. \A k \in 1 .. 0 : Fits(<<>>[k], k)
      OBVIOUS
    <3> HIDE DEF Fits, Rest
    <3> QED BY <2>1, <2>2, <2>3, <3>1
  <2> HIDE DEF Done
  <2> QED BY <2>1, <2>4
<1>9. ASSUME NEW i \in 1 .. n, i - 1 \in Good
      PROVE  i \in Good
  <2> DEFINE acc == g[i - 1]
             x == acc.rest
             bytes == q + (IF n + 1 - i <= r THEN 1 ELSE 0)
             s == CutSize(WantedSize(bytes, i = 1, l.first), n + 1 - i, x)
  <2>1. acc \in SplitStates /\ Done(acc, i - 1)
    BY <1>5, <1>9
  <2>2. x \in Int /\ acc.sizes \in Seq(Int)
    <3> HIDE DEF acc
    <3> QED BY <2>1 DEF SplitStates
  <2>3. Rest(x, i - 1)
    BY <2>1
  <2>4. /\ x # 0 /\ Rest(x - s, i)
        /\ s \in 1 .. l.max
        /\ i = 1 => s <= l.max - l.first
        /\ i = n => s <= l.max - l.last
        /\ l.first = 0 /\ l.last = 0 => s \in {q, q + 1}
    <3>1. Numbers /\ Rest(x, i - 1)
      BY <1>1, <2>3
    <3> HIDE DEF x, acc, n, q, r
    <3> QED BY <3>1, NextRest
  <2>5. g[i] = [sizes |-> Append(acc.sizes, s), rest |-> x - s]
    <3>1. g[i] = SplitStep(acc, len, l, i)
      BY <1>7
    <3>2. PacketSize(l, bytes, n + 1 - i, x, i = 1) = s
      <4> DEFINE by == bytes
                 k == n + 1 - i
      <4>1. by \in Int /\ k \in Int /\ (i = 1) \in BOOLEAN
        BY <1>4
      <4> DEFINE one == i = 1
      <4>2. PacketSize(l, by, k, x, i = 1) = CutSize(WantedSize(by, i = 1, l.first), k, x)
        <5>1. x \in Int /\ one \in BOOLEAN
          BY <2>2
        <5> HIDE DEF by, k, x, one
        <5>2. PacketSize(l, by, k, x, one) = CutSize(WantedSize(by, one, l.first), k, x)
          BY <4>1, <5>1, PacketSizeIs
        <5> QED BY <5>2 DEF one
      <4> QED BY <4>2
    <3>3. PartBytes(len, l, n + 1 - i) = bytes
      <4> HIDE DEF n, q, r
      <4> QED BY <1>3
    <3>4. SplitStep(acc, len, l, i)
            = IF x = 0 THEN acc
              ELSE [sizes |-> Append(acc.sizes, PacketSize(l, PartBytes(len, l, n + 1 - i), n + 1 - i, x, i = 1)),
                    rest |-> x - PacketSize(l, PartBytes(len, l, n + 1 - i), n + 1 - i, x, i = 1)]
      BY DEF SplitStep
    <3> HIDE DEF acc, x, s, bytes, n
    <3> QED BY <2>4, <3>1, <3>2, <3>3, <3>4
  <2> DEFINE new == Append(acc.sizes, s)
  <2>6. s \in Int /\ Len(acc.sizes) = i - 1 /\ Total(acc.sizes, i - 1) + x = len
    <3>1. s \in Int
      <4> HIDE DEF s
      <4> QED BY <1>4, <2>4
    <3> HIDE DEF s, Rest, Fits, acc
    <3> QED BY <2>1, <3>1
  <2>7. Len(new) = i /\ Total(new, i) = Total(acc.sizes, i - 1) + s
    <3> HIDE DEF s, x, acc
    <3>1. Len(new) = i
      BY <2>2, <2>6
    <3>2. Len(acc.sizes) + 1 = i
      BY <2>6
    <3> QED BY <2>2, <2>6, <3>1, <3>2, TotalOfAppend
  <2>8. \A k \in 1 .. i : new[k] = IF k = i THEN s ELSE acc.sizes[k]
    <3> HIDE DEF s, x, acc
    <3> QED BY <2>2, <2>6
  <2>9. Fits(s, i)
    <3> HIDE DEF s, x, acc
    <3> QED BY <2>4
  <2>10. \A k \in 1 .. i : Fits(new[k], k)
    <3>1. \A k \in 1 .. i - 1 : Fits(acc.sizes[k], k)
      BY <2>1
    <3> HIDE DEF s, acc, new, Fits
    <3> QED BY <2>8, <2>9, <3>1
  <2>11. Total(acc.sizes, i - 1) \in Int
    <3>1. i - 1 \in Nat /\ \A k \in 1 .. i - 1 : acc.sizes[k] \in Int
      <4> HIDE DEF s, x, acc
      <4> QED BY <2>2, <2>6
    <3> HIDE DEF s, x, acc
    <3> QED BY <3>1, TotalGrows
  <2>12. Done(g[i], i)
    <3>1. g[i].sizes = new /\ g[i].rest = x - s
      <4> HIDE DEF acc, s, x
      <4> QED BY <2>5
    <3>2. Total(new, i) + (x - s) = len
      <4> HIDE DEF acc, s, x, new
      <4> QED BY <2>2, <2>6, <2>7, <2>11
    <3> HIDE DEF acc, s, x, new, Fits, Rest
    <3> QED BY <2>4, <2>7, <2>10, <3>1, <3>2
  <2> HIDE DEF Done
  <2> QED BY <1>4, <2>12
<1>10. Good = 0 .. n
  <2>1. Good \in SUBSET (0 .. n)
    OBVIOUS
  <2> HIDE DEF Good, n
  <2> QED BY <1>4, <1>8, <1>9, <2>1, AtTheEnd
<1>11. Done(g[n], n)
  <2>1. n \in Good
    <3> HIDE DEF Good
    <3> QED BY <1>4, <1>10
  <2> QED BY <2>1
<1> DEFINE sizes == g[n].sizes
<1>12. sizes \in Seq(Int) /\ Len(sizes) = n /\ g[n].rest = 0
  <2>1. g[n] \in SplitStates
    BY <1>4, <1>5
  <2>2. g[n].rest = 0
    BY <1>4, <1>11 DEF RestIs
  <2>3. Len(g[n].sizes) = n
    BY <1>11
  <2> HIDE DEF n
  <2> QED BY <2>1, <2>2, <2>3 DEF SplitStates
<1>13. \A k \in 1 .. n : Fits(sizes[k], k)
  BY <1>11
<1>14. Total(sizes, n) = len
  <2>1. Total(sizes, n) + g[n].rest = len
    BY <1>11
  <2>2. Total(sizes, n) \in Int
    <3>1. \A k \in 1 .. n : sizes[k] \in Int
      <4> HIDE DEF sizes, n
      <4> QED BY <1>12
    <3> HIDE DEF sizes, n
    <3> QED BY <1>4, <3>1, TotalGrows
  <2> HIDE DEF sizes, n
  <2> QED BY <1>12, <2>1, <2>2
<1>15. IsSplitOf(sizes, len, l)
  <2> HIDE DEF sizes, n, q, r
  <2>1. sizes \in Seq(Nat \ {0})
    <3>1. sizes = [k \in 1 .. n |-> sizes[k]]
      BY <1>12
    <3>2. \A k \in 1 .. n : sizes[k] \in Nat \ {0}
      BY <1>4, <1>13
    <3>3. \A i \in 1 .. Len(sizes) : sizes[i] \in Nat \ {0}
      BY <1>12, <3>2
    <3> QED BY <1>12, <3>3
  <2>2. \A k \in 1 .. n : sizes[k] <= l.max
    BY <1>4, <1>13
  <2>3. sizes[1] <= l.max - l.first /\ sizes[n] <= l.max - l.last
    BY <1>4, <1>13
  <2>4. ASSUME l.first = 0, l.last = 0, NEW j \in 1 .. n, NEW k \in 1 .. n
        PROVE  sizes[j] - sizes[k] \in {-1, 0, 1}
    <3>1. sizes[j] \in {q, q + 1} /\ sizes[k] \in {q, q + 1}
      BY <1>13, <2>4
    <3> QED BY <1>4, <3>1
  <2> QED BY <1>4, <1>12, <1>14, <2>1, <2>2, <2>3, <2>4 DEF IsSplitOf
<1> HIDE DEF n
<1> QED BY <1>6, <1>15 DEF sizes


\* Without room there are no sizes.
LEMMA SplitMakesNone ==
  ASSUME NEW l \in SplitLimits, NEW len \in Nat, ~ HasRoom(len, l), l.max < l.single + len
  PROVE  SplitAboutEqually(len, l) = <<>>
<1> DEFINE total == len + l.first + l.last
           n == Max({2, (total + l.max - 1) \div l.max})
           bytes(k) == total \div n + (IF k <= total % n THEN 1 ELSE 0)
           a == [sizes |-> <<>>, rest |-> len]
           Step(acc, i) ==
             LET k == n + 1 - i
                 s == PacketSize(l, bytes(k), k, acc.rest, i = 1)
             IN  IF acc.rest = 0 THEN acc
                 ELSE [sizes |-> Append(acc.sizes, s), rest |-> acc.rest - s]
           c == CHOOSE h : h = [i \in 0 .. n |-> IF i = 0 THEN a ELSE Step(h[i - 1], i)]
           r == SplitAboutEqually(len, l)
<1>1. r = IF l.max >= l.single + len THEN <<len>>
          ELSE IF l.max - l.first < 1 \/ l.max - l.last < 1 \/ len < n THEN <<>>
          ELSE c[n].sizes
  BY Zenon DEF SplitAboutEqually
<1>2. ~ (l.max >= l.single + len)
  BY DEF SplitLimits
<1>3. l.max - l.first < 1 \/ l.max - l.last < 1 \/ len < n
  <2>1. SUFFICES ASSUME l.max - l.first >= 1, l.max - l.last >= 1 PROVE len < n
    BY DEF SplitLimits
  <2>2. n = Parts(len, l) /\ ~ (len >= Parts(len, l))
    BY <2>1 DEF Parts, SplitTotal, HasRoom
  <2>3. (total + l.max - 1) \div l.max \in Int
    <3>1. total + l.max - 1 \in Int /\ l.max \in Int /\ l.max > 0
      BY <2>1 DEF SplitLimits
    <3> HIDE DEF total
    <3> QED BY <3>1
  <2>4. n \in Int
    <3> DEFINE x == (total + l.max - 1) \div l.max
    <3> HIDE DEF x
    <3> QED BY <2>3, MaxOfTwo DEF x
  <2> HIDE DEF n
  <2> QED BY <2>2, <2>4
<1> HIDE DEF r, n, c
<1> QED BY <1>1, <1>2, <1>3 DEF r
-----------------------------------------------------------------------------
\* The NAL units of a frame.

Nalus == Seq(Nat \ {0})

\* Every NAL unit that is found has a header byte.
LEMMA FoundNalusType ==
  ASSUME NEW f \in Frames
  PROVE  /\ FoundNalus(f) \in Nalus
         /\ Len(FoundNalus(f)) <= Len(f)
         /\ Len(f) <= MaxNalus /\ Findable(f, Len(f)) =>
              FoundNalus(f) = [k \in 1 .. Len(f) |-> f[k].len]
<1> DEFINE S == {k \in DOMAIN f : Findable(f, k)}
           n == Min({MaxNalus, Cardinality(S)})
           g == [k \in 1 .. Len(f) - n |-> f[n + k].code + f[n + k].len]
           rest == Total(g, Len(f) - n)
<1>1. f \in Seq([code : {3, 4}, len : Nat \ {0}])
  BY FramesAssumption
<1>2. Len(f) \in Nat /\ DOMAIN f = 1 .. Len(f)
      /\ \A k \in 1 .. Len(f) : f[k].code \in Nat /\ f[k].len \in Nat \ {0}
  <2>1. ASSUME NEW k \in 1 .. Len(f)
        PROVE  f[k].code \in Nat /\ f[k].len \in Nat \ {0}
    <3> DEFINE T == [code : {3, 4}, len : Nat \ {0}]
    <3>1. f[k] \in T
      <4>1. f \in Seq(T)
        BY <1>1
      <4> HIDE DEF T
      <4> QED BY <4>1
    <3> QED BY <3>1
  <2> QED BY <1>1, <2>1
<1>3. IsFiniteSet(1 .. Len(f)) /\ Cardinality(1 .. Len(f)) = Len(f)
  BY <1>2, FS_Interval
<1>4. Cardinality(S) \in Nat /\ Cardinality(S) <= Len(f)
  <2>1. S \subseteq 1 .. Len(f)
    BY <1>2
  <2>2. IsFiniteSet(S)
    BY <1>3, <2>1, FS_Subset
  <2> QED BY <1>3, <2>1, <2>2, FS_Subset, FS_CardinalityType
<1>5. n \in 0 .. Len(f) /\ n <= Cardinality(S) /\ (Cardinality(S) <= MaxNalus => n = Cardinality(S))
  <2> HIDE DEF S
  <2>1. MaxNalus \in Int /\ MaxNalus >= 0
    BY SizeAssumption
  <2>2. n = IF MaxNalus <= Cardinality(S) THEN MaxNalus ELSE Cardinality(S)
    BY <1>4, <2>1, MinOfTwo
  <2> HIDE DEF n
  <2> QED BY <1>2, <1>4, <2>1, <2>2
<1>6. FoundNalus(f) = [k \in 1 .. n |-> IF k = n THEN f[k].len + rest ELSE f[k].len]
  BY DEF FoundNalus
<1> HIDE DEF n
<1>7. rest \in Nat
  <2>1. Len(f) - n \in Nat
    BY <1>2, <1>5
  <2>2. \A k \in 1 .. Len(f) - n : g[k] \in Nat
    <3> TAKE k \in 1 .. Len(f) - n
    <3>1. n + k \in 1 .. Len(f)
      BY <1>2, <1>5
    <3> QED BY <1>2, <3>1
  <2> HIDE DEF g
  <2>3. \A m \in 0 .. Len(f) - n : Total(g, m) \in 0 .. Total(g, Len(f) - n)
    BY <2>1, <2>2, TotalRises
  <2>4. Total(g, Len(f) - n) \in Int
    BY <2>1, <2>2, TotalGrows
  <2> QED BY <2>1, <2>3, <2>4
<1>8. n = Len(f) => rest = 0
  <2> SUFFICES ASSUME n = Len(f) PROVE rest = 0
    OBVIOUS
  <2> HIDE DEF g
  <2> DEFINE d == Len(f) - n
  <2>1. d = 0
    BY <1>2, <1>5
  <2>2. \A k \in 1 .. d : g[k] \in Int
    BY <2>1
  <2> HIDE DEF d
  <2>3. Total(g, d) = 0
    BY <2>1, <2>2, TotalGrows
  <2> QED BY <2>3 DEF d
<1> HIDE DEF rest
<1>9. ASSUME NEW k \in 1 .. n
      PROVE  (IF k = n THEN f[k].len + rest ELSE f[k].len) \in Nat \ {0}
  <2>1. k \in 1 .. Len(f)
    BY <1>2, <1>5
  <2> QED BY <1>2, <1>7, <2>1
<1>10. FoundNalus(f) \in Nalus /\ Len(FoundNalus(f)) = n
  BY <1>2, <1>5, <1>6, <1>9 DEF Nalus
<1>11. ASSUME Len(f) <= MaxNalus, Findable(f, Len(f))
       PROVE  FoundNalus(f) = [k \in 1 .. Len(f) |-> f[k].len]
  <2>1. S = 1 .. Len(f)
    BY <1>2, <1>11 DEF Findable
  <2>2. n = Len(f)
    <3> HIDE DEF S
    <3> QED BY <1>3, <1>5, <1>11, <2>1
  <2>3. rest = 0
    BY <1>8, <2>2
  <2>4. \A k \in 1 .. n : (IF k = n THEN f[k].len + rest ELSE f[k].len) = f[k].len
    <3> TAKE k \in 1 .. n
    <3>1. f[k].len \in Int
      BY <1>2, <2>2
    <3>2. f[k].len + rest = f[k].len
      BY <2>3, <3>1
    <3> QED BY <3>2
  <2>5. [k \in 1 .. n |-> IF k = n THEN f[k].len + rest ELSE f[k].len]
          = [k \in 1 .. n |-> f[k].len]
    BY <2>4
  <2>6. [k \in 1 .. n |-> f[k].len] = [k \in 1 .. Len(f) |-> f[k].len]
    BY <2>2
  <2> QED BY <1>6, <2>5, <2>6, Zenon
<1>12. Len(f) <= MaxNalus /\ Findable(f, Len(f)) =>
         FoundNalus(f) = [k \in 1 .. Len(f) |-> f[k].len]
  BY <1>11
<1>13. Len(FoundNalus(f)) <= Len(f)
  BY <1>2, <1>5, <1>10
<1> QED BY <1>10, <1>12, <1>13

-----------------------------------------------------------------------------
\* The packet units of one NAL unit, and of several that share a packet.

UnitSet == [unit : [nalu : Nat, from : Nat, len : Nat],
            first : BOOLEAN, last : BOOLEAN, aggregated : BOOLEAN]
Units == Seq(UnitSet)

\* A function on 1 .. n is a sequence.
LEMMA SequenceOf ==
  ASSUME NEW T, NEW n \in Nat, NEW s, s = [k \in 1 .. n |-> s[k]], \A k \in 1 .. n : s[k] \in T
  PROVE  s \in Seq(T) /\ Len(s) = n
<1>1. s \in [1 .. n -> T]
  OBVIOUS
<1>2. s \in Seq(T)
  BY <1>1
<1> QED BY <1>1, <1>2

\* A packet unit with its data.
LEMMA PacketUnitType ==
  ASSUME NEW i \in Nat, NEW from \in Nat, NEW len \in Nat,
         NEW a \in BOOLEAN, NEW b \in BOOLEAN, NEW c \in BOOLEAN
  PROVE  PacketUnit(i, from, len, a, b, c) \in UnitSet
BY DEF PacketUnit, UnitSet

\* The fragments follow one another from the first byte after the header on.
LEMMA FragmentsAre ==
  ASSUME NEW i \in Nat, NEW sizes \in Seq(Nat)
  PROVE  /\ Fragments(i, sizes) \in Units
         /\ Len(Fragments(i, sizes)) = Len(sizes)
         /\ \A k \in 1 .. Len(sizes) :
              /\ Fragments(i, sizes)[k]
                   = PacketUnit(i, NalHeader + Total(sizes, k - 1), sizes[k],
                                k = 1, k = Len(sizes), FALSE)
              /\ Total(sizes, k - 1) \in Nat
<1> DEFINE F == Fragments(i, sizes)
<1>1. Len(sizes) \in Nat /\ DOMAIN sizes = 1 .. Len(sizes)
      /\ \A k \in 1 .. Len(sizes) : sizes[k] \in Nat
  OBVIOUS
<1>2. F = [k \in 1 .. Len(sizes) |->
             PacketUnit(i, NalHeader + Total(sizes, k - 1), sizes[k],
                        k = 1, k = Len(sizes), FALSE)]
  BY <1>1 DEF Fragments
<1>3. ASSUME NEW k \in 1 .. Len(sizes)
      PROVE  Total(sizes, k - 1) \in Nat
  <2>1. k - 1 \in 0 .. Len(sizes)
    BY <1>1
  <2>2. Total(sizes, Len(sizes)) \in Int
    BY <1>1, TotalGrows
  <2>3. Total(sizes, k - 1) \in 0 .. Total(sizes, Len(sizes))
    BY <1>1, <2>1, TotalRises
  <2> QED BY <2>2, <2>3
<1>4. ASSUME NEW k \in 1 .. Len(sizes)
      PROVE  PacketUnit(i, NalHeader + Total(sizes, k - 1), sizes[k],
                        k = 1, k = Len(sizes), FALSE) \in UnitSet
  <2>1. NalHeader + Total(sizes, k - 1) \in Nat /\ sizes[k] \in Nat
    BY <1>1, <1>3 DEF NalHeader
  <2>2. (k = 1) \in BOOLEAN /\ (k = Len(sizes)) \in BOOLEAN /\ FALSE \in BOOLEAN
    OBVIOUS
  <2> QED BY <2>1, <2>2, PacketUnitType
<1> HIDE DEF F
<1>5. F \in Units /\ Len(F) = Len(sizes)
  <2>1. F = [k \in 1 .. Len(sizes) |-> F[k]] /\ \A k \in 1 .. Len(sizes) : F[k] \in UnitSet
    BY <1>2, <1>4
  <2> QED BY <1>1, <2>1, SequenceOf DEF Units
<1> QED BY <1>2, <1>3, <1>5 DEF F

\* The NAL units of a packet are whole, and in their order.
IsAggregate(A, ns, i, j) ==
  /\ A \in Units /\ Len(A) = j - i + 1
  /\ \A k \in 1 .. j - i + 1 :
       A[k] = PacketUnit(i + k - 1, 0, ns[i + k - 1], k = 1, i + k - 1 = j, TRUE)

\* packetize_StapA makes such units.
LEMMA AggregateIs ==
  ASSUME NEW ns \in Nalus, NEW i \in 1 .. Len(ns), NEW j \in i - 1 .. Len(ns)
  PROVE  IsAggregate(Aggregate(ns, i, j), ns, i, j)
<1> DEFINE A == Aggregate(ns, i, j)
           n == j - i + 1
<1>1. n \in Nat /\ \A k \in 1 .. n : i + k - 1 \in 1 .. Len(ns)
  BY DEF Nalus
<1>2. A = [k \in 1 .. n |-> PacketUnit(i + k - 1, 0, ns[i + k - 1], k = 1, i + k - 1 = j, TRUE)]
  BY DEF Aggregate
<1>3. ASSUME NEW k \in 1 .. n
      PROVE  PacketUnit(i + k - 1, 0, ns[i + k - 1], k = 1, i + k - 1 = j, TRUE) \in UnitSet
  <2>1. i + k - 1 \in 1 .. Len(ns)
    BY <1>1
  <2>2. i + k - 1 \in Nat /\ ns[i + k - 1] \in Nat
    BY <2>1 DEF Nalus
  <2>3. (k = 1) \in BOOLEAN /\ (i + k - 1 = j) \in BOOLEAN /\ TRUE \in BOOLEAN /\ 0 \in Nat
    OBVIOUS
  <2> QED BY <2>2, <2>3, PacketUnitType
<1> HIDE DEF A, n
<1>4. A \in Units /\ Len(A) = n
  <2>1. A = [k \in 1 .. n |-> A[k]] /\ \A k \in 1 .. n : A[k] \in UnitSet
    BY <1>2, <1>3
  <2> QED BY <1>1, <2>1, SequenceOf DEF Units
<1>5. /\ A \in Units /\ Len(A) = n
      /\ \A k \in 1 .. n :
           A[k] = PacketUnit(i + k - 1, 0, ns[i + k - 1], k = 1, i + k - 1 = j, TRUE)
  BY <1>2, <1>4
<1>6. IsAggregate(A, ns, i, j)
  BY <1>5 DEF n, IsAggregate
<1> QED BY <1>6 DEF A

\* A set of integers between two bounds has a largest element.
LEMMA LargestOf ==
  ASSUME NEW a \in Int, NEW b \in Int, NEW S \in SUBSET (a .. b), S # {}
  PROVE  Max(S) \in S /\ \A y \in S : Max(S) >= y
<1> DEFINE D == {b - x : x \in S}
<1>1. D \in SUBSET Nat /\ D # {}
  OBVIOUS
<1>2. PICK d \in D : \A m \in D : d <= m
  <2> HIDE DEF D
  <2> QED BY <1>1, SmallestOf
<1>3. PICK x \in S : d = b - x
  OBVIOUS
<1>4. \A y \in S : x >= y
  <2> TAKE y \in S
  <2>1. b - y \in D /\ x \in Int /\ y \in Int
    OBVIOUS
  <2> HIDE DEF D
  <2> QED BY <1>2, <1>3, <2>1
<1>5. \E x2 \in S : \A y \in S : x2 >= y
  BY <1>4
<1> QED BY <1>5 DEF Max

\* The limits of a frame, and those of the fragments of one NAL unit.
LEMMA LimitsAre ==
  ASSUME NEW l \in AllLimits, NEW i \in Nat, NEW n \in Nat
  PROVE  /\ l.max = MaxPayload /\ MaxPayload \in Nat
         /\ l.first \in Nat /\ l.last \in Nat /\ l.single \in Nat
         /\ FuALimits(l, i, n) \in SplitLimits
<1>1. l \in Limits /\ l.max = MaxPayload /\ MaxPayload \in Nat
  BY LimitsAssumption, SizeAssumption
<1>2. l.first \in Nat /\ l.last \in Nat /\ l.single \in Nat
  BY <1>1 DEF Limits
<1> QED BY <1>1, <1>2 DEF FuALimits, SplitLimits, FuAHeader

\* What a packet of one NAL unit can hold is a number.
LEMMA CapacityType ==
  ASSUME NEW l \in AllLimits, NEW i \in Nat, NEW n \in Nat
  PROVE  SinglePacketCapacity(l, i, n) \in Int
<1>1. MaxPayload \in Nat /\ l.first \in Nat /\ l.last \in Nat /\ l.single \in Nat
  BY LimitsAre
<1> QED BY <1>1 DEF SinglePacketCapacity

\* A NAL unit that does not fit in its packet is not sent in one piece.
LEMMA FuANeverSingle ==
  ASSUME NEW l \in AllLimits, NEW n \in Nat, NEW i \in 1 .. n, NEW len \in Nat,
         len > SinglePacketCapacity(l, i, n)
  PROVE  FuALimits(l, i, n).max < FuALimits(l, i, n).single + (len - NalHeader)
<1>1. l.max = MaxPayload /\ MaxPayload \in Nat /\ l.first \in Nat /\ l.last \in Nat /\ l.single \in Nat
  BY LimitsAre
<1> QED BY <1>1 DEF FuALimits, SinglePacketCapacity, FuAHeader, NalHeader

\* The sizes of its fragments are none, or those of a split.
FragmentSizes(ns, l, i) == SplitAboutEqually(ns[i] - NalHeader, FuALimits(l, i, Len(ns)))
\* They are the sizes of a split, and there are none only where the limits leave no room.
LEMMA FragmentSizesAre ==
  ASSUME NEW l \in AllLimits, NEW ns \in Nalus, NEW i \in 1 .. Len(ns),
         ns[i] > SinglePacketCapacity(l, i, Len(ns))
  PROVE  /\ FragmentSizes(ns, l, i) \in Seq(Nat)
         /\ FragmentSizes(ns, l, i) # <<>> =>
              IsSplitOf(FragmentSizes(ns, l, i), ns[i] - NalHeader, FuALimits(l, i, Len(ns)))
         /\ FragmentSizes(ns, l, i) = <<>> =>
              ~ HasRoom(ns[i] - NalHeader, FuALimits(l, i, Len(ns)))
<1> DEFINE sizes == FragmentSizes(ns, l, i)
           L == FuALimits(l, i, Len(ns))
           len == ns[i] - NalHeader
<1>1. ns[i] \in Nat \ {0} /\ len \in Nat /\ Len(ns) \in Nat /\ i \in Nat
  BY DEF Nalus, NalHeader
<1>2. L \in SplitLimits
  BY <1>1, LimitsAre
<1>3. L.max < L.single + len
  BY <1>1, FuANeverSingle
<1>4. sizes = SplitAboutEqually(len, L)
  BY DEF FragmentSizes
<1> HIDE DEF sizes, L, len
<1>5. CASE HasRoom(len, L)
  <2>1. IsSplitOf(sizes, len, L)
    BY <1>1, <1>2, <1>3, <1>4, <1>5, SplitMakes
  <2>2. sizes \in Seq(Nat) /\ Len(sizes) >= 2
    BY <2>1 DEF IsSplitOf
  <2>3. sizes # <<>>
    BY <2>2
  <2> QED BY <2>1, <2>2, <2>3 DEF sizes, L, len
<1>6. CASE ~ HasRoom(len, L)
  <2>1. sizes = <<>>
    BY <1>1, <1>2, <1>3, <1>4, <1>6, SplitMakesNone
  <2> QED BY <1>6, <2>1 DEF sizes, L, len
<1> QED BY <1>5, <1>6

\* A NAL unit that fits in its packet fits in what packetize_StapA makes of it.
LEMMA FirstFits ==
  ASSUME NEW l \in AllLimits, NEW ns \in Nalus, NEW i \in 1 .. Len(ns),
         ns[i] <= SinglePacketCapacity(l, i, Len(ns))
  PROVE  /\ FitsUpTo(ns, l, i, i)
         /\ StapACapacity(l, i, Len(ns)) \in Int
         /\ SinglePacketCapacity(l, i, Len(ns)) <= StapACapacity(l, i, Len(ns))
<1>1. ns[i] \in Nat /\ Len(ns) \in Nat /\ Len(ns) >= i
  BY DEF Nalus
<1>2. l.max = MaxPayload /\ MaxPayload \in Nat /\ l.first \in Nat /\ l.last \in Nat /\ l.single \in Nat
  BY <1>1, LimitsAre
<1> DEFINE f == [m \in 1 .. i - i + 1 |-> ns[i + m - 1] + AggregateHeaders(i, i + m - 1)]
           d == i - i + 1
<1>3. d = 1 /\ f[1] = ns[i]
  <2>1. AggregateHeaders(i, i) = 0
    BY DEF AggregateHeaders
  <2>2. 1 \in 1 .. i - i + 1 /\ i + 1 - 1 = i
    OBVIOUS
  <2> QED BY <1>1, <2>1, <2>2
<1> HIDE DEF f
<1>4. Total(f, 1) = ns[i]
  <2>1. \A k \in 1 .. 1 : f[k] \in Int
    BY <1>1, <1>3
  <2>2. \A k \in 1 .. 0 : f[k] \in Int
    OBVIOUS
  <2>3. Total(f, 0) = 0
    BY <2>2, TotalGrows
  <2>4. Total(f, 1) = Total(f, 1 - 1) + f[1]
    BY <2>1, TotalGrows
  <2> QED BY <1>1, <1>3, <2>3, <2>4
<1>5. Total(f, d) = ns[i]
  BY <1>3, <1>4
<1> HIDE DEF d
<1>6. ns[i] + (IF i = Len(ns) /\ i # 1 THEN l.last ELSE 0) <= StapACapacity(l, i, Len(ns))
  BY <1>1, <1>2 DEF StapACapacity, SinglePacketCapacity
<1>7. FitsUpTo(ns, l, i, i)
  BY <1>5, <1>6 DEF FitsUpTo, f, d
<1> QED BY <1>1, <1>2, <1>7 DEF StapACapacity, SinglePacketCapacity

\* The last NAL unit that shares a packet: all up to it fit together.
LEMMA LastAggregatedIs ==
  ASSUME NEW ns \in Nalus, NEW l, NEW i \in 1 .. Len(ns)
  PROVE  /\ LastAggregated(ns, l, i) \in i - 1 .. Len(ns)
         /\ \A k \in i .. LastAggregated(ns, l, i) : FitsUpTo(ns, l, i, k)
         /\ FitsUpTo(ns, l, i, i) => LastAggregated(ns, l, i) >= i
<1> DEFINE C == {k \in i .. Len(ns) : \A m \in i .. k : FitsUpTo(ns, l, i, m)}
           S == {i - 1} \cup C
<1>1. Len(ns) \in Nat /\ i \in Int
  BY DEF Nalus
<1>2. S \in SUBSET (i - 1 .. Len(ns)) /\ S # {}
  BY <1>1
<1>3. LastAggregated(ns, l, i) = Max(S)
  BY DEF LastAggregated
<1>4. Max(S) \in S /\ \A y \in S : Max(S) >= y
  <2>1. i - 1 \in Int /\ Len(ns) \in Int
    BY <1>1
  <2> HIDE DEF S
  <2> QED BY <1>2, <2>1, LargestOf
<1> DEFINE j == Max(S)
<1>5. j \in i - 1 .. Len(ns) /\ (j = i - 1 \/ j \in C)
  <2>1. j \in S
    BY <1>4
  <2> HIDE DEF j
  <2> QED BY <1>2, <2>1
<1> HIDE DEF j
<1>6. \A k \in i .. j : FitsUpTo(ns, l, i, k)
  <2>1. CASE j = i - 1
    BY <1>1, <2>1
  <2>2. CASE j \in C
    BY <2>2
  <2> QED BY <1>5, <2>1, <2>2
<1>7. ASSUME FitsUpTo(ns, l, i, i)
      PROVE  j >= i
  <2>1. i \in C
    <3>1. \A m \in i .. i : m = i
      BY <1>1
    <3> QED BY <1>1, <1>7, <3>1
  <2> QED BY <1>4, <2>1 DEF j
<1> QED BY <1>3, <1>5, <1>6, <1>7 DEF j

-----------------------------------------------------------------------------
\* What packets_ looks like.

\* Unit q comes after unit p: in the next packet, in the same packet, or as the
\* next fragment of the same NAL unit.
Follows(p, q) ==
  \/ p.last /\ q.first /\ q.unit.nalu = p.unit.nalu + 1
  \/ /\ p.aggregated /\ q.aggregated /\ ~ p.last /\ ~ q.first
     /\ q.unit.nalu = p.unit.nalu + 1
  \/ /\ ~ p.aggregated /\ ~ q.aggregated /\ ~ p.last /\ ~ q.first
     /\ q.unit.nalu = p.unit.nalu /\ q.unit.from = p.unit.from + p.unit.len

\* An aggregated unit is a whole NAL unit; a fragment is a part of one, from the
\* byte after its header to its last byte, that leaves the room it has to.
UnitFits(p, ns, l) ==
  /\ p.unit.nalu \in 1 .. Len(ns)
  /\ p.aggregated => p.unit.from = 0 /\ p.unit.len = ns[p.unit.nalu]
  /\ ~ p.aggregated =>
       /\ ~ (p.first /\ p.last)
       /\ p.first => p.unit.from = NalHeader
       /\ p.last => p.unit.from + p.unit.len = ns[p.unit.nalu]
       /\ FuAHeader + p.unit.len <= l.max - (IF p.first /\ p.unit.nalu = 1 THEN l.first ELSE 0)
       /\ FuAHeader + p.unit.len
            <= l.max - (IF p.last /\ p.unit.nalu = Len(ns) THEN l.last ELSE 0)

\* Units a .. b share a packet, and what shares a packet fits in it.
IsGroup(P, a, b) ==
  /\ a \in 1 .. Len(P) /\ b \in a .. Len(P)
  /\ P[a].aggregated /\ P[a].first /\ P[b].last /\ \A k \in a .. b - 1 : ~ P[k].last
GroupsFit(P, ns, l) ==
  \A a, b \in 1 .. Len(P) : IsGroup(P, a, b) => FitsUpTo(ns, l, P[a].unit.nalu, P[b].unit.nalu)

\* The fragments of a NAL unit differ by a byte at most.
EvenUnits(p, q) ==
  ~ p.aggregated /\ ~ q.aggregated /\ p.unit.nalu = q.unit.nalu
    => p.unit.len - q.unit.len \in {-1, 0, 1}
EvenFragments(P, l) ==
  l.first = 0 /\ l.last = 0 => \A j, k \in 1 .. Len(P) : EvenUnits(P[j], P[k])

Chain(P, ns, l) ==
  /\ P \in Units
  /\ \A k \in 1 .. Len(P) : UnitFits(P[k], ns, l)
  /\ \A k \in 1 .. Len(P) - 1 : Follows(P[k], P[k + 1])
  /\ GroupsFit(P, ns, l)
  /\ EvenFragments(P, l)

\* The units of the packets for NAL units a .. b.
Piece(P, a, b, ns, l) ==
  /\ Chain(P, ns, l) /\ P # <<>>
  /\ P[1].first /\ P[1].unit.nalu = a
  /\ P[Len(P)].last /\ P[Len(P)].unit.nalu = b

\* Units, as the lemmas below use them.
LEMMA UnitsAre ==
  ASSUME NEW P \in Units
  PROVE  /\ Len(P) \in Nat /\ DOMAIN P = 1 .. Len(P)
         /\ P # <<>> <=> Len(P) >= 1
         /\ \A k \in 1 .. Len(P) :
              /\ P[k].unit.nalu \in Nat /\ P[k].unit.from \in Nat /\ P[k].unit.len \in Nat
              /\ P[k].first \in BOOLEAN /\ P[k].last \in BOOLEAN /\ P[k].aggregated \in BOOLEAN
<1>1. P \in Seq(UnitSet)
  BY DEF Units
<1>2. \A k \in 1 .. Len(P) : P[k] \in UnitSet
  BY <1>1
<1>3. Len(P) \in Nat /\ DOMAIN P = 1 .. Len(P) /\ (P # <<>> <=> Len(P) >= 1)
  BY <1>1
<1>4. ASSUME NEW k \in 1 .. Len(P)
      PROVE  /\ P[k].unit.nalu \in Nat /\ P[k].unit.from \in Nat /\ P[k].unit.len \in Nat
             /\ P[k].first \in BOOLEAN /\ P[k].last \in BOOLEAN /\ P[k].aggregated \in BOOLEAN
  BY <1>2, <1>4 DEF UnitSet
<1> QED BY <1>3, <1>4

\* Along a chain the NAL units come in order and none is left out.
LEMMA ChainCovers ==
  ASSUME NEW ns, NEW l, NEW P, Chain(P, ns, l), NEW j \in 1 .. Len(P)
  PROVE  /\ {P[k].unit.nalu : k \in 1 .. j} = P[1].unit.nalu .. P[j].unit.nalu
         /\ P[1].unit.nalu <= P[j].unit.nalu
<1> DEFINE u(k) == P[k].unit.nalu
           Good == {m \in 0 .. Len(P) - 1 : /\ {u(k) : k \in 1 .. m + 1} = u(1) .. u(m + 1)
                                            /\ u(1) <= u(m + 1)}
<1>1. P \in Units /\ \A k \in 1 .. Len(P) - 1 : Follows(P[k], P[k + 1])
  BY DEF Chain
<1>2. Len(P) \in Nat /\ Len(P) - 1 \in Nat /\ \A k \in 1 .. Len(P) : u(k) \in Nat
  BY <1>1, UnitsAre
<1>3. \A k \in 1 .. Len(P) - 1 : u(k + 1) = u(k) \/ u(k + 1) = u(k) + 1
  BY <1>1 DEF Follows
<1> HIDE DEF u
<1>4. 0 \in Good
  <2>1. u(1) \in Nat /\ 0 + 1 = 1
    BY <1>2
  <2>2. {u(k) : k \in 1 .. 1} = u(1) .. u(1)
    BY <2>1
  <2> QED BY <1>2, <2>1, <2>2
<1>5. ASSUME NEW m \in 1 .. Len(P) - 1, m - 1 \in Good
      PROVE  m \in Good
  <2>1. {u(k) : k \in 1 .. m} = u(1) .. u(m) /\ u(1) <= u(m)
    <3>1. m - 1 + 1 = m
      OBVIOUS
    <3> QED BY <1>5, <3>1
  <2>2. u(1) \in Nat /\ u(m) \in Nat /\ u(m + 1) \in Nat /\ m \in 1 .. m
    BY <1>2
  <2>3. u(m + 1) = u(m) \/ u(m + 1) = u(m) + 1
    BY <1>3
  <2>4. 1 .. m + 1 = (1 .. m) \cup {m + 1}
    OBVIOUS
  <2>5. {u(k) : k \in 1 .. m + 1} = {u(k) : k \in 1 .. m} \cup {u(m + 1)}
    BY <2>4
  <2>6. (u(1) .. u(m)) \cup {u(m + 1)} = u(1) .. u(m + 1)
    BY <2>1, <2>2, <2>3
  <2>7. {u(k) : k \in 1 .. m + 1} = u(1) .. u(m + 1)
    BY <2>1, <2>5, <2>6
  <2>8. u(1) <= u(m + 1)
    BY <2>1, <2>2, <2>3
  <2>9. m \in 0 .. Len(P) - 1
    OBVIOUS
  <2> QED BY <2>7, <2>8, <2>9
<1>6. Good = 0 .. Len(P) - 1
  <2>1. Good \in SUBSET (0 .. Len(P) - 1)
    OBVIOUS
  <2> HIDE DEF Good
  <2> QED BY <1>2, <1>4, <1>5, <2>1, AtTheEnd
<1>7. j - 1 \in Good /\ j - 1 + 1 = j
  <2> HIDE DEF Good
  <2> QED BY <1>2, <1>6
<1>8. {u(k) : k \in 1 .. j} = u(1) .. u(j) /\ u(1) <= u(j)
  BY <1>7
<1> QED BY <1>8 DEF u

\* What follows a chain of packets is a chain: packets that are handed out leave
\* a chain behind.
LEMMA ChainTail ==
  ASSUME NEW ns, NEW l, NEW P, Chain(P, ns, l), NEW n \in 0 .. Len(P)
  PROVE  LET R == SubSeq(P, n + 1, Len(P))
         IN  /\ Chain(R, ns, l)
             /\ Len(R) = Len(P) - n
             /\ \A k \in 1 .. Len(P) - n : R[k] = P[n + k]
<1> DEFINE R == SubSeq(P, n + 1, Len(P))
           m == Len(P) - n
<1>1. /\ P \in Units
      /\ \A k \in 1 .. Len(P) : UnitFits(P[k], ns, l)
      /\ \A k \in 1 .. Len(P) - 1 : Follows(P[k], P[k + 1])
      /\ GroupsFit(P, ns, l) /\ EvenFragments(P, l)
  BY DEF Chain
<1>2. Len(P) \in Nat /\ m \in Nat /\ \A k \in 1 .. m : n + k \in 1 .. Len(P)
  BY <1>1, UnitsAre
<1>3. R \in Units /\ Len(R) = m /\ \A k \in 1 .. m : R[k] = P[n + k]
  <2>1. P \in Seq(UnitSet)
    BY <1>1 DEF Units
  <2>2. R \in Seq(UnitSet)
    BY <1>2, <2>1
  <2>3. Len(R) = m
    BY <1>2, <2>1
  <2>4. \A k \in 1 .. m : R[k] = P[n + k]
    BY <1>2, <2>1
  <2> QED BY <2>2, <2>3, <2>4 DEF Units
<1> HIDE DEF R
<1>4. \A k \in 1 .. m : UnitFits(R[k], ns, l)
  BY <1>1, <1>2, <1>3
<1>5. \A k \in 1 .. m - 1 : Follows(R[k], R[k + 1])
  <2> TAKE k \in 1 .. m - 1
  <2>1. R[k] = P[n + k] /\ R[k + 1] = P[n + k + 1] /\ n + k \in 1 .. Len(P) - 1
    BY <1>2, <1>3
  <2> QED BY <1>1, <2>1
<1>6. ASSUME NEW a \in 1 .. m, NEW b \in 1 .. m, IsGroup(R, a, b)
      PROVE  FitsUpTo(ns, l, R[a].unit.nalu, R[b].unit.nalu)
  <2>1. R[a] = P[n + a] /\ R[b] = P[n + b] /\ n + a \in 1 .. Len(P) /\ n + b \in 1 .. Len(P)
    BY <1>2, <1>3
  <2>2. n + b \in n + a .. Len(P)
    BY <1>2, <1>3, <1>6 DEF IsGroup
  <2>3. ASSUME NEW k \in n + a .. n + b - 1
        PROVE  ~ P[k].last
    <3>1. k - n \in a .. b - 1 /\ k - n \in 1 .. m /\ n + (k - n) = k
      BY <1>2
    <3> QED BY <1>3, <1>6, <3>1 DEF IsGroup
  <2>4. IsGroup(P, n + a, n + b)
    BY <1>6, <2>1, <2>2, <2>3 DEF IsGroup
  <2> QED BY <1>1, <2>1, <2>4 DEF GroupsFit
<1>7. EvenFragments(R, l)
  BY <1>1, <1>2, <1>3 DEF EvenFragments
<1>8. Chain(R, ns, l)
  BY <1>3, <1>4, <1>5, <1>6, <1>7 DEF Chain, GroupsFit
<1> QED BY <1>3, <1>8 DEF R

\* Packets for neighbouring NAL units make one piece.
LEMMA JoinPieces ==
  ASSUME NEW ns, NEW l, NEW P, NEW Q, NEW a \in Nat, NEW b \in Nat, NEW c \in Nat,
         Piece(P, a, b, ns, l), Piece(Q, b + 1, c, ns, l)
  PROVE  Piece(P \o Q, a, c, ns, l)
<1> DEFINE R == P \o Q
           p == Len(P)
           q == Len(Q)
<1>1. /\ P \in Units /\ Chain(P, ns, l)
      /\ \A k \in 1 .. p : UnitFits(P[k], ns, l)
      /\ \A k \in 1 .. p - 1 : Follows(P[k], P[k + 1])
      /\ GroupsFit(P, ns, l) /\ EvenFragments(P, l)
      /\ P # <<>> /\ P[1].first /\ P[1].unit.nalu = a /\ P[p].last /\ P[p].unit.nalu = b
  BY DEF Piece, Chain
<1>2. /\ Q \in Units /\ Chain(Q, ns, l)
      /\ \A k \in 1 .. q : UnitFits(Q[k], ns, l)
      /\ \A k \in 1 .. q - 1 : Follows(Q[k], Q[k + 1])
      /\ GroupsFit(Q, ns, l) /\ EvenFragments(Q, l)
      /\ Q # <<>> /\ Q[1].first /\ Q[1].unit.nalu = b + 1 /\ Q[q].last /\ Q[q].unit.nalu = c
  BY DEF Piece, Chain
<1>3. p \in Nat /\ q \in Nat /\ p >= 1 /\ q >= 1
  BY <1>1, <1>2, UnitsAre
<1>4. /\ R \in Units /\ Len(R) = p + q
      /\ \A k \in 1 .. p : R[k] = P[k]
      /\ \A k \in p + 1 .. p + q : R[k] = Q[k - p]
  <2>1. P \in Seq(UnitSet) /\ Q \in Seq(UnitSet)
    BY <1>1, <1>2 DEF Units
  <2>2. R \in Seq(UnitSet) /\ Len(R) = p + q
    BY <2>1
  <2>3. \A k \in 1 .. p + q : R[k] = IF k <= p THEN P[k] ELSE Q[k - p]
    BY <2>1
  <2> HIDE DEF R, p, q
  <2> QED BY <1>3, <2>2, <2>3 DEF Units
<1> HIDE DEF R, p, q
<1>5. \A k \in p + 1 .. p + q : k - p \in 1 .. q
  BY <1>3
<1>6. \A k \in 1 .. p + q : UnitFits(R[k], ns, l)
  BY <1>1, <1>2, <1>3, <1>4, <1>5
<1>7. ASSUME NEW k \in 1 .. p + q - 1
      PROVE  Follows(R[k], R[k + 1])
  <2>1. CASE k \in 1 .. p - 1
    <3>1. R[k] = P[k] /\ R[k + 1] = P[k + 1]
      <4>1. k \in 1 .. p + q /\ k + 1 \in 1 .. p + q /\ k <= p /\ k + 1 <= p
        BY <1>3, <2>1
      <4> QED BY <1>4, <4>1
    <3> QED BY <1>1, <2>1, <3>1
  <2>2. CASE k = p
    <3>1. R[k] = P[p] /\ R[k + 1] = Q[1]
      BY <1>3, <1>4, <2>2
    <3> QED BY <1>1, <1>2, <3>1 DEF Follows
  <2>3. CASE k \in p + 1 .. p + q - 1
    <3>1. R[k] = Q[k - p] /\ R[k + 1] = Q[k - p + 1] /\ k - p \in 1 .. q - 1
      BY <1>3, <1>4, <2>3
    <3> QED BY <1>2, <3>1
  <2> QED BY <1>3, <2>1, <2>2, <2>3
<1>8. ASSUME NEW x \in 1 .. p + q, NEW y \in 1 .. p + q, IsGroup(R, x, y)
      PROVE  FitsUpTo(ns, l, R[x].unit.nalu, R[y].unit.nalu)
  <2>1. y \in x .. p + q /\ R[x].aggregated /\ R[x].first /\ R[y].last
        /\ \A k \in x .. y - 1 : ~ R[k].last
    BY <1>4, <1>8 DEF IsGroup
  <2>2. CASE y \in 1 .. p
    <3>1. x \in 1 .. p /\ R[x] = P[x] /\ R[y] = P[y] /\ \A k \in x .. y - 1 : R[k] = P[k]
      BY <1>3, <1>4, <2>1, <2>2
    <3>2. IsGroup(P, x, y)
      BY <2>1, <2>2, <3>1 DEF IsGroup, p
    <3> QED BY <1>1, <2>2, <3>1, <3>2 DEF GroupsFit, p
  <2>3. CASE x \in p + 1 .. p + q
    <3>1. /\ y \in p + 1 .. p + q /\ R[x] = Q[x - p] /\ R[y] = Q[y - p]
          /\ x - p \in 1 .. q /\ y - p \in x - p .. q /\ y - p \in 1 .. q
      BY <1>3, <1>4, <2>1, <2>3
    <3>2. ASSUME NEW k \in x - p .. y - p - 1
          PROVE  ~ Q[k].last
      <4>1. k + p \in x .. y - 1 /\ k + p \in p + 1 .. p + q /\ k + p - p = k
        BY <1>3, <3>1
      <4>2. ~ R[k + p].last
        BY <2>1, <4>1
      <4>3. R[k + p] = Q[k + p - p]
        BY <1>3, <1>4, <3>1, <4>1
      <4>4. Q[k + p - p] = Q[k]
        BY <4>1, Zenon
      <4> QED BY <4>2, <4>3, <4>4, Zenon
    <3>3. IsGroup(Q, x - p, y - p)
      BY <2>1, <3>1, <3>2 DEF IsGroup, q
    <3> QED BY <1>2, <3>1, <3>3 DEF GroupsFit, q
  <2>4. CASE x \in 1 .. p /\ y \in p + 1 .. p + q
    <3>1. p \in x .. y - 1 /\ R[p] = P[p]
      BY <1>3, <1>4, <2>4
    <3>2. ~ R[p].last
      BY <2>1, <3>1
    <3>3. P[p].last
      BY <1>1
    <3> QED BY <3>1, <3>2, <3>3
  <2> QED BY <1>3, <2>2, <2>3, <2>4
<1>9. EvenFragments(R, l)
  <2> SUFFICES ASSUME l.first = 0, l.last = 0, NEW x \in 1 .. p + q, NEW y \in 1 .. p + q
               PROVE  EvenUnits(R[x], R[y])
    BY <1>4 DEF EvenFragments
  <2>1. /\ \A k \in 1 .. p : P[k].unit.nalu <= b /\ P[k].unit.nalu \in Nat
        /\ \A k \in 1 .. q : Q[k].unit.nalu >= b + 1 /\ Q[k].unit.nalu \in Nat
    <3>1. ASSUME NEW k \in 1 .. p
          PROVE  P[k].unit.nalu <= b /\ P[k].unit.nalu \in Nat
      <4>1. p \in 1 .. Len(P)
        BY <1>3 DEF p
      <4>2. {P[i].unit.nalu : i \in 1 .. p} = P[1].unit.nalu .. P[p].unit.nalu
        BY <1>1, <4>1, ChainCovers
      <4>3. P[k].unit.nalu \in a .. b
        BY <1>1, <4>2
      <4> QED BY <4>3
    <3>2. ASSUME NEW k \in 1 .. q
          PROVE  Q[k].unit.nalu >= b + 1 /\ Q[k].unit.nalu \in Nat
      <4>1. q \in 1 .. Len(Q)
        BY <1>3 DEF q
      <4>2. {Q[i].unit.nalu : i \in 1 .. q} = Q[1].unit.nalu .. Q[q].unit.nalu
        BY <1>2, <4>1, ChainCovers
      <4>3. Q[k].unit.nalu \in b + 1 .. c
        BY <1>2, <4>2
      <4> QED BY <4>3
    <3> QED BY <3>1, <3>2
  <2>2. CASE x \in 1 .. p /\ y \in 1 .. p
    BY <1>1, <1>4, <2>2 DEF EvenFragments, p
  <2>3. CASE x \in p + 1 .. p + q /\ y \in p + 1 .. p + q
    BY <1>2, <1>4, <1>5, <2>3 DEF EvenFragments, q
  <2>4. CASE x \in 1 .. p /\ y \in p + 1 .. p + q
    <3>1. R[x] = P[x] /\ R[y] = Q[y - p] /\ y - p \in 1 .. q
      BY <1>4, <1>5, <2>4
    <3>2. R[x].unit.nalu # R[y].unit.nalu
      BY <2>1, <2>4, <3>1
    <3> QED BY <3>2 DEF EvenUnits
  <2>5. CASE x \in p + 1 .. p + q /\ y \in 1 .. p
    <3>1. R[y] = P[y] /\ R[x] = Q[x - p] /\ x - p \in 1 .. q
      BY <1>4, <1>5, <2>5
    <3>2. R[x].unit.nalu # R[y].unit.nalu
      BY <2>1, <2>5, <3>1
    <3> QED BY <3>2 DEF EvenUnits
  <2> QED BY <1>3, <2>2, <2>3, <2>4, <2>5
<1>10. Chain(R, ns, l)
  <2>1. GroupsFit(R, ns, l)
    BY <1>4, <1>8 DEF GroupsFit
  <2>2. \A k \in 1 .. Len(R) : UnitFits(R[k], ns, l)
    BY <1>4, <1>6
  <2>3. \A k \in 1 .. Len(R) - 1 : Follows(R[k], R[k + 1])
    <3>1. Len(R) - 1 = p + q - 1
      BY <1>3, <1>4
    <3> QED BY <1>7, <3>1
  <2> QED BY <1>4, <1>9, <2>1, <2>2, <2>3 DEF Chain
<1>11. R # <<>> /\ R[1] = P[1] /\ R[p + q] = Q[q]
  <2>1. R # <<>>
    BY <1>3, <1>4, UnitsAre
  <2>2. 1 \in 1 .. p /\ p + q \in p + 1 .. p + q /\ p + q - p = q
    BY <1>3
  <2>3. R[1] = P[1]
    BY <1>4, <2>2
  <2>4. R[p + q] = Q[q]
    BY <1>3, <1>4, <2>2
  <2> QED BY <2>1, <2>2, <2>3, <2>4
<1>12. Piece(R, a, c, ns, l)
  <2>1. R[Len(R)] = Q[q]
    BY <1>4, <1>11
  <2> QED BY <1>1, <1>2, <1>10, <1>11, <2>1 DEF Piece
<1> QED BY <1>12 DEF R


\* The fragments of a NAL unit are a piece.
LEMMA FragmentsPiece ==
  ASSUME NEW l \in AllLimits, NEW ns \in Nalus, NEW i \in 1 .. Len(ns), NEW sizes,
         IsSplitOf(sizes, ns[i] - NalHeader, FuALimits(l, i, Len(ns)))
  PROVE  Piece(Fragments(i, sizes), i, i, ns, l)
<1> DEFINE F == Fragments(i, sizes)
           n == Len(sizes)
           L == FuALimits(l, i, Len(ns))
<1>1. /\ sizes \in Seq(Nat \ {0}) /\ n \in Nat /\ n >= 2
      /\ \A k \in 1 .. n : sizes[k] \in Nat
      /\ sizes \in Seq(Nat)
  BY DEF IsSplitOf
<1>2. /\ Total(sizes, n) = ns[i] - NalHeader
      /\ \A k \in 1 .. n : sizes[k] <= L.max
      /\ sizes[1] <= L.max - L.first /\ sizes[n] <= L.max - L.last
      /\ L.first = 0 /\ L.last = 0 =>
           \A j, k \in 1 .. n : sizes[j] - sizes[k] \in {-1, 0, 1}
  BY DEF IsSplitOf
<1>3. Len(ns) \in Nat /\ ns[i] \in Nat /\ i \in Nat
  BY DEF Nalus
<1>4. /\ l.max \in Nat /\ l.first \in Nat /\ l.last \in Nat
      /\ L.max = l.max - FuAHeader
      /\ L.first = (IF i = 1 THEN l.first ELSE 0)
      /\ L.last = (IF i = Len(ns) THEN l.last ELSE 0)
  BY <1>3, LimitsAre DEF FuALimits
<1> HIDE DEF L
<1>5. /\ F \in Units /\ Len(F) = n
      /\ \A k \in 1 .. n :
           /\ F[k] = PacketUnit(i, NalHeader + Total(sizes, k - 1), sizes[k], k = 1, k = n, FALSE)
           /\ Total(sizes, k - 1) \in Nat
  BY <1>1, <1>3, FragmentsAre
<1> HIDE DEF F, n
<1>6. ASSUME NEW k \in 1 .. n
      PROVE  /\ F[k].unit.nalu = i /\ F[k].unit.from = NalHeader + Total(sizes, k - 1)
             /\ F[k].unit.len = sizes[k]
             /\ F[k].first <=> k = 1
             /\ F[k].last <=> k = n
             /\ ~ F[k].aggregated
  <2>2. F[k] = PacketUnit(i, NalHeader + Total(sizes, k - 1), sizes[k], k = 1, k = n, FALSE)
    BY <1>5
  <2>3. /\ F[k].unit.nalu = i /\ F[k].unit.from = NalHeader + Total(sizes, k - 1)
        /\ F[k].unit.len = sizes[k]
        /\ F[k].first = (k = 1) /\ F[k].last = (k = n) /\ F[k].aggregated = FALSE
    BY <2>2 DEF PacketUnit
  <2> QED BY <2>3
<1>7. \A k \in 1 .. n : Total(sizes, k) = Total(sizes, k - 1) + sizes[k]
  <2>1. \A k \in 1 .. n : sizes[k] \in Int
    BY <1>1
  <2> QED BY <1>1, <2>1, TotalGrows
<1>8. Total(sizes, 0) = 0
  <2>1. \A k \in 1 .. n : sizes[k] \in Int
    BY <1>1
  <2> QED BY <1>1, <2>1, TotalGrows
<1>9. ASSUME NEW k \in 1 .. n
      PROVE  UnitFits(F[k], ns, l)
  <2>1. ~ F[k].aggregated /\ F[k].unit.nalu = i /\ F[k].unit.len = sizes[k]
        /\ (F[k].first <=> k = 1) /\ (F[k].last <=> k = n)
        /\ F[k].unit.from = NalHeader + Total(sizes, k - 1)
    BY <1>6
  <2>2. sizes[k] \in Nat /\ sizes[k] <= L.max /\ Total(sizes, k - 1) \in Nat
    BY <1>1, <1>2, <1>5
  <2>3. F[k].first => F[k].unit.from = NalHeader
    BY <1>8, <2>1 DEF NalHeader
  <2>4. F[k].last => F[k].unit.from + F[k].unit.len = ns[i]
    <3> SUFFICES ASSUME F[k].last PROVE F[k].unit.from + F[k].unit.len = ns[i]
      OBVIOUS
    <3>1. k = n /\ Total(sizes, n) = Total(sizes, n - 1) + sizes[n]
      BY <1>7, <2>1
    <3> QED BY <1>2, <1>3, <2>1, <2>2, <3>1 DEF NalHeader
  <2>5. FuAHeader + sizes[k] <= l.max - (IF k = 1 /\ i = 1 THEN l.first ELSE 0)
    <3>1. CASE k = 1 /\ i = 1
      BY <1>2, <1>4, <2>2, <3>1 DEF FuAHeader
    <3>2. CASE ~ (k = 1 /\ i = 1)
      BY <1>2, <1>4, <2>2, <3>2 DEF FuAHeader
    <3> QED BY <3>1, <3>2
  <2>6. FuAHeader + sizes[k] <= l.max - (IF k = n /\ i = Len(ns) THEN l.last ELSE 0)
    BY <1>2, <1>4, <2>2 DEF FuAHeader
  <2>7. ~ (F[k].first /\ F[k].last)
    BY <1>1, <2>1
  <2>8. FuAHeader + F[k].unit.len
          <= l.max - (IF F[k].first /\ F[k].unit.nalu = 1 THEN l.first ELSE 0)
    BY <2>1, <2>5
  <2>9. FuAHeader + F[k].unit.len
          <= l.max - (IF F[k].last /\ F[k].unit.nalu = Len(ns) THEN l.last ELSE 0)
    BY <2>1, <2>6
  <2> QED BY <2>1, <2>3, <2>4, <2>7, <2>8, <2>9 DEF UnitFits
<1>10. ASSUME NEW k \in 1 .. n - 1
       PROVE  Follows(F[k], F[k + 1])
  <2>1. k \in 1 .. n /\ k + 1 \in 1 .. n /\ k # n /\ k + 1 # 1 /\ k + 1 - 1 = k
    BY <1>1
  <2>2. Total(sizes, k) = Total(sizes, k - 1) + sizes[k]
        /\ Total(sizes, k - 1) \in Nat /\ sizes[k] \in Nat
    BY <1>1, <1>5, <1>7, <2>1
  <2>3. /\ F[k].unit.nalu = i /\ F[k].unit.from = NalHeader + Total(sizes, k - 1)
        /\ F[k].unit.len = sizes[k] /\ ~ F[k].last /\ ~ F[k].aggregated
    BY <1>6, <2>1
  <2>4. /\ F[k + 1].unit.nalu = i /\ F[k + 1].unit.from = NalHeader + Total(sizes, k)
        /\ ~ F[k + 1].first /\ ~ F[k + 1].aggregated
    BY <1>6, <2>1
  <2> QED BY <2>2, <2>3, <2>4 DEF Follows, NalHeader
<1>11. GroupsFit(F, ns, l)
  BY <1>5, <1>6 DEF GroupsFit, IsGroup
<1>12. EvenFragments(F, l)
  <2> SUFFICES ASSUME l.first = 0, l.last = 0, NEW x \in 1 .. n, NEW y \in 1 .. n
               PROVE  EvenUnits(F[x], F[y])
    BY <1>5 DEF EvenFragments
  <2>1. sizes[x] - sizes[y] \in {-1, 0, 1}
    BY <1>2, <1>4
  <2>2. F[x].unit.len = sizes[x] /\ F[y].unit.len = sizes[y]
    BY <1>6
  <2> QED BY <2>1, <2>2 DEF EvenUnits
<1>13. Chain(F, ns, l)
  <2>1. \A k \in 1 .. Len(F) : UnitFits(F[k], ns, l)
    BY <1>5, <1>9
  <2>2. \A k \in 1 .. Len(F) - 1 : Follows(F[k], F[k + 1])
    BY <1>1, <1>5, <1>10
  <2> QED BY <1>5, <1>11, <1>12, <2>1, <2>2 DEF Chain
<1>14. F # <<>> /\ F[1].first /\ F[1].unit.nalu = i /\ F[Len(F)].last /\ F[Len(F)].unit.nalu = i
  <2>1. F # <<>>
    BY <1>1, <1>5, UnitsAre
  <2>2. 1 \in 1 .. n /\ n \in 1 .. n /\ Len(F) = n
    BY <1>1, <1>5
  <2> QED BY <1>6, <2>1, <2>2
<1>15. Piece(F, i, i, ns, l)
  BY <1>13, <1>14 DEF Piece
<1> QED BY <1>15 DEF F

\* The units of NAL units that fit together are a piece.
LEMMA AggregatePiece ==
  ASSUME NEW l \in AllLimits, NEW ns \in Nalus, NEW i \in 1 .. Len(ns),
         NEW j \in i .. Len(ns), FitsUpTo(ns, l, i, j)
  PROVE  Piece(Aggregate(ns, i, j), i, j, ns, l)
<1> DEFINE A == Aggregate(ns, i, j)
           n == j - i + 1
<1>1. Len(ns) \in Nat /\ n \in Nat /\ n >= 1 /\ i \in Nat /\ j \in i - 1 .. Len(ns) /\ j \in Int
      /\ \A k \in 1 .. n : i + k - 1 \in 1 .. Len(ns)
  BY DEF Nalus
<1>2. /\ A \in Units /\ Len(A) = n
      /\ \A k \in 1 .. n :
           A[k] = PacketUnit(i + k - 1, 0, ns[i + k - 1], k = 1, i + k - 1 = j, TRUE)
  <2>1. IsAggregate(Aggregate(ns, i, j), ns, i, j)
    <3> HIDE DEF A, n
    <3> QED BY <1>1, AggregateIs
  <2> HIDE DEF A
  <2> QED BY <2>1 DEF IsAggregate, A
<1>3. \A k \in 1 .. n : (i + k - 1 = j) = (k = n)
  BY <1>1
<1> HIDE DEF A
<1>4. ASSUME NEW k \in 1 .. n
      PROVE  /\ A[k].unit.nalu = i + k - 1 /\ A[k].unit.from = 0
             /\ A[k].unit.len = ns[i + k - 1]
             /\ A[k].first <=> k = 1
             /\ A[k].last <=> k = n
             /\ A[k].aggregated
  <2> HIDE DEF n
  <2>2. A[k] = PacketUnit(i + k - 1, 0, ns[i + k - 1], k = 1, i + k - 1 = j, TRUE)
    BY <1>2
  <2>3. /\ A[k].unit.nalu = i + k - 1 /\ A[k].unit.from = 0
        /\ A[k].unit.len = ns[i + k - 1]
        /\ A[k].first = (k = 1) /\ A[k].last = (i + k - 1 = j) /\ A[k].aggregated = TRUE
    BY <2>2 DEF PacketUnit
  <2>4. i + k - 1 = j <=> k = n
    BY <1>3
  <2> QED BY <2>3, <2>4
<1>5. ASSUME NEW k \in 1 .. n
      PROVE  UnitFits(A[k], ns, l)
  <2> HIDE DEF n
  <2> QED BY <1>1, <1>4 DEF UnitFits
<1>6. ASSUME NEW k \in 1 .. n - 1
      PROVE  Follows(A[k], A[k + 1])
  <2>1. k \in 1 .. n /\ k + 1 \in 1 .. n /\ k # n /\ k + 1 # 1
        /\ i + (k + 1) - 1 = i + k - 1 + 1
    BY <1>1
  <2> HIDE DEF n
  <2>2. A[k].unit.nalu = i + k - 1 /\ A[k].aggregated /\ ~ A[k].last
    BY <1>4, <2>1
  <2>3. A[k + 1].unit.nalu = i + (k + 1) - 1 /\ A[k + 1].aggregated /\ ~ A[k + 1].first
    BY <1>4, <2>1
  <2>4. A[k + 1].unit.nalu = A[k].unit.nalu + 1
    BY <2>1, <2>2, <2>3
  <2> QED BY <2>2, <2>3, <2>4 DEF Follows
<1>7. GroupsFit(A, ns, l)
  <2> SUFFICES ASSUME NEW a \in 1 .. n, NEW b \in 1 .. n, IsGroup(A, a, b)
               PROVE  FitsUpTo(ns, l, A[a].unit.nalu, A[b].unit.nalu)
    BY <1>2 DEF GroupsFit
  <2>1. A[a].first /\ A[b].last
    BY DEF IsGroup
  <2>2. a = 1 /\ b = n
    BY <1>4, <2>1
  <2>3. i + 1 - 1 = i /\ i + n - 1 = j /\ 1 \in 1 .. n /\ n \in 1 .. n
    BY <1>1
  <2>4. A[1].unit.nalu = i + 1 - 1 /\ A[n].unit.nalu = i + n - 1
    BY <1>4, <2>3
  <2> QED BY <2>2, <2>3, <2>4
<1>8. EvenFragments(A, l)
  BY <1>2, <1>4 DEF EvenFragments, EvenUnits
<1>9. Chain(A, ns, l)
  <2>1. \A k \in 1 .. Len(A) : UnitFits(A[k], ns, l)
    BY <1>2, <1>5
  <2>2. \A k \in 1 .. Len(A) - 1 : Follows(A[k], A[k + 1])
    BY <1>2, <1>6
  <2> QED BY <1>2, <1>7, <1>8, <2>1, <2>2 DEF Chain
<1>10. A # <<>> /\ A[1].first /\ A[1].unit.nalu = i /\ A[Len(A)].last /\ A[Len(A)].unit.nalu = j
  <2>1. A # <<>>
    BY <1>1, <1>2, UnitsAre
  <2>2. 1 \in 1 .. n /\ n \in 1 .. n /\ Len(A) = n /\ i + 1 - 1 = i /\ i + n - 1 = j
    BY <1>1, <1>2
  <2> HIDE DEF n
  <2> QED BY <1>4, <2>1, <2>2
<1>11. Piece(A, i, j, ns, l)
  BY <1>9, <1>10 DEF Piece
<1> QED BY <1>11 DEF A


-----------------------------------------------------------------------------
\* How many payloads packets_ stands for.

\* The units that end a payload.
Ends(P) == {k \in 1 .. Len(P) : P[k].last \/ ~ P[k].aggregated}
Payloads(P) == Cardinality(Ends(P))

\* A finite packets_ stands for a number of payloads.
LEMMA EndsAre ==
  ASSUME NEW P \in Units
  PROVE  IsFiniteSet(Ends(P)) /\ Payloads(P) \in Nat
<1>1. Len(P) \in Nat /\ Ends(P) \in SUBSET (1 .. Len(P))
  BY UnitsAre DEF Ends
<1>2. IsFiniteSet(1 .. Len(P))
  BY <1>1, FS_Interval
<1>3. IsFiniteSet(Ends(P))
  BY <1>1, <1>2, FS_Subset
<1> QED BY <1>3, FS_CardinalityType DEF Payloads

\* Numbers that are all moved by the same distance are as many as before.
LEMMA ShiftedSet ==
  ASSUME NEW S \in SUBSET Int, IsFiniteSet(S), NEW n \in Int
  PROVE  /\ IsFiniteSet({n + k : k \in S})
         /\ Cardinality({n + k : k \in S}) = Cardinality(S)
<1> DEFINE T == {n + k : k \in S}
           f == [k \in S |-> n + k]
<1>1. f \in [S -> T]
  OBVIOUS
<1>2. \A a, b \in S : f[a] = f[b] => a = b
  <2> TAKE a, b \in S
  <2>1. a \in Int /\ b \in Int /\ f[a] = n + a /\ f[b] = n + b
    OBVIOUS
  <2> HIDE DEF f
  <2> QED BY <2>1
<1>3. \A t \in T : \E s \in S : f[s] = t
  OBVIOUS
<1> HIDE DEF f, T
<1>4. f \in Bijection(S, T)
  BY <1>1, <1>2, <1>3 DEF Bijection, Injection, Surjection, IsInjective
<1>5. ExistsBijection(S, T)
  BY <1>4 DEF ExistsBijection
<1>6. IsFiniteSet(T) /\ Cardinality(T) = Cardinality(S)
  BY <1>5, FS_Bijection
<1> QED BY <1>6 DEF T

\* The payloads of two sequences of packets add up.
LEMMA PayloadsJoin ==
  ASSUME NEW P \in Units, NEW Q \in Units
  PROVE  P \o Q \in Units /\ Payloads(P \o Q) = Payloads(P) + Payloads(Q)
<1> DEFINE R == P \o Q
           p == Len(P)
           q == Len(Q)
           T == {p + k : k \in Ends(Q)}
<1>1. p \in Nat /\ q \in Nat
  BY UnitsAre
<1>2. R \in Seq(UnitSet) /\ Len(R) = p + q
      /\ \A k \in 1 .. p + q : R[k] = IF k <= p THEN P[k] ELSE Q[k - p]
  BY DEF Units
<1>3. IsFiniteSet(Ends(P)) /\ IsFiniteSet(Ends(Q))
      /\ Ends(P) \in SUBSET (1 .. p) /\ Ends(Q) \in SUBSET (1 .. q)
  BY EndsAre DEF Ends
<1>4. IsFiniteSet(T) /\ Cardinality(T) = Cardinality(Ends(Q))
  <2>1. Ends(Q) \in SUBSET Int /\ p \in Int
    BY <1>1, <1>3
  <2> HIDE DEF p, q
  <2> QED BY <1>3, <2>1, ShiftedSet
<1>5. Ends(P) \cap T = {}
  <2> HIDE DEF p, q
  <2> QED BY <1>1, <1>3
<1>6. Ends(R) = Ends(P) \cup T
  <2> HIDE DEF R
  <2>1. ASSUME NEW k \in 1 .. p
        PROVE  k \in Ends(R) <=> k \in Ends(P)
    <3>1. k \in 1 .. p + q /\ R[k] = P[k]
      BY <1>1, <1>2
    <3> QED BY <1>2, <3>1 DEF Ends
  <2>2. ASSUME NEW k \in p + 1 .. p + q
        PROVE  k \in Ends(R) <=> k \in T
    <3>1. k - p \in 1 .. q /\ R[k] = Q[k - p] /\ k \in 1 .. p + q /\ k = p + (k - p)
      BY <1>1, <1>2
    <3>2. k \in Ends(R) <=> k - p \in Ends(Q)
      BY <1>2, <3>1 DEF Ends
    <3>3. k \in T <=> k - p \in Ends(Q)
      <4>1. ASSUME NEW j \in Ends(Q), k = p + j
            PROVE  j = k - p
        BY <1>1, <1>3, <4>1
      <4> QED BY <3>1, <4>1
    <3> QED BY <3>2, <3>3
  <2>3. Ends(R) \subseteq 1 .. p + q
    BY <1>2 DEF Ends
  <2>4. Ends(P) \subseteq 1 .. p /\ T \subseteq p + 1 .. p + q
    BY <1>1, <1>3
  <2>5. 1 .. p + q = (1 .. p) \cup (p + 1 .. p + q)
    BY <1>1
  <2>6. (1 .. p) \cap (p + 1 .. p + q) = {}
    BY <1>1
  <2> HIDE DEF T, p, q
  <2> QED BY <2>1, <2>2, <2>3, <2>4, <2>5, <2>6
<1> HIDE DEF R, T
<1>7. Cardinality(Ends(R)) = Cardinality(Ends(P)) + Cardinality(T)
  <2>1. Cardinality(Ends(P) \cup T)
          = Cardinality(Ends(P)) + Cardinality(T) - Cardinality(Ends(P) \cap T)
    BY <1>3, <1>4, FS_Union
  <2>2. Cardinality(Ends(P) \cap T) = 0
    BY <1>5, FS_EmptySet
  <2>3. Cardinality(Ends(P)) \in Nat /\ Cardinality(T) \in Nat
    BY <1>3, <1>4, FS_CardinalityType
  <2> QED BY <1>6, <2>1, <2>2, <2>3
<1>8. R \in Units
  BY <1>2 DEF Units
<1> QED BY <1>4, <1>7, <1>8 DEF R, Payloads


\* Every fragment is a payload of its own.
LEMMA PayloadsOfFragments ==
  ASSUME NEW i \in Nat, NEW sizes \in Seq(Nat)
  PROVE  Payloads(Fragments(i, sizes)) = Len(sizes)
<1> DEFINE F == Fragments(i, sizes)
<1>1. Len(sizes) \in Nat
  OBVIOUS
<1>2. Len(F) = Len(sizes)
  BY FragmentsAre
<1>3. \A k \in 1 .. Len(sizes) :
        F[k] = PacketUnit(i, NalHeader + Total(sizes, k - 1), sizes[k],
                          k = 1, k = Len(sizes), FALSE)
  BY FragmentsAre
<1> HIDE DEF F
<1>4. \A k \in 1 .. Len(sizes) : ~ F[k].aggregated
  <2> TAKE k \in 1 .. Len(sizes)
  <2>1. F[k] = PacketUnit(i, NalHeader + Total(sizes, k - 1), sizes[k],
                          k = 1, k = Len(sizes), FALSE)
    BY <1>3
  <2>2. F[k].aggregated = FALSE
    BY <2>1 DEF PacketUnit
  <2> QED BY <2>2
<1>5. Ends(F) = 1 .. Len(sizes)
  BY <1>2, <1>4 DEF Ends
<1>6. Cardinality(1 .. Len(sizes)) = Len(sizes)
  <2> DEFINE n == Len(sizes)
  <2> HIDE DEF n
  <2>1. n \in Nat /\ 1 \in Int
    BY <1>1 DEF n
  <2>2. Cardinality(1 .. n) = n
    BY <2>1, FS_Interval
  <2> QED BY <2>2 DEF n
<1> QED BY <1>5, <1>6 DEF Payloads, F

\* The units that share a packet are one payload.
LEMMA PayloadsOfAggregate ==
  ASSUME NEW ns \in Nalus, NEW i \in 1 .. Len(ns), NEW j \in i .. Len(ns)
  PROVE  Payloads(Aggregate(ns, i, j)) = 1
<1> DEFINE A == Aggregate(ns, i, j)
           n == j - i + 1
<1>1. j \in i - 1 .. Len(ns) /\ n \in Nat /\ n >= 1
      /\ \A k \in 1 .. n : i + k - 1 = j <=> k = n
  BY DEF Nalus
<1>2. IsAggregate(A, ns, i, j)
  <2> HIDE DEF n
  <2> QED BY <1>1, AggregateIs
<1> HIDE DEF A
<1>3. /\ Len(A) = n
      /\ \A k \in 1 .. n :
           A[k] = PacketUnit(i + k - 1, 0, ns[i + k - 1], k = 1, i + k - 1 = j, TRUE)
  BY <1>2 DEF IsAggregate
<1> HIDE DEF n
<1>4. ASSUME NEW k \in 1 .. n
      PROVE  A[k].aggregated /\ (A[k].last <=> k = n)
  <2>1. A[k] = PacketUnit(i + k - 1, 0, ns[i + k - 1], k = 1, i + k - 1 = j, TRUE)
    BY <1>3
  <2>2. A[k].aggregated = TRUE /\ A[k].last = (i + k - 1 = j)
    BY <2>1 DEF PacketUnit
  <2>3. A[k].last <=> i + k - 1 = j
    BY <2>2
  <2> QED BY <1>1, <2>2, <2>3
<1>5. Ends(A) = {n}
  BY <1>1, <1>3, <1>4 DEF Ends
<1> QED BY <1>5, FS_Singleton DEF Payloads, A

\* Limits that leave room: the reductions of the first and the last packet fit
\* in one packet together with the header of a fragment, each of them leaves a
\* byte of data, and a single packet is not reduced by more than both.
LeavesRoom(l) ==
  /\ FuAHeader + l.first + l.last <= l.max
  /\ FuAHeader + l.first < l.max
  /\ FuAHeader + l.last < l.max
  /\ l.single <= l.first + l.last

\* Then every NAL unit that is too large for a packet can be split.
LEMMA RoomForFragments ==
  ASSUME NEW l \in AllLimits, LeavesRoom(l), NEW n \in Nat, NEW i \in 1 .. n, NEW size \in Nat,
         size > SinglePacketCapacity(l, i, n)
  PROVE  HasRoom(size - NalHeader, FuALimits(l, i, n))
<1> DEFINE L == FuALimits(l, i, n)
           len == size - NalHeader
           T == SplitTotal(len, L)
           x == (T + L.max - 1) \div L.max
<1>1. /\ l.max = MaxPayload /\ MaxPayload \in Nat
      /\ l.first \in Nat /\ l.last \in Nat /\ l.single \in Nat
  BY LimitsAre
<1>2. /\ 2 + l.first + l.last <= l.max /\ 2 + l.first < l.max /\ 2 + l.last < l.max
      /\ l.single <= l.first + l.last
  BY DEF LeavesRoom, FuAHeader
<1>3. len \in Nat /\ len >= 2
  BY <1>1, <1>2 DEF SinglePacketCapacity, NalHeader
<1>4. /\ L.max \in Nat /\ L.max >= 1 /\ L.first \in Nat /\ L.last \in Nat
      /\ L.first < L.max /\ L.last < L.max /\ L.first + L.last <= L.max
  BY <1>1, <1>2 DEF FuALimits, FuAHeader
<1>5. T = len + L.first + L.last
  BY DEF SplitTotal
<1>6. Parts(len, L) = Max({2, x})
  BY DEF Parts
<1> HIDE DEF L, len, T
<1> DEFINE M == L.max
<1>7. T \in Nat /\ T + M - 1 \in Nat /\ M \in Nat /\ M >= 1
  BY <1>3, <1>4, <1>5
<1>8. PICK y \in Int, z \in 0 .. M - 1 : y = x /\ T + M - 1 = M * y + z
  <2> DEFINE a == T + M - 1
  <2>1. a \in Int /\ M \in Int /\ M > 0
    BY <1>7
  <2>2. a \div M \in Int /\ a % M \in 0 .. M - 1 /\ a = M * (a \div M) + (a % M)
    <3> HIDE DEF a, M
    <3> QED BY <2>1
  <2> QED BY <2>2
<1> HIDE DEF x
<1>9. T <= M * len
  <2>1. (M - 1) * 2 <= (M - 1) * len
    <3>1. M - 1 \in Nat /\ 2 \in Int /\ len \in Int /\ 2 <= len
      BY <1>3, <1>7
    <3> HIDE DEF M
    <3> QED BY <3>1, TimesRises
  <2>2. (M - 1) * len = M * len - len /\ M * len \in Int
    BY <1>3, <1>7
  <2> QED BY <1>3, <1>4, <1>5, <1>7, <2>1, <2>2
<1>10. y <= len
  <2> SUFFICES ASSUME y >= len + 1 PROVE FALSE
    BY <1>3
  <2>1. M * (len + 1) <= M * y
    BY <1>3, <1>7, TimesRises
  <2>2. M * (len + 1) = M * len + M /\ M * len \in Int /\ M * y \in Int
    BY <1>3, <1>7
  <2> QED BY <1>7, <1>8, <1>9, <2>1, <2>2
<1>11. Max({2, x}) = IF 2 >= x THEN 2 ELSE x
  BY <1>8, MaxOfTwo
<1>12. len >= Parts(len, L)
  BY <1>3, <1>6, <1>8, <1>10, <1>11
<1>13. HasRoom(len, L)
  BY <1>4, <1>12 DEF HasRoom
<1> QED BY <1>13 DEF len, L


-----------------------------------------------------------------------------
\* do_packetization.

LoopStates == [packets : Units, left : Int, next : Int, failed : BOOLEAN]
LoopStart == [packets |-> <<>>, left |-> 0, next |-> 1, failed |-> FALSE]
LoopStep(acc, ns, l, i) == IF i = acc.next THEN PacketizeNalu(acc, ns, l, i) ELSE acc

\* A round that cuts NAL unit i into fragments of these sizes.
IsFragmentRound(r, acc, ns, i, sizes) ==
  /\ sizes \in Seq(Nat)
  /\ r.packets = acc.packets \o Fragments(i, sizes)
  /\ r.left = acc.left + Len(sizes)
  /\ r.next = (IF sizes = <<>> THEN Len(ns) + 1 ELSE i + 1)
  /\ r.failed <=> acc.failed
  /\ r \in LoopStates

\* What a NAL unit that does not fit in its packet leads to.
LEMMA RoundOfFragments ==
  ASSUME NEW l \in AllLimits, NEW ns \in Nalus, NEW i \in 1 .. Len(ns), NEW acc \in LoopStates,
         ns[i] > SinglePacketCapacity(l, i, Len(ns))
  PROVE  IsFragmentRound(PacketizeNalu(acc, ns, l, i), acc, ns, i, FragmentSizes(ns, l, i))
<1> DEFINE r == PacketizeNalu(acc, ns, l, i)
           sizes == FragmentSizes(ns, l, i)
<1>1. sizes \in Seq(Nat) /\ (sizes # <<>> =>
        IsSplitOf(sizes, ns[i] - NalHeader, FuALimits(l, i, Len(ns))))
  BY FragmentSizesAre
<1>2. r = [packets |-> acc.packets \o Fragments(i, sizes),
           left    |-> acc.left + Len(sizes),
           next    |-> IF sizes = <<>> THEN Len(ns) + 1 ELSE i + 1,
           failed  |-> acc.failed \/ \E k \in DOMAIN sizes : sizes[k] = 0]
  BY DEF PacketizeNalu, FragmentSizes
<1> HIDE DEF r, sizes
<1>3. ~ \E k \in DOMAIN sizes : sizes[k] = 0
  <2>1. CASE sizes = <<>>
    BY <2>1
  <2>2. CASE sizes # <<>>
    BY <1>1, <2>2 DEF IsSplitOf
  <2> QED BY <2>1, <2>2
<1>4. /\ r.packets = acc.packets \o Fragments(i, sizes)
      /\ r.left = acc.left + Len(sizes)
      /\ r.next = (IF sizes = <<>> THEN Len(ns) + 1 ELSE i + 1)
      /\ r.failed = (acc.failed \/ \E k \in DOMAIN sizes : sizes[k] = 0)
  BY <1>2
<1>5. /\ acc.packets \in Units /\ acc.left \in Int /\ acc.failed \in BOOLEAN
      /\ i \in Nat /\ Len(ns) \in Nat /\ Len(sizes) \in Nat
  BY <1>1 DEF LoopStates, Nalus
<1>6. Fragments(i, sizes) \in Units
  BY <1>1, <1>5, FragmentsAre
<1>7. acc.packets \o Fragments(i, sizes) \in Units
  BY <1>5, <1>6, PayloadsJoin
<1>8. r \in LoopStates
  <2>1. acc.left + Len(sizes) \in Int /\ (IF sizes = <<>> THEN Len(ns) + 1 ELSE i + 1) \in Int
    BY <1>5
  <2>2. (acc.failed \/ \E k \in DOMAIN sizes : sizes[k] = 0) \in BOOLEAN
    OBVIOUS
  <2> QED BY <1>2, <1>7, <2>1, <2>2 DEF LoopStates
<1>9. IsFragmentRound(r, acc, ns, i, sizes)
  BY <1>1, <1>3, <1>4, <1>8 DEF IsFragmentRound
<1> QED BY <1>9 DEF r, sizes

\* A round that puts NAL units i .. j into one packet.
IsAggregateRound(r, acc, ns, l, i, j) ==
  /\ j \in i .. Len(ns) /\ FitsUpTo(ns, l, i, j)
  /\ r.packets = acc.packets \o Aggregate(ns, i, j)
  /\ r.left = acc.left + 1 /\ r.next = j + 1
  /\ r.failed => acc.failed \/ ns[i] = SinglePacketCapacity(l, i, Len(ns))
  /\ r \in LoopStates

\* What a NAL unit that fits in its packet leads to.
LEMMA RoundOfAggregate ==
  ASSUME NEW l \in AllLimits, NEW ns \in Nalus, NEW i \in 1 .. Len(ns), NEW acc \in LoopStates,
         ns[i] <= SinglePacketCapacity(l, i, Len(ns)), NEW r, r = PacketizeNalu(acc, ns, l, i),
         NEW j, j = LastAggregated(ns, l, i)
  PROVE  IsAggregateRound(r, acc, ns, l, i, j)
<1>1. /\ acc.packets \in Units /\ acc.left \in Int /\ acc.failed \in BOOLEAN
      /\ i \in Nat /\ Len(ns) \in Nat /\ ns[i] \in Nat
  BY DEF LoopStates, Nalus
<1>2. /\ FitsUpTo(ns, l, i, i) /\ StapACapacity(l, i, Len(ns)) \in Int
      /\ SinglePacketCapacity(l, i, Len(ns)) <= StapACapacity(l, i, Len(ns))
  BY FirstFits
<1>3. /\ j \in i - 1 .. Len(ns) /\ (\A k \in i .. j : FitsUpTo(ns, l, i, k))
      /\ (FitsUpTo(ns, l, i, i) => j >= i)
  BY LastAggregatedIs
<1>4. j \in i .. Len(ns) /\ FitsUpTo(ns, l, i, j)
  BY <1>1, <1>2, <1>3
<1>5. SinglePacketCapacity(l, i, Len(ns)) \in Int
  BY <1>1, LimitsAre DEF SinglePacketCapacity
<1>6. r = [packets |-> acc.packets \o Aggregate(ns, i, j),
           left    |-> acc.left + 1,
           next    |-> j + 1,
           failed  |-> acc.failed \/ StapACapacity(l, i, Len(ns)) <= ns[i]]
  <2>1. ~ (ns[i] > SinglePacketCapacity(l, i, Len(ns)))
    BY <1>1, <1>5
  <2> QED BY <2>1 DEF PacketizeNalu
<1>7. /\ r.packets = acc.packets \o Aggregate(ns, i, j)
      /\ r.left = acc.left + 1 /\ r.next = j + 1
      /\ r.failed = (acc.failed \/ StapACapacity(l, i, Len(ns)) <= ns[i])
  BY <1>6
<1>8. r.failed => acc.failed \/ ns[i] = SinglePacketCapacity(l, i, Len(ns))
  BY <1>1, <1>2, <1>5, <1>7
<1>9. acc.packets \o Aggregate(ns, i, j) \in Units
  <2>1. Aggregate(ns, i, j) \in Units
    BY <1>3, AggregateIs DEF IsAggregate
  <2> QED BY <1>1, <2>1, PayloadsJoin
<1>10. r \in LoopStates
  <2>1. acc.left + 1 \in Int /\ j + 1 \in Int
    BY <1>1, <1>4
  <2>2. (acc.failed \/ StapACapacity(l, i, Len(ns)) <= ns[i]) \in BOOLEAN
    OBVIOUS
  <2> QED BY <1>6, <1>9, <2>1, <2>2 DEF LoopStates
<1> QED BY <1>4, <1>7, <1>8, <1>10 DEF IsAggregateRound

\* The rounds of do_packetization.
LEMMA PacketizationIsLoop ==
  ASSUME NEW l \in AllLimits, NEW ns \in Nalus
  PROVE  \E g \in [0 .. Len(ns) -> LoopStates] :
           /\ g[0] = LoopStart
           /\ \A i \in 1 .. Len(ns) : g[i] = LoopStep(g[i - 1], ns, l, i)
           /\ DoPacketization(ns, l) = g[Len(ns)]
<1> DEFINE n == Len(ns)
           a == [packets |-> <<>>, left |-> 0, next |-> 1, failed |-> FALSE]
           Step(acc, i) == IF i = acc.next THEN PacketizeNalu(acc, ns, l, i) ELSE acc
           IsLoop(h) == h = [i \in 0 .. Len(ns) |->
                               IF i = 0 THEN a
                               ELSE IF i = h[i - 1].next THEN PacketizeNalu(h[i - 1], ns, l, i)
                               ELSE h[i - 1]]
           c == CHOOSE h : IsLoop(h)
           step == [x \in LoopStates \X Nat |-> IF x[2] \in 1 .. n THEN Step(x[1], x[2]) ELSE a]
<1>1. n \in Nat
  BY DEF Nalus
<1>2. DoPacketization(ns, l) = c[Len(ns)]
  BY Zenon DEF DoPacketization
<1> HIDE DEF n, c
<1>3. ASSUME NEW acc \in LoopStates, NEW i \in 1 .. n
      PROVE  Step(acc, i) \in LoopStates
  <2>1. i \in 1 .. Len(ns) /\ ns[i] \in Nat /\ SinglePacketCapacity(l, i, Len(ns)) \in Int
    <3>1. i \in 1 .. Len(ns) /\ ns[i] \in Nat /\ i \in Nat /\ Len(ns) \in Nat
      BY <1>1 DEF n, Nalus
    <3> QED BY <3>1, CapacityType
  <2>2. PacketizeNalu(acc, ns, l, i) \in LoopStates
    <3>1. CASE ns[i] > SinglePacketCapacity(l, i, Len(ns))
      BY <2>1, <3>1, RoundOfFragments DEF IsFragmentRound
    <3>2. CASE ns[i] <= SinglePacketCapacity(l, i, Len(ns))
      BY <2>1, <3>2, RoundOfAggregate DEF IsAggregateRound
    <3> QED BY <2>1, <3>1, <3>2
  <2> QED BY <2>2
<1>4. a \in LoopStates
  <2>1. <<>> \in Units
    BY DEF Units
  <2> QED BY <2>1 DEF LoopStates
<1> HIDE DEF Step
<1>5. step \in [LoopStates \X Nat -> LoopStates]
  BY <1>3, <1>4
<1>6. \E g \in [0 .. n -> LoopStates] : IsRun(g, a, step, n)
  <2> HIDE DEF step, a
  <2> QED BY <1>1, <1>4, <1>5, LoopRuns
<1>7. PICK g \in [0 .. n -> LoopStates] :
        \A i \in 0 .. n : g[i] = IF i = 0 THEN a ELSE step[<<g[i - 1], i>>]
  <2> HIDE DEF step, a
  <2> QED BY <1>6 DEF IsRun
<1>8. \A i \in 1 .. n : g[i] = Step(g[i - 1], i)
  <2> TAKE i \in 1 .. n
  <2>1. g[i - 1] \in LoopStates /\ <<g[i - 1], i>> \in LoopStates \X Nat
    <3>1. i - 1 \in 0 .. n /\ i \in Nat
      BY <1>1
    <3> QED BY <3>1
  <2>2. step[<<g[i - 1], i>>] = Step(g[i - 1], i)
    BY <2>1
  <2>3. i \in 0 .. n /\ i # 0
    BY <1>1
  <2> HIDE DEF step, a
  <2> QED BY <1>7, <2>2, <2>3
<1>9. g[0] = a
  <2>1. 0 \in 0 .. n
    BY <1>1
  <2> HIDE DEF step, a
  <2> QED BY <1>7, <2>1
<1>10. IsLoop(g)
  <2>1. \A i \in 0 .. n :
          g[i] = IF i = 0 THEN a
                 ELSE IF i = g[i - 1].next THEN PacketizeNalu(g[i - 1], ns, l, i)
                 ELSE g[i - 1]
    <3> HIDE DEF a
    <3> QED BY <1>1, <1>8, <1>9 DEF Step
  <2> HIDE DEF a
  <2> QED BY <2>1 DEF n
<1>11. IsLoop(c)
  <2> HIDE DEF IsLoop
  <2> QED BY <1>10 DEF c
<1>12. c[0] = a /\ \A i \in 1 .. n : c[i] = Step(c[i - 1], i)
  <2> HIDE DEF a
  <2>1. c = [i \in 0 .. n |->
               IF i = 0 THEN a
               ELSE IF i = c[i - 1].next THEN PacketizeNalu(c[i - 1], ns, l, i)
               ELSE c[i - 1]]
    BY <1>11 DEF n
  <2> HIDE DEF IsLoop
  <2> QED BY <1>1, <2>1 DEF Step
<1> HIDE DEF IsLoop
<1>13. \A i \in 0 .. n : c[i] = g[i]
  <2> DEFINE Good == {i \in 0 .. n : c[i] = g[i]}
  <2>1. 0 \in Good
    <3> HIDE DEF a
    <3> QED BY <1>1, <1>9, <1>12
  <2>2. \A i \in 1 .. n : i - 1 \in Good => i \in Good
    <3> HIDE DEF a
    <3> QED BY <1>1, <1>8, <1>12
  <2>3. Good = 0 .. n
    <3>1. Good \in SUBSET (0 .. n)
      OBVIOUS
    <3> HIDE DEF Good
    <3> QED BY <1>1, <2>1, <2>2, <3>1, AtTheEnd
  <2> QED BY <2>3
<1>14. n \in 0 .. n
  BY <1>1
<1>15. DoPacketization(ns, l) = g[n]
  BY <1>2, <1>13, <1>14 DEF n
<1>16. \A i \in 1 .. n : g[i] = LoopStep(g[i - 1], ns, l, i)
  BY <1>8 DEF Step, LoopStep
<1>17. g[0] = LoopStart
  BY <1>9 DEF LoopStart
<1> HIDE DEF a, step
<1> QED BY <1>15, <1>16, <1>17 DEF n


\* The packets for the first m NAL units.
MadeUpTo(P, m, ns, l) == IF m = 0 THEN P = <<>> ELSE Piece(P, 1, m, ns, l)

\* The packets of the next NAL units go behind those made so far.
LEMMA AddPiece ==
  ASSUME NEW ns, NEW l, NEW P \in Units, NEW Q \in Units, NEW i \in Nat, i >= 1, NEW j \in Nat,
         j >= i, MadeUpTo(P, i - 1, ns, l), Piece(Q, i, j, ns, l)
  PROVE  MadeUpTo(P \o Q, j, ns, l)
<1>1. CASE i = 1
  <2>1. P = <<>>
    BY <1>1 DEF MadeUpTo
  <2>2. P \o Q = Q
    <3>1. Q \in Seq(UnitSet)
      BY DEF Units
    <3> QED BY <2>1, <3>1
  <2>3. j # 0 /\ Piece(P \o Q, 1, j, ns, l)
    BY <1>1, <2>2
  <2> QED BY <2>3 DEF MadeUpTo
<1>2. CASE i > 1
  <2> DEFINE b == i - 1
  <2>1. b \in Nat /\ b # 0 /\ b + 1 = i /\ 1 \in Nat /\ j # 0
    BY <1>2
  <2>2. Piece(P, 1, b, ns, l)
    BY <2>1 DEF MadeUpTo
  <2> HIDE DEF b
  <2>3. Piece(Q, b + 1, j, ns, l)
    BY <2>1
  <2>4. Piece(P \o Q, 1, j, ns, l)
    BY <2>1, <2>2, <2>3, JoinPieces
  <2> QED BY <2>1, <2>4 DEF MadeUpTo
<1> QED BY <1>1, <1>2

\* What holds after i rounds of do_packetization: the packets made so far, the
\* payloads counted for them, and the NAL unit the loop goes on with.  A NAL unit
\* that cannot be split ends it.
LoopOk(acc, ns, l, i) ==
  /\ acc \in LoopStates
  /\ acc.left = Payloads(acc.packets)
  /\ acc.next > i
  /\ \E m \in 0 .. Len(ns) :
       /\ MadeUpTo(acc.packets, m, ns, l)
       /\ acc.next \in {m + 1, Len(ns) + 1}
       /\ LeavesRoom(l) => acc.next = m + 1
  /\ acc.failed => \E k \in 1 .. Len(ns) : ns[k] = SinglePacketCapacity(l, k, Len(ns))

\* A round of the loop of do_packetization keeps that invariant.
LEMMA RoundKeepsLoopOk ==
  ASSUME NEW l \in AllLimits, NEW ns \in Nalus, NEW i \in 1 .. Len(ns), NEW acc,
         LoopOk(acc, ns, l, i - 1)
  PROVE  LoopOk(LoopStep(acc, ns, l, i), ns, l, i)
<1> DEFINE r == LoopStep(acc, ns, l, i)
           N == Len(ns)
<1>1. /\ acc \in LoopStates /\ acc.left = Payloads(acc.packets) /\ acc.next > i - 1
      /\ acc.failed => \E k \in 1 .. Len(ns) : ns[k] = SinglePacketCapacity(l, k, Len(ns))
  BY DEF LoopOk
<1>2. PICK m \in 0 .. Len(ns) :
        /\ MadeUpTo(acc.packets, m, ns, l)
        /\ acc.next \in {m + 1, Len(ns) + 1}
        /\ LeavesRoom(l) => acc.next = m + 1
  BY DEF LoopOk
<1>3. /\ N \in Nat /\ i \in Nat /\ i >= 1 /\ i <= N /\ ns[i] \in Nat
      /\ acc.packets \in Units /\ acc.next \in Int /\ acc.left \in Int
  BY <1>1 DEF Nalus, LoopStates
<1>4. CASE i # acc.next
  <2>1. r = acc
    BY <1>4 DEF LoopStep
  <2>2. acc.next > i
    BY <1>1, <1>3, <1>4
  <2> QED BY <1>1, <1>2, <2>1, <2>2 DEF LoopOk
<1>5. CASE i = acc.next
  <2>1. m = i - 1 /\ MadeUpTo(acc.packets, i - 1, ns, l)
    BY <1>2, <1>3, <1>5
  <2>2. r = PacketizeNalu(acc, ns, l, i)
    BY <1>5 DEF LoopStep
  <2>3. SinglePacketCapacity(l, i, N) \in Int
    BY <1>3, CapacityType
  <2> HIDE DEF r
  <2>4. CASE ns[i] > SinglePacketCapacity(l, i, N)
    <3> DEFINE sizes == FragmentSizes(ns, l, i)
               F == Fragments(i, sizes)
    <3>1. /\ sizes \in Seq(Nat)
          /\ r.packets = acc.packets \o F
          /\ r.left = acc.left + Len(sizes)
          /\ r.next = (IF sizes = <<>> THEN Len(ns) + 1 ELSE i + 1)
          /\ r.failed <=> acc.failed
          /\ r \in LoopStates
      <4>1. acc \in LoopStates /\ ns[i] > SinglePacketCapacity(l, i, Len(ns))
        BY <1>1, <2>4
      <4>2. sizes = FragmentSizes(ns, l, i) /\ F = Fragments(i, sizes)
        OBVIOUS
      <4> HIDE DEF sizes, F
      <4>3. IsFragmentRound(r, acc, ns, i, sizes)
        BY <2>2, <4>1, <4>2, RoundOfFragments
      <4> QED BY <4>2, <4>3 DEF IsFragmentRound
    <3>2. /\ sizes # <<>> => IsSplitOf(sizes, ns[i] - NalHeader, FuALimits(l, i, Len(ns)))
          /\ sizes = <<>> => ~ HasRoom(ns[i] - NalHeader, FuALimits(l, i, Len(ns)))
      BY <2>4, FragmentSizesAre
    <3> HIDE DEF sizes
    <3>3. Payloads(F) = Len(sizes) /\ F \in Units
      BY <1>3, <3>1, PayloadsOfFragments, FragmentsAre
    <3> HIDE DEF F
    <3>4. r.left = Payloads(r.packets)
      BY <1>1, <1>3, <3>1, <3>3, PayloadsJoin
    <3>5. r.failed => \E k \in 1 .. Len(ns) : ns[k] = SinglePacketCapacity(l, k, Len(ns))
      BY <1>1, <3>1
    <3>6. r.next > i
      BY <1>3, <3>1
    <3>7. CASE sizes = <<>>
      <4>1. ~ LeavesRoom(l)
        BY <1>3, <2>4, <3>2, <3>7, RoomForFragments
      <4>2. r.packets = acc.packets
        <5>1. F = <<>>
          <6>1. Len(F) = 0
            <7>1. Len(F) = Len(sizes)
              BY <1>3, <3>1, FragmentsAre DEF F
            <7> QED BY <3>7, <7>1
          <6> QED BY <3>3, <6>1, UnitsAre
        <5>2. acc.packets \in Seq(UnitSet)
          BY <1>3 DEF Units
        <5> QED BY <3>1, <5>1, <5>2
      <4>3. r.next = Len(ns) + 1
        BY <3>1, <3>7
      <4>4. MadeUpTo(r.packets, m, ns, l)
        BY <1>2, <4>2
      <4>5. LoopOk(r, ns, l, i)
        BY <3>1, <3>4, <3>5, <3>6, <4>1, <4>3, <4>4 DEF LoopOk
      <4> QED BY <4>5 DEF r
    <3>8. CASE sizes # <<>>
      <4>1. Piece(F, i, i, ns, l)
        BY <3>2, <3>8, FragmentsPiece DEF F
      <4>2. MadeUpTo(r.packets, i, ns, l)
        BY <1>3, <2>1, <3>1, <3>3, <4>1, AddPiece
      <4>3. r.next = i + 1 /\ i \in 0 .. Len(ns)
        BY <1>3, <3>1, <3>8
      <4>4. LoopOk(r, ns, l, i)
        BY <3>1, <3>4, <3>5, <3>6, <4>2, <4>3 DEF LoopOk
      <4> QED BY <4>4 DEF r
    <3> QED BY <3>7, <3>8
  <2>5. CASE ns[i] <= SinglePacketCapacity(l, i, N)
    <3> DEFINE j == LastAggregated(ns, l, i)
               A == Aggregate(ns, i, j)
    <3>0. j = LastAggregated(ns, l, i)
      OBVIOUS
    <3> HIDE DEF j
    <3>1. /\ j \in i .. Len(ns) /\ FitsUpTo(ns, l, i, j)
          /\ r.packets = acc.packets \o A
          /\ r.left = acc.left + 1 /\ r.next = j + 1
          /\ r.failed => acc.failed \/ ns[i] = SinglePacketCapacity(l, i, Len(ns))
          /\ r \in LoopStates
      <4>1. IsAggregateRound(r, acc, ns, l, i, j)
        BY <1>1, <2>2, <2>5, <3>0, RoundOfAggregate
      <4> QED BY <4>1 DEF IsAggregateRound
    <3>2. j \in Nat /\ j >= i /\ j \in 0 .. Len(ns) /\ j \in i - 1 .. Len(ns)
      BY <1>3, <3>1
    <3>3. Payloads(A) = 1
      BY <3>1, PayloadsOfAggregate
    <3>4. Piece(A, i, j, ns, l)
      BY <3>1, AggregatePiece
    <3> HIDE DEF A
    <3>5. A \in Units
      BY <3>4 DEF Piece, Chain
    <3>6. r.left = Payloads(r.packets)
      BY <1>1, <1>3, <3>1, <3>3, <3>5, PayloadsJoin
    <3>7. r.failed => \E k \in 1 .. Len(ns) : ns[k] = SinglePacketCapacity(l, k, Len(ns))
      BY <1>1, <3>1
    <3>8. r.next > i
      BY <1>3, <3>1, <3>2
    <3>9. MadeUpTo(r.packets, j, ns, l)
      BY <1>3, <2>1, <3>1, <3>2, <3>4, <3>5, AddPiece
    <3>10. LoopOk(r, ns, l, i)
      BY <3>1, <3>2, <3>6, <3>7, <3>8, <3>9 DEF LoopOk
    <3> QED BY <3>10 DEF r
  <2> QED BY <1>3, <2>3, <2>4, <2>5
<1> QED BY <1>4, <1>5

\* What do_packetization leaves: the packets of the first m NAL units, of all of
\* them when the limits leave room, and the number of their payloads.  It is a
\* NAL unit that fills its packet that makes an assertion fail.
IsPacketized(d, ns, l) ==
  /\ d \in LoopStates
  /\ d.left = Payloads(d.packets)
  /\ \E m \in 0 .. Len(ns) : MadeUpTo(d.packets, m, ns, l) /\ (LeavesRoom(l) => m = Len(ns))
  /\ d.failed => \E k \in 1 .. Len(ns) : ns[k] = SinglePacketCapacity(l, k, Len(ns))

\* do_packetization leaves the packets of a first part of the NAL units, of all of them
\* when the limits leave room.
LEMMA PacketizationMakes ==
  ASSUME NEW l \in AllLimits, NEW ns \in Nalus
  PROVE  IsPacketized(DoPacketization(ns, l), ns, l)
<1> DEFINE n == Len(ns)
<1>1. PICK g \in [0 .. Len(ns) -> LoopStates] :
        /\ g[0] = LoopStart
        /\ \A i \in 1 .. Len(ns) : g[i] = LoopStep(g[i - 1], ns, l, i)
        /\ DoPacketization(ns, l) = g[Len(ns)]
  BY PacketizationIsLoop
<1>2. n \in Nat
  BY DEF Nalus
<1> DEFINE Good == {i \in 0 .. n : LoopOk(g[i], ns, l, i)}
<1>3. 0 \in Good
  <2>1. g[0] \in LoopStates /\ g[0].packets = <<>> /\ g[0].left = 0 /\ g[0].next = 1
        /\ ~ g[0].failed
    <3>1. 0 \in 0 .. Len(ns)
      BY <1>2
    <3>2. g[0] \in LoopStates
      BY <1>1, <3>1
    <3>3. g[0] = [packets |-> <<>>, left |-> 0, next |-> 1, failed |-> FALSE]
      BY <1>1 DEF LoopStart
    <3> QED BY <3>2, <3>3
  <2>2. Payloads(<<>>) = 0
    <3>1. Ends(<<>>) = {}
      BY DEF Ends
    <3> QED BY <3>1, FS_EmptySet DEF Payloads
  <2>3. MadeUpTo(<<>>, 0, ns, l) /\ 0 \in 0 .. Len(ns) /\ 1 = 0 + 1
    BY <1>2 DEF MadeUpTo
  <2>4. LoopOk(g[0], ns, l, 0)
    BY <2>1, <2>2, <2>3 DEF LoopOk
  <2> QED BY <1>2, <2>4
<1>4. ASSUME NEW i \in 1 .. n, i - 1 \in Good
      PROVE  i \in Good
  <2>1. LoopOk(g[i - 1], ns, l, i - 1)
    BY <1>4
  <2>2. LoopOk(LoopStep(g[i - 1], ns, l, i), ns, l, i)
    BY <2>1, RoundKeepsLoopOk
  <2>3. LoopOk(g[i], ns, l, i)
    BY <1>1, <2>2
  <2> QED BY <1>2, <2>3
<1>5. n \in Good
  <2>1. Good \in SUBSET (0 .. n)
    OBVIOUS
  <2> HIDE DEF Good
  <2>2. Good = 0 .. n
    BY <1>2, <1>3, <1>4, <2>1, AtTheEnd
  <2> QED BY <1>2, <2>2
<1> DEFINE d == DoPacketization(ns, l)
<1>6. LoopOk(d, ns, l, Len(ns))
  BY <1>1, <1>5
<1> HIDE DEF d, Good
<1>7. PICK m \in 0 .. Len(ns) :
        /\ MadeUpTo(d.packets, m, ns, l)
        /\ LeavesRoom(l) => d.next = m + 1
  BY <1>6 DEF LoopOk
<1>8. d.next > Len(ns) /\ d \in LoopStates /\ d.left = Payloads(d.packets)
      /\ (d.failed => \E k \in 1 .. Len(ns) : ns[k] = SinglePacketCapacity(l, k, Len(ns)))
  BY <1>6 DEF LoopOk
<1>9. LeavesRoom(l) => m = Len(ns)
  BY <1>2, <1>7, <1>8
<1>10. IsPacketized(d, ns, l)
  BY <1>7, <1>8, <1>9 DEF IsPacketized
<1> QED BY <1>10 DEF d


-----------------------------------------------------------------------------
\* The first state.

\* What the constructor of PacketizerH264 leaves behind.
LEMMA FirstState ==
  ASSUME Init
  PROVE  /\ frame \in Frames /\ limits \in AllLimits /\ nalus = FoundNalus(frame)
         /\ nalus \in Nalus /\ sent = <<>>
         /\ packets = DoPacketization(nalus, limits).packets
         /\ left = DoPacketization(nalus, limits).left
         /\ failure = "assert" => DoPacketization(nalus, limits).failed
         /\ IsPacketized(DoPacketization(nalus, limits), nalus, limits)
<1>1. /\ frame \in Frames /\ limits \in AllLimits /\ nalus = FoundNalus(frame) /\ sent = <<>>
      /\ packets = DoPacketization(nalus, limits).packets
      /\ left = DoPacketization(nalus, limits).left
      /\ failure = "assert" => DoPacketization(nalus, limits).failed
  BY DEF Init
<1>2. nalus \in Nalus
  BY <1>1, FoundNalusType
<1>3. IsPacketized(DoPacketization(nalus, limits), nalus, limits)
  BY <1>1, <1>2, PacketizationMakes
<1> QED BY <1>1, <1>2, <1>3

\* Whatever the limits and the frame, an assertion of the constructor fails for
\* nothing but a NAL unit that fills its packet to the last byte: no fragment is
\* ever empty (packetize_FuA), and a NAL unit that do_packetization takes for
\* aggregation fits in what packetize_StapA counts (lines 222 and 247).
THEOREM FullNalusAssert == Spec => []OnlyFullNalusAssert
<1>1. Init => OnlyFullNalusAssert
  <2> SUFFICES ASSUME Init, failure = "assert"
               PROVE  \E k \in DOMAIN FoundNalus(frame) : FillsItsPacket(k)
    BY DEF OnlyFullNalusAssert
  <2>1. /\ nalus = FoundNalus(frame) /\ nalus \in Nalus
        /\ DoPacketization(nalus, limits).failed
        /\ IsPacketized(DoPacketization(nalus, limits), nalus, limits)
    BY FirstState
  <2>2. PICK k \in 1 .. Len(nalus) : nalus[k] = SinglePacketCapacity(limits, k, Len(nalus))
    BY <2>1 DEF IsPacketized
  <2>3. k \in DOMAIN nalus
    BY <2>1 DEF Nalus
  <2> QED BY <2>1, <2>2, <2>3 DEF FillsItsPacket
<1>2. OnlyFullNalusAssert /\ [Next]_vars => OnlyFullNalusAssert'
  <2> SUFFICES ASSUME OnlyFullNalusAssert, [Next]_vars PROVE OnlyFullNalusAssert'
    OBVIOUS
  <2>1. frame' = frame /\ limits' = limits /\ failure' = failure
    BY DEF Next, NextSinglePacket, NextAggregatePacket, NextFragmentPacket, HandOut, vars
  <2> QED BY <2>1 DEF OnlyFullNalusAssert, FillsItsPacket
<1> QED BY <1>1, <1>2, PTL DEF Spec
-----------------------------------------------------------------------------
\* What next_packet takes from packets_.

\* packets_ between two calls: it begins with a packet and ends with the last
\* one of the frame, if there was room for all.
TailOk(P, ns, l) ==
  /\ Chain(P, ns, l)
  /\ P # <<>> => /\ P[1].first \/ ~ P[1].aggregated
                 /\ P[Len(P)].last
                 /\ LeavesRoom(l) => P[Len(P)].unit.nalu = Len(ns)

\* The first n units make a payload.
IsPayload(P, n) ==
  /\ n \in 1 .. Len(P)
  /\ P[n].last \/ ~ P[n].aggregated
  /\ \A k \in 1 .. n - 1 : ~ P[k].last /\ P[k].aggregated

\* A payload of one kind: m NAL units leave nalus_ with it.
PayloadIs(P, kind, n, m) ==
  /\ IsPayload(P, n)
  /\ \/ /\ kind = (IF n = 1 THEN "single" ELSE "STAP-A") /\ m = n
        /\ P[1].first /\ P[n].last
        /\ \A k \in 1 .. n : P[k].aggregated /\ P[k].unit.nalu = P[1].unit.nalu + (k - 1)
     \/ /\ kind = "FU-A" /\ n = 1 /\ m = NalusDone(P[1])
        /\ ~ P[1].aggregated

\* Up to the first unit that ends a packet the NAL units go up one by one.
LEMMA GroupRises ==
  ASSUME NEW ns, NEW l, NEW P, Chain(P, ns, l), P # <<>>, P[1].aggregated,
         NEW n \in 1 .. Len(P), \A k \in 1 .. n - 1 : ~ P[k].last
  PROVE  \A k \in 1 .. n : P[k].aggregated /\ P[k].unit.nalu = P[1].unit.nalu + (k - 1)
<1> DEFINE Up(k) == P[k].aggregated /\ P[k].unit.nalu = P[1].unit.nalu + (k - 1)
           Good == {i \in 0 .. n - 1 : Up(i + 1)}
<1>1. P \in Units /\ \A k \in 1 .. Len(P) - 1 : Follows(P[k], P[k + 1])
  BY DEF Chain
<1>2. Len(P) \in Nat /\ n \in Nat /\ n - 1 \in Nat /\ \A k \in 1 .. Len(P) : P[k].unit.nalu \in Nat
  BY <1>1, UnitsAre
<1>3. 0 \in Good
  <2>1. P[1].unit.nalu \in Nat
    BY <1>2
  <2>2. Up(1)
    BY <2>1
  <2> HIDE DEF Up
  <2> QED BY <1>2, <2>2
<1>4. ASSUME NEW i \in 1 .. n - 1, i - 1 \in Good
      PROVE  i \in Good
  <2>1. Up(i)
    <3>1. i - 1 + 1 = i
      OBVIOUS
    <3>2. Up(i - 1 + 1)
      BY <1>4
    <3> HIDE DEF Up
    <3> QED BY <3>1, <3>2
  <2>2. i \in 1 .. Len(P) - 1 /\ i \in 1 .. n - 1
    BY <1>2
  <2>3. Follows(P[i], P[i + 1]) /\ ~ P[i].last
    BY <1>1, <2>2
  <2>4. P[i + 1].aggregated /\ P[i + 1].unit.nalu = P[i].unit.nalu + 1
    BY <2>1, <2>3 DEF Follows
  <2>5. Up(i + 1)
    <3>1. P[1].unit.nalu \in Nat
      BY <1>2
    <3>2. P[i].unit.nalu = P[1].unit.nalu + (i - 1)
      BY <2>1
    <3>3. P[i].unit.nalu + 1 = P[1].unit.nalu + (i + 1 - 1)
      <4> DEFINE a == P[1].unit.nalu
                 b == P[i].unit.nalu
      <4>1. a \in Nat /\ b = a + (i - 1)
        BY <3>1, <3>2
      <4> HIDE DEF a, b
      <4>2. b + 1 = a + (i + 1 - 1)
        BY <4>1
      <4> QED BY <4>2 DEF a, b
    <3> QED BY <2>1, <2>2, <2>4, <3>3
  <2> HIDE DEF Up
  <2> QED BY <1>2, <2>5
<1>5. Good = 0 .. n - 1
  <2>1. Good \in SUBSET (0 .. n - 1)
    OBVIOUS
  <2> DEFINE c == n - 1
  <2>2. c \in Nat /\ Good \in SUBSET (0 .. c) /\ (\A i \in 1 .. c : i - 1 \in Good => i \in Good)
    BY <1>2, <1>4, <2>1
  <2> HIDE DEF Good, c
  <2>3. Good = 0 .. c
    BY <1>3, <2>2, AtTheEnd
  <2> QED BY <2>3 DEF c
<1>6. \A k \in 1 .. n : Up(k)
  <2> TAKE k \in 1 .. n
  <2>1. k - 1 \in Good /\ k - 1 + 1 = k
    <3> HIDE DEF Good
    <3> QED BY <1>2, <1>5
  <2>2. Up(k - 1 + 1)
    BY <2>1
  <2> HIDE DEF Up
  <2> QED BY <2>1, <2>2
<1> QED BY <1>6


\* Every call of next_packet that hands something out hands out such a payload.
LEMMA StepTakesPayload ==
  ASSUME NEW ns, NEW l, TailOk(packets, ns, l), Next
  PROVE  \E kind \in {"single", "STAP-A", "FU-A"}, n, m \in Nat :
           PayloadIs(packets, kind, n, m) /\ HandOut(kind, n, m)
<1>1. /\ Chain(packets, ns, l) /\ packets \in Units
      /\ \A k \in 1 .. Len(packets) : UnitFits(packets[k], ns, l)
  BY DEF TailOk, Chain
<1>2. packets # <<>>
  BY DEF Next, NextSinglePacket, NextAggregatePacket, NextFragmentPacket, Ready
<1>3. /\ Len(packets) \in Nat /\ Len(packets) >= 1 /\ DOMAIN packets = 1 .. Len(packets)
      /\ 1 \in 1 .. Len(packets)
  BY <1>1, <1>2, UnitsAre
<1>4. (packets[1].first \/ ~ packets[1].aggregated) /\ packets[Len(packets)].last
  BY <1>2 DEF TailOk
<1>5. CASE NextSinglePacket
  <2>1. packets[1].first /\ packets[1].last /\ HandOut("single", 1, 1)
    BY <1>5 DEF NextSinglePacket, IsSingle
  <2>2. packets[1].aggregated
    BY <1>1, <1>3, <2>1 DEF UnitFits
  <2>3. packets[1].unit.nalu = packets[1].unit.nalu + (1 - 1)
    BY <1>1, <1>3, UnitsAre
  <2>4. PayloadIs(packets, "single", 1, 1)
    BY <1>3, <2>1, <2>2, <2>3 DEF PayloadIs, IsPayload
  <2> QED BY <2>1, <2>4
<1>6. CASE NextFragmentPacket
  <2>1. ~ packets[1].aggregated /\ HandOut("FU-A", 1, NalusDone(packets[1]))
    BY <1>6 DEF NextFragmentPacket
  <2>2. PayloadIs(packets, "FU-A", 1, NalusDone(packets[1]))
    BY <1>3, <2>1 DEF PayloadIs, IsPayload
  <2>3. NalusDone(packets[1]) \in Nat
    BY DEF NalusDone
  <2> QED BY <2>1, <2>2, <2>3
<1>7. CASE NextAggregatePacket
  <2> DEFINE S == {k \in 1 .. Len(packets) : packets[k].last}
             n == AggregatedUnits
  <2>1. packets[1].aggregated /\ packets[1].first /\ ~ packets[1].last
        /\ HandOut("STAP-A", AggregatedUnits, AggregatedUnits)
    BY <1>4, <1>7 DEF NextAggregatePacket, IsSingle
  <2>2. n = Min(S)
    BY <1>3 DEF AggregatedUnits
  <2>3. S \in SUBSET Nat /\ S # {}
    BY <1>3, <1>4
  <2>4. n \in S /\ \A k \in S : n <= k
    <3>1. \E k \in S : \A j \in S : k <= j
      <4> HIDE DEF S
      <4> QED BY <2>3, SmallestOf
    <3> HIDE DEF S, n
    <3> QED BY <2>2, <3>1 DEF Min
  <2> HIDE DEF n
  <2>5. n \in 1 .. Len(packets) /\ packets[n].last /\ \A k \in 1 .. n - 1 : ~ packets[k].last
    BY <1>3, <2>4
  <2>6. n # 1
    BY <2>1, <2>5
  <2>7. \A k \in 1 .. n : packets[k].aggregated
                          /\ packets[k].unit.nalu = packets[1].unit.nalu + (k - 1)
    BY <1>1, <1>2, <2>1, <2>5, GroupRises
  <2>8. \A k \in 1 .. n - 1 : ~ packets[k].last /\ packets[k].aggregated
    BY <1>3, <2>5, <2>7
  <2>9. PayloadIs(packets, "STAP-A", n, n)
    BY <2>1, <2>5, <2>6, <2>7, <2>8 DEF PayloadIs, IsPayload
  <2> QED BY <1>3, <2>1, <2>5, <2>9 DEF n
<1> QED BY <1>5, <1>6, <1>7 DEF Next

\* What is left when the first payload has gone.
IsLeft(R, P, n, ns, l) ==
  /\ TailOk(R, ns, l)
  /\ Payloads(R) = Payloads(P) - 1
  /\ Len(R) = Len(P) - n
  /\ \A k \in 1 .. Len(R) : R[k] = P[n + k]
  /\ R = <<>> <=> n = Len(P)

\* What hand-outs leave.
LEMMA PayloadLeaves ==
  ASSUME NEW ns, NEW l, NEW P, TailOk(P, ns, l), NEW n, IsPayload(P, n),
         NEW R, R = SubSeq(P, n + 1, Len(P))
  PROVE  IsLeft(R, P, n, ns, l)
<1>1. Chain(P, ns, l) /\ P \in Units /\ \A k \in 1 .. Len(P) - 1 : Follows(P[k], P[k + 1])
  BY DEF TailOk, Chain
<1>2. Len(P) \in Nat /\ n \in 1 .. Len(P) /\ n \in 0 .. Len(P)
      /\ P[n].last \in BOOLEAN /\ P[n].aggregated \in BOOLEAN
  BY <1>1, UnitsAre DEF IsPayload
<1>3. /\ Chain(R, ns, l) /\ Len(R) = Len(P) - n
      /\ \A k \in 1 .. Len(P) - n : R[k] = P[n + k]
  BY <1>1, <1>2, ChainTail
<1>4. R \in Units /\ (R # <<>> <=> Len(R) >= 1)
  BY <1>3, UnitsAre DEF Chain
<1>5. R = <<>> <=> n = Len(P)
  BY <1>2, <1>3, <1>4
<1>6. ASSUME R # <<>>
      PROVE  /\ R[1].first \/ ~ R[1].aggregated
             /\ R[Len(R)].last
             /\ LeavesRoom(l) => R[Len(R)].unit.nalu = Len(ns)
  <2>1. n \in 1 .. Len(P) - 1 /\ P # <<>>
    BY <1>1, <1>2, <1>5, <1>6, UnitsAre
  <2>2. R[1] = P[n + 1] /\ R[Len(R)] = P[Len(P)]
    <3>1. 1 \in 1 .. Len(P) - n /\ Len(P) - n \in 1 .. Len(P) - n /\ n + (Len(P) - n) = Len(P)
      BY <1>2, <2>1
    <3>2. R[Len(P) - n] = P[n + (Len(P) - n)]
      BY <1>3, <3>1
    <3> QED BY <1>3, <3>1, <3>2
  <2>3. Follows(P[n], P[n + 1])
    BY <1>1, <2>1
  <2>4. P[n + 1].first \/ ~ P[n + 1].aggregated
    BY <2>3 DEF Follows, IsPayload
  <2> QED BY <2>1, <2>2, <2>4 DEF TailOk
<1>7. TailOk(R, ns, l)
  BY <1>3, <1>6 DEF TailOk
<1>8. Payloads(R) = Payloads(P) - 1
  <2> DEFINE Q == SubSeq(P, 1, n)
  <2>1. P \in Seq(UnitSet)
    BY <1>1 DEF Units
  <2>2. Q \in Seq(UnitSet) /\ Len(Q) = n /\ \A k \in 1 .. n : Q[k] = P[k]
    BY <1>2, <2>1
  <2>3. Q \o R = P
    <3> DEFINE c == Len(P)
    <3>1. c \in Nat /\ 1 \in 1 .. c + 1 /\ n \in 1 - 1 .. c /\ c \in n .. c
      BY <1>2
    <3> HIDE DEF c
    <3>2. SubSeq(P, 1, n) \o SubSeq(P, n + 1, c) = SubSeq(P, 1, c)
      BY <2>1, <3>1, ConcatAdjacentSubSeq DEF c
    <3>3. SubSeq(P, 1, c) = P
      BY <2>1, SubSeqFull DEF c
    <3> QED BY <3>2, <3>3 DEF c
  <2>4. Ends(Q) = {n}
    BY <1>2, <2>2 DEF Ends, IsPayload
  <2>5. Payloads(Q) = 1 /\ Q \in Units
    BY <2>2, <2>4, FS_Singleton DEF Payloads, Units
  <2> HIDE DEF Q
  <2>6. Payloads(Q \o R) = Payloads(Q) + Payloads(R) /\ Payloads(R) \in Nat
    BY <1>4, <2>5, PayloadsJoin, EndsAre
  <2>7. Payloads(P) = 1 + Payloads(R)
    BY <2>3, <2>5, <2>6
  <2> QED BY <2>6, <2>7
<1> QED BY <1>3, <1>5, <1>7, <1>8 DEF IsLeft


-----------------------------------------------------------------------------
\* What holds in every state: packets_ is what is left of the packets, left
\* their number, and sent a sequence of payloads.

UnitData == [nalu : Nat, from : Nat, len : Nat]
PayloadSet == [kind : {"single", "STAP-A", "FU-A"}, units : Seq(UnitData),
               start : BOOLEAN, end : BOOLEAN, marker : BOOLEAN]
StateOk ==
  /\ frame \in Frames /\ limits \in AllLimits
  /\ TailOk(packets, FoundNalus(frame), limits)
  /\ left = Payloads(packets)
  /\ sent \in Seq(PayloadSet)

\* It holds of a new packetizer.
LEMMA StateOkAtFirst == Init => StateOk
<1> SUFFICES ASSUME Init PROVE StateOk
  OBVIOUS
<1> DEFINE d == DoPacketization(nalus, limits)
<1>1. /\ frame \in Frames /\ limits \in AllLimits /\ nalus = FoundNalus(frame)
      /\ nalus \in Nalus /\ sent = <<>> /\ packets = d.packets /\ left = d.left
      /\ IsPacketized(d, nalus, limits)
  BY FirstState
<1> HIDE DEF d
<1>2. left = Payloads(packets) /\ packets \in Units
  BY <1>1 DEF IsPacketized, LoopStates
<1>3. PICK m \in 0 .. Len(nalus) :
        MadeUpTo(packets, m, nalus, limits) /\ (LeavesRoom(limits) => m = Len(nalus))
  BY <1>1 DEF IsPacketized
<1>4. TailOk(packets, nalus, limits)
  <2>1. CASE m = 0
    <3>1. packets = <<>>
      BY <1>3, <2>1 DEF MadeUpTo
    <3>2. Chain(packets, nalus, limits)
      BY <1>2, <3>1 DEF Chain, GroupsFit, EvenFragments
    <3> QED BY <3>1, <3>2 DEF TailOk
  <2>2. CASE m # 0
    <3>1. Piece(packets, 1, m, nalus, limits)
      BY <1>3, <2>2 DEF MadeUpTo
    <3> QED BY <1>3, <3>1 DEF Piece, TailOk
  <2> QED BY <2>1, <2>2
<1>5. sent \in Seq(PayloadSet)
  BY <1>1
<1> QED BY <1>1, <1>2, <1>4, <1>5 DEF StateOk

\* The payload that is handed out.
HandedOut(P, kind, n, none) ==
  [kind |-> kind, units |-> [k \in 1 .. n |-> P[k].unit],
   start |-> P[1].first, end |-> P[n].last, marker |-> none]

\* It is a payload of as many units as were taken.
LEMMA HandedOutType ==
  ASSUME NEW P \in Units, NEW kind \in {"single", "STAP-A", "FU-A"}, NEW n \in 1 .. Len(P),
         NEW none \in BOOLEAN
  PROVE  /\ HandedOut(P, kind, n, none) \in PayloadSet
         /\ Len(HandedOut(P, kind, n, none).units) = n
<1> DEFINE s == [k \in 1 .. n |-> P[k].unit]
<1>1. /\ n \in Nat /\ 1 \in 1 .. Len(P)
      /\ \A k \in 1 .. n : P[k] \in UnitSet
  <2>1. P \in Seq(UnitSet)
    BY DEF Units
  <2>2. Len(P) \in Nat /\ \A k \in 1 .. Len(P) : P[k] \in UnitSet
    BY <2>1
  <2> QED BY <2>2
<1>2. \A k \in 1 .. n : s[k] \in UnitData
  BY <1>1 DEF UnitSet, UnitData
<1>3. s = [k \in 1 .. n |-> s[k]]
  OBVIOUS
<1> HIDE DEF s
<1>4. s \in Seq(UnitData) /\ Len(s) = n
  BY <1>1, <1>2, <1>3, SequenceOf
<1>5. P[1].first \in BOOLEAN /\ P[n].last \in BOOLEAN
  BY <1>1, UnitsAre
<1>6. HandedOut(P, kind, n, none)
        = [kind |-> kind, units |-> s, start |-> P[1].first, end |-> P[n].last, marker |-> none]
  BY DEF HandedOut, s
<1> QED BY <1>4, <1>5, <1>6 DEF PayloadSet

\* A step hands out one payload and leaves such a state.
LEMMA StepKeepsStateOk ==
  ASSUME StateOk, NEW kind \in {"single", "STAP-A", "FU-A"}, NEW n \in Nat, NEW m \in Nat,
         PayloadIs(packets, kind, n, m), HandOut(kind, n, m)
  PROVE  /\ StateOk'
         /\ packets \in Units /\ n \in 1 .. Len(packets)
         /\ packets # <<>>
         /\ sent' = Append(sent, HandedOut(packets, kind, n, packets' = <<>>))
         /\ HandedOut(packets, kind, n, packets' = <<>>) \in PayloadSet
         /\ Len(packets') = Len(packets) - n
         /\ \A k \in 1 .. Len(packets') : packets'[k] = packets[n + k]
         /\ packets' = <<>> <=> n = Len(packets)
         /\ frame' = frame /\ limits' = limits
<1> DEFINE ns == FoundNalus(frame)
           R == packets'
<1>1. TailOk(packets, ns, limits) /\ IsPayload(packets, n) /\ packets \in Units
      /\ frame \in Frames /\ limits \in AllLimits /\ sent \in Seq(PayloadSet)
      /\ left = Payloads(packets)
  BY DEF StateOk, PayloadIs, TailOk, Chain
<1>2. n \in 1 .. Len(packets)
  BY <1>1 DEF IsPayload
<1>3. /\ R = SubSeq(packets, n + 1, Len(packets)) /\ left' = left - 1
      /\ sent' = Append(sent, HandedOut(packets, kind, n, packets' = <<>>))
      /\ frame' = frame /\ limits' = limits
  BY DEF HandOut, HandedOut
<1> HIDE DEF ns, R
<1>4. /\ TailOk(R, ns, limits)
      /\ Payloads(R) = Payloads(packets) - 1
      /\ Len(R) = Len(packets) - n
      /\ \A k \in 1 .. Len(R) : R[k] = packets[n + k]
      /\ R = <<>> <=> n = Len(packets)
  <2>1. IsLeft(R, packets, n, ns, limits)
    BY <1>1, <1>3, PayloadLeaves
  <2> QED BY <2>1 DEF IsLeft
<1>5. HandedOut(packets, kind, n, packets' = <<>>) \in PayloadSet
  <2> DEFINE none == packets' = <<>>
  <2>1. none \in BOOLEAN
    OBVIOUS
  <2> HIDE DEF none
  <2>2. HandedOut(packets, kind, n, none) \in PayloadSet
    BY <1>1, <1>2, <2>1, HandedOutType
  <2> QED BY <2>2 DEF none
<1>6. sent' \in Seq(PayloadSet)
  <2> DEFINE p == HandedOut(packets, kind, n, packets' = <<>>)
  <2>1. p \in PayloadSet /\ sent' = Append(sent, p)
    BY <1>3, <1>5
  <2> HIDE DEF p
  <2> QED BY <1>1, <2>1
<1>7. left' = Payloads(R)
  BY <1>1, <1>3, <1>4
<1>8. packets # <<>>
  BY <1>1, <1>2, UnitsAre
<1>9. StateOk'
  <2>1. FoundNalus(frame') = ns /\ frame' \in Frames /\ limits' \in AllLimits
    BY <1>1, <1>3 DEF ns
  <2>2. TailOk(packets', FoundNalus(frame'), limits')
    BY <1>3, <1>4, <2>1 DEF R
  <2>3. left' = Payloads(packets')
    BY <1>7 DEF R
  <2> QED BY <1>6, <2>1, <2>2, <2>3 DEF StateOk
<1> QED BY <1>1, <1>2, <1>3, <1>4, <1>5, <1>8, <1>9 DEF R


\* packets_ begins with the first packet of the first NAL unit, and is empty for
\* an empty frame only, if there is room for all.
LEMMA FirstPackets ==
  ASSUME Init
  PROVE  /\ packets # <<>> => packets[1].first /\ packets[1].unit.nalu = 1
         /\ packets = <<>> /\ LeavesRoom(limits) => Len(nalus) = 0
<1> DEFINE d == DoPacketization(nalus, limits)
<1>1. packets = d.packets /\ IsPacketized(d, nalus, limits)
  BY FirstState
<1> HIDE DEF d
<1>2. PICK m \in 0 .. Len(nalus) :
        MadeUpTo(packets, m, nalus, limits) /\ (LeavesRoom(limits) => m = Len(nalus))
  BY <1>1 DEF IsPacketized
<1>3. CASE m = 0
  BY <1>2, <1>3 DEF MadeUpTo
<1>4. CASE m # 0
  BY <1>2, <1>4 DEF MadeUpTo, Piece
<1> QED BY <1>3, <1>4

\* A payload ends one NAL unit before the next payload begins.
LEMMA NextUnit ==
  ASSUME NEW ns \in Nalus, NEW l, NEW P, TailOk(P, ns, l), NEW kind, NEW n \in Nat, NEW m \in Nat,
         PayloadIs(P, kind, n, m)
  PROVE  /\ P[n].last => P[n].unit.nalu + 1 = P[1].unit.nalu + m
         /\ ~ P[n].last => n = 1 /\ m = 0
         /\ P[1].unit.nalu \in 1 .. Len(ns) /\ P[n].unit.nalu \in 1 .. Len(ns)
         /\ n < Len(P) => /\ P[n + 1].unit.nalu = P[1].unit.nalu + m
                          /\ P[n + 1].unit.nalu \in 1 .. Len(ns)
                          /\ P[n + 1].first <=> P[n].last
         /\ n = Len(P) => P[n].last
         /\ n = Len(P) /\ LeavesRoom(l) => Len(ns) + 1 = P[1].unit.nalu + m
<1>1. /\ P \in Units /\ \A k \in 1 .. Len(P) - 1 : Follows(P[k], P[k + 1])
      /\ \A k \in 1 .. Len(P) : UnitFits(P[k], ns, l)
      /\ n \in 1 .. Len(P)
  BY DEF TailOk, Chain, PayloadIs, IsPayload
<1>2. Len(P) \in Nat /\ 1 \in 1 .. Len(P) /\ P # <<>> /\ Len(ns) \in Nat
      /\ P[1].unit.nalu \in Nat /\ P[n].unit.nalu \in Nat
      /\ P[1].last \in BOOLEAN /\ P[n].last \in BOOLEAN
  <2>1. Len(P) \in Nat /\ 1 \in 1 .. Len(P)
    BY <1>1, UnitsAre
  <2> QED BY <1>1, <2>1, UnitsAre DEF Nalus
<1>3. \A k \in 1 .. Len(P) : P[k].unit.nalu \in 1 .. Len(ns)
  BY <1>1 DEF UnitFits
<1>4. ASSUME P[n].last
      PROVE  P[n].unit.nalu + 1 = P[1].unit.nalu + m
  <2>1. CASE kind = "FU-A" /\ n = 1 /\ m = NalusDone(P[1])
    BY <1>2, <1>4, <2>1 DEF NalusDone
  <2>2. CASE m = n /\ \A k \in 1 .. n : P[k].unit.nalu = P[1].unit.nalu + (k - 1)
    <3>1. P[n].unit.nalu = P[1].unit.nalu + (n - 1)
      BY <1>1, <2>2
    <3> QED BY <1>2, <2>2, <3>1
  <2> QED BY <2>1, <2>2 DEF PayloadIs
<1>5. ~ P[n].last => n = 1 /\ m = 0
  BY <1>1, <1>2 DEF PayloadIs, NalusDone
<1>6. n = Len(P) => P[n].last
  BY <1>2 DEF TailOk
<1>7. n = Len(P) /\ LeavesRoom(l) => Len(ns) + 1 = P[1].unit.nalu + m
  BY <1>2, <1>4, <1>6 DEF TailOk
<1>8. ASSUME n < Len(P)
      PROVE  /\ P[n + 1].unit.nalu = P[1].unit.nalu + m
             /\ P[n + 1].unit.nalu \in 1 .. Len(ns)
             /\ P[n + 1].first <=> P[n].last
  <2>1. n \in 1 .. Len(P) - 1 /\ n + 1 \in 1 .. Len(P)
    BY <1>1, <1>2, <1>8
  <2>2. Follows(P[n], P[n + 1]) /\ P[n + 1].unit.nalu \in 1 .. Len(ns)
    BY <1>1, <1>3, <2>1
  <2>3. P[n].last \/ ~ P[n].aggregated
    BY DEF PayloadIs, IsPayload
  <2>4. CASE P[n].last
    BY <1>2, <1>4, <2>2, <2>4 DEF Follows
  <2>5. CASE ~ P[n].last
    <3>1. P[n + 1].unit.nalu = P[n].unit.nalu /\ ~ P[n + 1].first
      BY <2>2, <2>3, <2>5 DEF Follows
    <3> QED BY <1>2, <1>5, <2>2, <2>5, <3>1
  <2> QED BY <2>4, <2>5
<1> QED BY <1>1, <1>2, <1>3, <1>4, <1>5, <1>6, <1>7, <1>8

\* The NAL units that are still in nalus_ and the marker bits.
CountsOk ==
  /\ nalus \in Seq(Nat)
  /\ LeavesRoom(limits) =>
       Len(nalus) = IF packets = <<>> THEN 0
                    ELSE Len(FoundNalus(frame)) + 1 - packets[1].unit.nalu
  /\ \A k \in 1 .. Len(sent) : sent[k].marker <=> k = Len(sent) /\ packets = <<>>

\* It holds of a new packetizer.
LEMMA CountsOkAtFirst == Init => CountsOk
<1> SUFFICES ASSUME Init PROVE CountsOk
  OBVIOUS
<1>1. nalus \in Nalus /\ nalus = FoundNalus(frame) /\ sent = <<>>
  BY FirstState
<1>2. nalus \in Seq(Nat) /\ Len(nalus) \in Nat
  BY <1>1 DEF Nalus
<1>3. /\ packets # <<>> => packets[1].unit.nalu = 1
      /\ packets = <<>> /\ LeavesRoom(limits) => Len(nalus) = 0
  BY FirstPackets
<1> QED BY <1>1, <1>2, <1>3 DEF CountsOk

\* Handing out a payload keeps it.
LEMMA StepKeepsCountsOk ==
  ASSUME StateOk, CountsOk, NEW kind \in {"single", "STAP-A", "FU-A"}, NEW n \in Nat, NEW m \in Nat,
         PayloadIs(packets, kind, n, m), HandOut(kind, n, m)
  PROVE  CountsOk'
<1> DEFINE ns == FoundNalus(frame)
           N == Len(FoundNalus(frame))
           p == HandedOut(packets, kind, n, packets' = <<>>)
<1>1. TailOk(packets, ns, limits) /\ ns \in Nalus /\ sent \in Seq(PayloadSet)
  BY FoundNalusType DEF StateOk
<1>2. /\ packets \in Units /\ n \in 1 .. Len(packets) /\ packets # <<>>
      /\ sent' = Append(sent, p) /\ p \in PayloadSet
      /\ Len(packets') = Len(packets) - n
      /\ \A k \in 1 .. Len(packets') : packets'[k] = packets[n + k]
      /\ packets' = <<>> <=> n = Len(packets)
      /\ frame' = frame /\ limits' = limits
  BY StepKeepsStateOk
<1>3. p.marker <=> packets' = <<>>
  BY DEF HandedOut
<1> HIDE DEF p
<1>4. \A k \in 1 .. Len(sent') : sent'[k].marker <=> k = Len(sent') /\ packets' = <<>>
  <2> TAKE k \in 1 .. Len(sent')
  <2>1. Len(sent) \in Nat /\ Len(sent') = Len(sent) + 1
        /\ sent'[k] = IF k = Len(sent) + 1 THEN p ELSE sent[k]
    BY <1>1, <1>2
  <2>2. CASE k = Len(sent')
    BY <1>3, <2>1, <2>2
  <2>3. CASE k # Len(sent')
    <3>1. k \in 1 .. Len(sent)
      BY <2>1, <2>3
    <3>2. ~ sent[k].marker
      BY <1>2, <3>1 DEF CountsOk
    <3> QED BY <2>1, <2>3, <3>2
  <2> QED BY <2>2, <2>3
<1>5. nalus \in Seq(Nat) /\ Len(nalus) \in Nat /\ nalus' = SubSeq(nalus, m + 1, Len(nalus))
  BY DEF CountsOk, HandOut
<1>6. nalus' \in Seq(Nat)
  BY <1>5
<1>7. ASSUME LeavesRoom(limits)
      PROVE  Len(nalus') = IF packets' = <<>> THEN 0 ELSE N + 1 - packets'[1].unit.nalu
  <2>1. Len(nalus) = N + 1 - packets[1].unit.nalu
    BY <1>2, <1>7 DEF CountsOk
  <2> HIDE DEF ns
  <2>2. /\ packets[1].unit.nalu \in 1 .. Len(ns)
        /\ n < Len(packets) => /\ packets[n + 1].unit.nalu = packets[1].unit.nalu + m
                               /\ packets[n + 1].unit.nalu \in 1 .. Len(ns)
        /\ n = Len(packets) => Len(ns) + 1 = packets[1].unit.nalu + m
    BY <1>1, <1>7, NextUnit
  <2>3. Len(packets) \in Nat /\ Len(ns) \in Nat /\ N = Len(ns)
    BY <1>1, <1>2, UnitsAre DEF ns, Nalus
  <2> HIDE DEF N
  <2>4. CASE n = Len(packets)
    <3>1. m = Len(nalus) /\ packets' = <<>>
      BY <1>2, <2>1, <2>2, <2>3, <2>4
    <3>2. Len(nalus') = 0
      BY <1>5, <3>1
    <3> QED BY <3>1, <3>2
  <2>5. CASE n # Len(packets)
    <3>1. n < Len(packets) /\ packets' # <<>> /\ 1 \in 1 .. Len(packets')
      BY <1>2, <2>3, <2>5
    <3>2. packets'[1].unit.nalu = packets[1].unit.nalu + m /\ packets'[1].unit.nalu \in 1 .. Len(ns)
      BY <1>2, <2>2, <3>1
    <3> DEFINE a == packets[1].unit.nalu
               b == packets'[1].unit.nalu
               len == Len(nalus')
    <3>3. m <= Len(nalus)
      <4>1. Len(nalus) = N + 1 - a /\ b = a + m /\ b <= N /\ a \in Nat /\ N \in Nat
        BY <2>1, <2>2, <2>3, <3>2
      <4> HIDE DEF a, b
      <4> QED BY <4>1
    <3>4. Len(nalus') = Len(nalus) - m
      BY <1>5, <3>3
    <3>5. len = Len(nalus) - m /\ Len(nalus) = N + 1 - a /\ b = a + m
      BY <2>1, <2>3, <3>2, <3>4
    <3>6. a \in Nat /\ N \in Nat
      BY <2>2, <2>3
    <3> HIDE DEF a, b, len
    <3>7. len = N + 1 - b
      BY <3>5, <3>6
    <3> QED BY <3>1, <3>7 DEF b, len
  <2> QED BY <2>4, <2>5
<1> QED BY <1>2, <1>4, <1>6, <1>7 DEF CountsOk


\* The invariant of packets_ holds in every state.
LEMMA StateOkAlways == Spec => []StateOk
<1>1. StateOk /\ [Next]_vars => StateOk'
  <2> SUFFICES ASSUME StateOk, [Next]_vars PROVE StateOk'
    OBVIOUS
  <2>1. CASE Next
    <3>1. TailOk(packets, FoundNalus(frame), limits)
      BY DEF StateOk
    <3>2. PICK kind \in {"single", "STAP-A", "FU-A"}, n \in Nat, m \in Nat :
            PayloadIs(packets, kind, n, m) /\ HandOut(kind, n, m)
      BY <2>1, <3>1, StepTakesPayload
    <3> QED BY <3>2, StepKeepsStateOk
  <2>2. CASE UNCHANGED vars
    BY <2>2 DEF StateOk, vars
  <2> QED BY <2>1, <2>2
<1> QED BY <1>1, StateOkAtFirst, PTL DEF Spec

\* num_packets_left_ is the number of payloads still to come, however the NAL
\* units are mixed into packets; only the last payload has the marker; and, when
\* the limits leave room for fragments, nalus_ runs empty together with packets_.
THEOREM CountsAlwaysAgree == Spec => [](LeavesRoom(limits) => CountsAgree)
<1>1. Init => CountsOk
  BY CountsOkAtFirst
<1>2. StateOk /\ CountsOk /\ [Next]_vars => CountsOk'
  <2> SUFFICES ASSUME StateOk, CountsOk, [Next]_vars PROVE CountsOk'
    OBVIOUS
  <2>1. CASE Next
    <3>1. TailOk(packets, FoundNalus(frame), limits)
      BY DEF StateOk
    <3>2. PICK kind \in {"single", "STAP-A", "FU-A"}, n \in Nat, m \in Nat :
            PayloadIs(packets, kind, n, m) /\ HandOut(kind, n, m)
      BY <2>1, <3>1, StepTakesPayload
    <3> QED BY <3>2, StepKeepsCountsOk
  <2>2. CASE UNCHANGED vars
    BY <2>2 DEF CountsOk, vars
  <2> QED BY <2>1, <2>2
<1>3. StateOk /\ CountsOk => (LeavesRoom(limits) => CountsAgree)
  <2> SUFFICES ASSUME StateOk, CountsOk, LeavesRoom(limits) PROVE CountsAgree
    OBVIOUS
  <2> DEFINE ns == FoundNalus(frame)
             S == {packets[k].unit.nalu : k \in 1 .. Len(packets)}
  <2>1. /\ Chain(packets, ns, limits) /\ packets \in Units
        /\ packets # <<>> => packets[Len(packets)].unit.nalu = Len(ns)
        /\ left = Payloads(packets) /\ sent \in Seq(PayloadSet)
    BY DEF StateOk, TailOk, Chain
  <2>2. Len(packets) \in Nat /\ DOMAIN packets = 1 .. Len(packets)
        /\ (packets # <<>> <=> Len(packets) >= 1) /\ DOMAIN sent = 1 .. Len(sent)
    BY <2>1, UnitsAre
  <2>3. left = Cardinality({k \in DOMAIN packets : packets[k].last \/ ~ packets[k].aggregated})
    BY <2>1, <2>2 DEF Payloads, Ends
  <2>4. \A k \in DOMAIN sent : sent[k].marker <=> k = Len(sent) /\ packets = <<>>
    BY <2>2 DEF CountsOk
  <2>5. Len(nalus) = Cardinality(S)
    <3>1. CASE packets = <<>>
      <4>1. S = {}
        BY <2>2, <3>1
      <4> HIDE DEF S
      <4> QED BY <3>1, <4>1, FS_EmptySet DEF CountsOk
    <3>2. CASE packets # <<>>
      <4> DEFINE a == packets[1].unit.nalu
                 b == Len(ns)
      <4>1. Len(packets) \in 1 .. Len(packets) /\ 1 \in 1 .. Len(packets)
        BY <2>2, <3>2
      <4>2. S = packets[1].unit.nalu .. packets[Len(packets)].unit.nalu
            /\ packets[1].unit.nalu <= packets[Len(packets)].unit.nalu
        BY <2>1, <4>1, ChainCovers
      <4>3. packets[Len(packets)].unit.nalu = Len(ns) /\ packets[1].unit.nalu \in Nat
            /\ Len(ns) \in Nat
        BY <2>1, <3>2, <4>1, UnitsAre
      <4>4. S = a .. b /\ a <= b /\ a \in Int /\ b \in Int
        BY <4>2, <4>3
      <4>5. Len(nalus) = b + 1 - a
        BY <3>2 DEF CountsOk
      <4> HIDE DEF S, a, b
      <4>6. Cardinality(a .. b) = IF a > b THEN 0 ELSE b - a + 1
        BY <4>4, FS_Interval
      <4> QED BY <4>4, <4>5, <4>6
    <3> QED BY <3>1, <3>2
  <2>6. Len(nalus) = Cardinality({packets[k].unit.nalu : k \in DOMAIN packets})
    BY <2>2, <2>5
  <2> QED BY <2>3, <2>4, <2>6 DEF CountsAgree
<1> QED BY <1>1, <1>2, <1>3, StateOkAlways, PTL DEF Spec
-----------------------------------------------------------------------------
\* The fragments of a NAL unit, handed out or still to come, are as even as
\* those of packets_.

EvenWith(u, q) ==
  ~ q.aggregated /\ u.units[1].nalu = q.unit.nalu =>
    /\ u.units[1].len - q.unit.len \in {-1, 0, 1}
    /\ q.unit.len - u.units[1].len \in {-1, 0, 1}
EvenOk ==
  limits.first = 0 /\ limits.last = 0 =>
    /\ \A j \in 1 .. Len(sent), k \in 1 .. Len(packets) :
         sent[j].kind = "FU-A" => EvenWith(sent[j], packets[k])
    /\ \A j, k \in 1 .. Len(sent) :
         sent[j].kind = "FU-A" /\ sent[k].kind = "FU-A"
           /\ sent[j].units[1].nalu = sent[k].units[1].nalu
         => sent[j].units[1].len - sent[k].units[1].len \in {-1, 0, 1}

\* Handing out a payload keeps it.
LEMMA StepKeepsEvenOk ==
  ASSUME StateOk, EvenOk, NEW kind \in {"single", "STAP-A", "FU-A"}, NEW n \in Nat, NEW m \in Nat,
         PayloadIs(packets, kind, n, m), HandOut(kind, n, m)
  PROVE  EvenOk'
<1> DEFINE p == HandedOut(packets, kind, n, packets' = <<>>)
           s == Len(sent)
<1>1. /\ packets \in Units /\ n \in 1 .. Len(packets)
      /\ sent' = Append(sent, p) /\ p \in PayloadSet
      /\ Len(packets') = Len(packets) - n
      /\ \A k \in 1 .. Len(packets') : packets'[k] = packets[n + k]
      /\ limits' = limits
  BY StepKeepsStateOk
<1>2. sent \in Seq(PayloadSet) /\ EvenFragments(packets, limits)
  BY DEF StateOk, TailOk, Chain
<1>3. p.kind = "FU-A" => /\ p.units[1] = packets[1].unit /\ ~ packets[1].aggregated
  <2> SUFFICES ASSUME p.kind = "FU-A"
               PROVE  p.units[1] = packets[1].unit /\ ~ packets[1].aggregated
    OBVIOUS
  <2>1. p.kind = kind /\ p.units = [k \in 1 .. n |-> packets[k].unit]
    BY DEF HandedOut
  <2>2. n = 1 /\ ~ packets[1].aggregated
    BY <2>1 DEF PayloadIs
  <2> HIDE DEF p
  <2> QED BY <2>1, <2>2
<1> HIDE DEF p
<1>4. /\ s \in Nat /\ Len(sent') = s + 1 /\ Len(packets) \in Nat /\ 1 \in 1 .. Len(packets)
      /\ \A k \in 1 .. s : sent'[k] = sent[k]
      /\ sent'[s + 1] = p
  BY <1>1, <1>2, UnitsAre
<1> HIDE DEF s
<1> SUFFICES ASSUME limits.first = 0, limits.last = 0
             PROVE  /\ \A j \in 1 .. s + 1, k \in 1 .. Len(packets') :
                         sent'[j].kind = "FU-A" => EvenWith(sent'[j], packets'[k])
                    /\ \A j, k \in 1 .. s + 1 :
                         sent'[j].kind = "FU-A" /\ sent'[k].kind = "FU-A"
                           /\ sent'[j].units[1].nalu = sent'[k].units[1].nalu
                         => sent'[j].units[1].len - sent'[k].units[1].len \in {-1, 0, 1}
  BY <1>1, <1>4 DEF EvenOk
<1>5. \A k \in 1 .. Len(packets) :
        EvenUnits(packets[1], packets[k]) /\ EvenUnits(packets[k], packets[1])
  BY <1>2, <1>4 DEF EvenFragments
<1>6. ASSUME p.kind = "FU-A", NEW k \in 1 .. Len(packets)
      PROVE  EvenWith(p, packets[k])
  BY <1>3, <1>5, <1>6 DEF EvenUnits, EvenWith
<1>7. ASSUME NEW j \in 1 .. s, sent[j].kind = "FU-A", NEW k \in 1 .. Len(packets)
      PROVE  EvenWith(sent[j], packets[k])
  BY <1>7 DEF EvenOk, s
<1>8. ASSUME NEW j \in 1 .. s + 1, NEW k \in 1 .. Len(packets'), sent'[j].kind = "FU-A"
      PROVE  EvenWith(sent'[j], packets'[k])
  <2>1. n + k \in 1 .. Len(packets) /\ packets'[k] = packets[n + k]
    BY <1>1, <1>4
  <2>2. CASE j = s + 1
    BY <1>4, <1>6, <1>8, <2>1, <2>2
  <2>3. CASE j # s + 1
    <3>1. j \in 1 .. s /\ sent'[j] = sent[j]
      BY <1>4, <2>3
    <3> QED BY <1>7, <1>8, <2>1, <3>1
  <2> QED BY <2>2, <2>3
<1>9. ASSUME NEW j \in 1 .. s + 1, NEW k \in 1 .. s + 1,
             sent'[j].kind = "FU-A", sent'[k].kind = "FU-A",
             sent'[j].units[1].nalu = sent'[k].units[1].nalu
      PROVE  sent'[j].units[1].len - sent'[k].units[1].len \in {-1, 0, 1}
  <2>1. packets[1].unit.len \in Nat /\ packets[1].unit.nalu \in Nat
    BY <1>1, <1>4, UnitsAre
  <2>2. CASE j = s + 1 /\ k = s + 1
    <3>1. sent'[j] = p /\ sent'[k] = p /\ p.units[1] = packets[1].unit
      BY <1>3, <1>4, <1>9, <2>2
    <3> QED BY <2>1, <3>1
  <2>3. CASE j = s + 1 /\ k # s + 1
    <3>1. /\ sent'[j] = p /\ p.kind = "FU-A" /\ k \in 1 .. s /\ sent'[k] = sent[k]
          /\ p.units[1] = packets[1].unit /\ ~ packets[1].aggregated
      BY <1>3, <1>4, <1>9, <2>3
    <3>2. EvenWith(sent[k], packets[1])
      BY <1>4, <1>7, <1>9, <3>1
    <3> QED BY <1>9, <3>1, <3>2 DEF EvenWith
  <2>4. CASE j # s + 1 /\ k = s + 1
    <3>1. /\ sent'[k] = p /\ p.kind = "FU-A" /\ j \in 1 .. s /\ sent'[j] = sent[j]
          /\ p.units[1] = packets[1].unit /\ ~ packets[1].aggregated
      BY <1>3, <1>4, <1>9, <2>4
    <3>2. EvenWith(sent[j], packets[1])
      BY <1>4, <1>7, <1>9, <3>1
    <3> QED BY <1>9, <3>1, <3>2 DEF EvenWith
  <2>5. CASE j # s + 1 /\ k # s + 1
    <3>1. j \in 1 .. s /\ k \in 1 .. s /\ sent'[j] = sent[j] /\ sent'[k] = sent[k]
      BY <1>4, <2>5
    <3> QED BY <1>9, <3>1 DEF EvenOk, s
  <2> QED BY <2>2, <2>3, <2>4, <2>5
<1> QED BY <1>8, <1>9


\* "Split about equally": the fragments of one NAL unit differ by a byte at most
\* when no packet has to leave extra room, whatever their number and whatever
\* was handed out between them.
THEOREM FragmentsAlwaysAboutEqual == Spec => []FragmentsAboutEqual
<1>1. Init => EvenOk
  <2> SUFFICES ASSUME Init PROVE EvenOk
    OBVIOUS
  <2>1. sent = <<>>
    BY FirstState
  <2>2. Len(sent) = 0
    BY <2>1
  <2> QED BY <2>2 DEF EvenOk
<1>2. StateOk /\ EvenOk /\ [Next]_vars => EvenOk'
  <2> SUFFICES ASSUME StateOk, EvenOk, [Next]_vars PROVE EvenOk'
    OBVIOUS
  <2>1. CASE Next
    <3>1. TailOk(packets, FoundNalus(frame), limits)
      BY DEF StateOk
    <3>2. PICK kind \in {"single", "STAP-A", "FU-A"}, n \in Nat, m \in Nat :
            PayloadIs(packets, kind, n, m) /\ HandOut(kind, n, m)
      BY <2>1, <3>1, StepTakesPayload
    <3> QED BY <3>2, StepKeepsEvenOk
  <2>2. CASE UNCHANGED vars
    BY <2>2 DEF EvenOk, vars
  <2> QED BY <2>1, <2>2
<1>3. StateOk /\ EvenOk => FragmentsAboutEqual
  <2> SUFFICES ASSUME StateOk, EvenOk PROVE FragmentsAboutEqual
    OBVIOUS
  <2>1. DOMAIN sent = 1 .. Len(sent)
    BY DEF StateOk
  <2> QED BY <2>1 DEF EvenOk, FragmentsAboutEqual
<1> QED BY <1>1, <1>2, <1>3, StateOkAlways, PTL DEF Spec

-----------------------------------------------------------------------------
\* The sizes of the payloads.

\* The bytes that packetize_StapA adds to k NAL units in one packet.
AllHeaders(k) == IF k <= 1 THEN 0 ELSE NalHeader + LengthField * k

\* What it counts for NAL units i .. i + n - 1 is their bytes and the headers.
LEMMA HeadersAddUp ==
  ASSUME NEW n \in Nat, NEW i \in Nat, NEW u, \A k \in 1 .. n : u[k] \in Int,
         NEW f, \A k \in 1 .. n : f[k] = u[k] + AggregateHeaders(i, i + k - 1)
  PROVE  Total(f, n) = Total(u, n) + AllHeaders(n)
<1> DEFINE Good == {k \in 0 .. n : Total(f, k) = Total(u, k) + AllHeaders(k)}
<1>1. \A k \in 1 .. n : AggregateHeaders(i, i + k - 1)
                          = IF k = 1 THEN 0 ELSE IF k = 2 THEN 5 ELSE 2
  BY DEF AggregateHeaders, LengthField, NalHeader
<1>2. \A k \in 1 .. n : f[k] \in Int
                        /\ f[k] = u[k] + (IF k = 1 THEN 0 ELSE IF k = 2 THEN 5 ELSE 2)
  BY <1>1
<1>3. ASSUME NEW k \in 0 .. n
      PROVE  /\ Total(u, k) \in Int
             /\ k = 0 => Total(f, k) = 0 /\ Total(u, k) = 0
             /\ k > 0 => /\ Total(f, k) = Total(f, k - 1) + f[k]
                         /\ Total(u, k) = Total(u, k - 1) + u[k]
                         /\ Total(u, k - 1) \in Int
  <2>1. k \in Nat /\ (\A j \in 1 .. k : u[j] \in Int) /\ (\A j \in 1 .. k : f[j] \in Int)
    BY <1>2
  <2> QED BY <2>1, TotalGrows
<1>4. 0 \in Good
  BY <1>3 DEF AllHeaders
<1>5. ASSUME NEW k \in 1 .. n, k - 1 \in Good
      PROVE  k \in Good
  <2>1. Total(f, k - 1) = Total(u, k - 1) + AllHeaders(k - 1)
    BY <1>5
  <2>2. AllHeaders(k) = AllHeaders(k - 1) + (IF k = 1 THEN 0 ELSE IF k = 2 THEN 5 ELSE 2)
        /\ AllHeaders(k - 1) \in Int
    BY DEF AllHeaders, NalHeader, LengthField
  <2>3. k \in 0 .. n /\ k > 0 /\ u[k] \in Int
    OBVIOUS
  <2>4. Total(f, k) = Total(u, k) + AllHeaders(k)
    BY <1>2, <1>3, <2>1, <2>2, <2>3
  <2> QED BY <2>3, <2>4
<1>6. Good = 0 .. n
  <2>1. Good \in SUBSET (0 .. n)
    OBVIOUS
  <2> HIDE DEF Good
  <2> QED BY <1>4, <1>5, <2>1, AtTheEnd
<1>7. n \in Good
  <2> HIDE DEF Good
  <2> QED BY <1>6
<1> QED BY <1>7

\* The room that the first and the last payload of a frame have to leave, and
\* the one that is both.
IsRoomy(size, first, last, l) ==
  /\ size \in Int /\ size <= l.max
  /\ first /\ last => size <= l.max - l.single
  /\ first /\ ~ last => size <= l.max - l.first
  /\ last /\ ~ first => size <= l.max - l.last
IsFirst(P) == P[1].first /\ P[1].unit.nalu = 1
IsLast(P, n, ns) == P[n].last /\ P[n].unit.nalu = Len(ns)

\* A single NAL unit or a STAP-A leaves the room its place in the frame asks for.
LEMMA AggregateIsRoomy ==
  ASSUME NEW ns \in Nalus, NEW l \in AllLimits, LeavesRoom(l), NEW P, TailOk(P, ns, l),
         NEW kind, kind # "FU-A", NEW n \in Nat, NEW m \in Nat, PayloadIs(P, kind, n, m),
         NEW none, NEW p, p = HandedOut(P, kind, n, none)
  PROVE  IsRoomy(PayloadSize(p), IsFirst(P), IsLast(P, n, ns), l)
<1> DEFINE i == P[1].unit.nalu
           j == P[n].unit.nalu
           N == Len(ns)
           u == [k \in 1 .. n |-> P[k].unit.len]
           f == [k \in 1 .. j - i + 1 |-> ns[i + k - 1] + AggregateHeaders(i, i + k - 1)]
<1>1. /\ P \in Units /\ n \in 1 .. Len(P) /\ P[1].first /\ P[n].last /\ GroupsFit(P, ns, l)
      /\ \A k \in 1 .. Len(P) : UnitFits(P[k], ns, l)
      /\ \A k \in 1 .. n : P[k].aggregated /\ P[k].unit.nalu = P[1].unit.nalu + (k - 1)
      /\ \A k \in 1 .. n - 1 : ~ P[k].last
      /\ kind = (IF n = 1 THEN "single" ELSE "STAP-A")
  BY DEF TailOk, Chain, PayloadIs, IsPayload
<1>2. /\ Len(P) \in Nat /\ 1 \in 1 .. Len(P) /\ 1 \in 1 .. n /\ n \in n .. Len(P)
      /\ i \in Nat /\ N \in Nat
      /\ \A k \in 1 .. n : k \in 1 .. Len(P)
      /\ \A k \in 1 .. N : ns[k] \in Nat
  <2>1. Len(P) \in Nat /\ 1 \in 1 .. Len(P)
    BY <1>1, UnitsAre
  <2> QED BY <1>1, <2>1, UnitsAre DEF Nalus
<1>3. j = i + (n - 1) /\ i \in 1 .. N /\ j \in 1 .. N
  BY <1>1, <1>2 DEF UnitFits
<1>4. FitsUpTo(ns, l, i, j)
  <2>1. IsGroup(P, 1, n)
    BY <1>1, <1>2 DEF IsGroup
  <2> QED BY <1>1, <1>2, <2>1 DEF GroupsFit
<1>5. \A k \in 1 .. n : i + k - 1 \in 1 .. N /\ P[k].unit.len = ns[i + k - 1] /\ u[k] = ns[i + k - 1]
  <2> TAKE k \in 1 .. n
  <2>1. UnitFits(P[k], ns, l) /\ P[k].aggregated /\ P[k].unit.nalu = i + (k - 1)
    BY <1>1, <1>2
  <2>2. P[k].unit.len = ns[P[k].unit.nalu] /\ P[k].unit.nalu \in 1 .. N
    BY <2>1 DEF UnitFits
  <2>3. i + (k - 1) = i + k - 1
    BY <1>2
  <2> QED BY <2>1, <2>2, <2>3
<1>5a. \A k \in 1 .. n : u[k] \in Int
  <2> TAKE k \in 1 .. n
  <2>1. u[k] = ns[i + k - 1] /\ i + k - 1 \in 1 .. N
    BY <1>5
  <2>2. ns[i + k - 1] \in Nat
    BY <1>2, <2>1
  <2> HIDE DEF u, i, N
  <2> QED BY <2>1, <2>2
<1>6. PayloadSize(p) = Total(u, n) + AllHeaders(n)
  <2> DEFINE v == [k \in DOMAIN p.units |-> p.units[k].len]
             units == [k \in 1 .. n |-> P[k].unit]
  <2>1. p.kind = kind /\ p.units = units
    BY DEF HandedOut
  <2>2. DOMAIN units = 1 .. n /\ \A k \in 1 .. n : units[k] = P[k].unit
    OBVIOUS
  <2>3. v = u
    <3> HIDE DEF units
    <3> QED BY <2>1, <2>2
  <2>4. Len(p.units) = n
    <3>1. units = [k \in 1 .. n |-> units[k]] /\ n \in Nat
      OBVIOUS
    <3>2. \A k \in 1 .. n : units[k] \in [nalu : Nat, from : Nat, len : Nat]
      <4> TAKE k \in 1 .. n
      <4>1. P \in Seq(UnitSet) /\ k \in 1 .. Len(P)
        BY <1>1, <1>2 DEF Units
      <4>2. P[k] \in UnitSet
        BY <4>1
      <4> QED BY <2>2, <4>2 DEF UnitSet
    <3> HIDE DEF units
    <3> QED BY <2>1, <3>1, <3>2, SequenceOf
  <2> DEFINE t == Total(v, Len(p.units))
  <2>5. PayloadSize(p) = IF p.kind = "single" THEN t
                         ELSE IF p.kind = "FU-A" THEN FuAHeader + t
                         ELSE NalHeader + LengthField * Len(p.units) + t
    BY Zenon DEF PayloadSize
  <2>6. t = Total(u, n)
    BY <2>3, <2>4, Zenon
  <2> HIDE DEF t, v, units
  <2> HIDE DEF u
  <2>8. Total(u, n) \in Int
    BY <1>5a, TotalGrows
  <2>9. CASE n = 1
    BY <1>1, <2>1, <2>5, <2>6, <2>8, <2>9 DEF AllHeaders
  <2>10. CASE n # 1
    <3>1. AllHeaders(n) = NalHeader + LengthField * n /\ kind = "STAP-A"
      BY <1>1, <2>10 DEF AllHeaders
    <3> QED BY <2>1, <2>4, <2>5, <2>6, <2>8, <3>1 DEF NalHeader, LengthField
  <2> QED BY <2>9, <2>10
<1>7. Total(f, n) = Total(u, n) + AllHeaders(n) /\ Total(u, n) \in Int /\ AllHeaders(n) \in Int
  <2>2. \A k \in 1 .. n : f[k] = u[k] + AggregateHeaders(i, i + k - 1)
    <3>1. j - i + 1 = n
      BY <1>2, <1>3
    <3> QED BY <1>5, <3>1
  <2> HIDE DEF u, f, i
  <2>3. AllHeaders(n) \in Int
    BY DEF AllHeaders, NalHeader, LengthField
  <2>4. Total(f, n) = Total(u, n) + AllHeaders(n)
    BY <1>2, <1>5a, <2>2, HeadersAddUp
  <2>5. Total(u, n) \in Int
    BY <1>5a, TotalGrows
  <2> QED BY <2>3, <2>4, <2>5
<1>8. Total(f, n) + (IF j = N /\ j # 1 THEN l.last ELSE 0) <= StapACapacity(l, i, N)
  <2>1. Total(f, j - i + 1) + (IF j = N /\ j # 1 THEN l.last ELSE 0) <= StapACapacity(l, i, N)
    BY <1>4 DEF FitsUpTo
  <2>2. j - i + 1 = n
    BY <1>2, <1>3
  <2> HIDE DEF f
  <2> QED BY <2>1, <2>2
<1>9. /\ l.max \in Nat /\ l.first \in Nat /\ l.last \in Nat /\ l.single \in Nat
      /\ l.single <= l.first + l.last
  BY LimitsAre DEF LeavesRoom
<1> DEFINE size == PayloadSize(p)
<1>10. size \in Int /\ size + (IF j = N /\ j # 1 THEN l.last ELSE 0)
         <= l.max - (IF N = 1 THEN l.single ELSE IF i = 1 THEN l.first ELSE 0)
  BY <1>6, <1>7, <1>8 DEF StapACapacity
<1>11. (IsFirst(P) <=> i = 1) /\ (IsLast(P, n, ns) <=> j = N)
  BY <1>1 DEF IsFirst, IsLast
<1> HIDE DEF size, i, j, N
<1>12. /\ size <= l.max
       /\ i = 1 /\ j = N => size <= l.max - l.single
       /\ i = 1 /\ j # N => size <= l.max - l.first
       /\ i # 1 /\ j = N => size <= l.max - l.last
  <2>1. i \in Int /\ j \in Int /\ N \in Int /\ i <= j /\ i >= 1 /\ j <= N
    BY <1>2, <1>3
  <2>2. CASE N = 1
    BY <1>9, <1>10, <2>1, <2>2
  <2>3. CASE N # 1 /\ i = 1
    BY <1>9, <1>10, <2>1, <2>3
  <2>4. CASE N # 1 /\ i # 1
    BY <1>9, <1>10, <2>1, <2>4
  <2> QED BY <2>2, <2>3, <2>4
<1>13. IsRoomy(size, IsFirst(P), IsLast(P, n, ns), l)
  BY <1>10, <1>11, <1>12 DEF IsRoomy
<1> QED BY <1>13 DEF size


\* So does a fragment of a NAL unit.
LEMMA FragmentIsRoomy ==
  ASSUME NEW ns \in Nalus, NEW l \in AllLimits, NEW P, TailOk(P, ns, l),
         NEW n \in Nat, NEW m \in Nat, PayloadIs(P, "FU-A", n, m),
         NEW none, NEW p, p = HandedOut(P, "FU-A", n, none)
  PROVE  IsRoomy(PayloadSize(p), IsFirst(P), IsLast(P, n, ns), l)
<1> DEFINE u == [k \in 1 .. 1 |-> P[1].unit.len]
<1>1. n = 1 /\ ~ P[1].aggregated /\ n \in 1 .. Len(P) /\ P \in Units
      /\ \A k \in 1 .. Len(P) : UnitFits(P[k], ns, l)
  BY DEF TailOk, Chain, PayloadIs, IsPayload
<1>2. 1 \in 1 .. Len(P) /\ P[1].unit.len \in Nat
  BY <1>1, UnitsAre
<1>3. /\ ~ (P[1].first /\ P[1].last)
      /\ FuAHeader + P[1].unit.len
           <= l.max - (IF P[1].first /\ P[1].unit.nalu = 1 THEN l.first ELSE 0)
      /\ FuAHeader + P[1].unit.len
           <= l.max - (IF P[1].last /\ P[1].unit.nalu = Len(ns) THEN l.last ELSE 0)
  BY <1>1, <1>2 DEF UnitFits
<1>4. PayloadSize(p) = FuAHeader + P[1].unit.len
  <2> DEFINE units == [k \in 1 .. n |-> P[k].unit]
             v == [k \in DOMAIN p.units |-> p.units[k].len]
             t == Total(v, Len(p.units))
  <2>1. p.kind = "FU-A" /\ p.units = units
    BY DEF HandedOut
  <2>2. DOMAIN units = 1 .. 1 /\ units[1] = P[1].unit /\ Len(units) = 1
    BY <1>1
  <2>3. DOMAIN p.units = 1 .. 1 /\ p.units[1] = P[1].unit /\ Len(p.units) = 1
    <3> HIDE DEF units
    <3> QED BY <2>1, <2>2
  <2>4. v[1] = P[1].unit.len
    BY <2>3
  <2>5. PayloadSize(p) = IF p.kind = "single" THEN t
                         ELSE IF p.kind = "FU-A" THEN FuAHeader + t
                         ELSE NalHeader + LengthField * Len(p.units) + t
    BY Zenon DEF PayloadSize
  <2>6. t = Total(v, 1)
    BY <2>3
  <2> HIDE DEF v, t
  <2>7. Total(v, 1) = v[1]
    <3>1. \A k \in 1 .. 1 : v[k] \in Int
      BY <1>2, <2>4
    <3>2. \A k \in 1 .. 0 : v[k] \in Int
      OBVIOUS
    <3>3. Total(v, 0) = 0
      BY <3>2, TotalGrows
    <3>4. Total(v, 1) = Total(v, 1 - 1) + v[1]
      BY <3>1, TotalGrows
    <3> QED BY <1>2, <2>4, <3>3, <3>4
  <2> QED BY <2>1, <2>4, <2>5, <2>6, <2>7
<1>5. l.max \in Nat /\ l.first \in Nat /\ l.last \in Nat
  BY LimitsAre
<1> DEFINE size == PayloadSize(p)
<1>6. size \in Int /\ size = FuAHeader + P[1].unit.len
  BY <1>2, <1>4 DEF FuAHeader
<1> HIDE DEF size
<1>7. IsRoomy(size, IsFirst(P), IsLast(P, n, ns), l)
  BY <1>1, <1>3, <1>5, <1>6 DEF IsRoomy, IsFirst, IsLast
<1> QED BY <1>7 DEF size

\* Every payload so far fits, and the first one leaves its room.
FitOk ==
  /\ packets # <<>> => (sent = <<>> <=> IsFirst(packets))
  /\ packets # <<>> =>
       \A k \in 1 .. Len(sent) :
         PayloadSize(sent[k]) <= limits.max - (IF k = 1 THEN limits.first ELSE 0)
  /\ PayloadsFit

\* It holds of a new packetizer.
LEMMA FitOkAtFirst == Init => FitOk
<1> SUFFICES ASSUME Init PROVE FitOk
  OBVIOUS
<1>1. sent = <<>> /\ (packets # <<>> => IsFirst(packets))
  BY FirstState, FirstPackets DEF IsFirst
<1>2. Len(sent) = 0 /\ DOMAIN sent = {}
  BY <1>1
<1> QED BY <1>1, <1>2 DEF FitOk, PayloadsFit

\* Handing out a payload keeps it.
LEMMA StepKeepsFitOk ==
  ASSUME StateOk, FitOk, LeavesRoom(limits),
         NEW kind \in {"single", "STAP-A", "FU-A"}, NEW n \in Nat, NEW m \in Nat,
         PayloadIs(packets, kind, n, m), HandOut(kind, n, m)
  PROVE  FitOk'
<1> DEFINE ns == FoundNalus(frame)
           p == HandedOut(packets, kind, n, packets' = <<>>)
           s == Len(sent)
           size == PayloadSize(p)
           first == IsFirst(packets)
           last == IsLast(packets, n, ns)
<1>1. TailOk(packets, ns, limits) /\ ns \in Nalus /\ sent \in Seq(PayloadSet)
      /\ limits \in AllLimits
  BY FoundNalusType DEF StateOk
<1>2. /\ packets \in Units /\ n \in 1 .. Len(packets) /\ packets # <<>>
      /\ sent' = Append(sent, p) /\ p \in PayloadSet
      /\ Len(packets') = Len(packets) - n
      /\ \A k \in 1 .. Len(packets') : packets'[k] = packets[n + k]
      /\ packets' = <<>> <=> n = Len(packets)
      /\ limits' = limits
  BY StepKeepsStateOk
<1>3. IsRoomy(size, first, last, limits)
  <2> HIDE DEF ns
  <2> DEFINE none == packets' = <<>>
  <2>1. CASE kind = "FU-A"
    <3> HIDE DEF none
    <3>1. p = HandedOut(packets, "FU-A", n, none)
      BY <2>1 DEF none
    <3> HIDE DEF p
    <3>2. PayloadIs(packets, "FU-A", n, m)
      BY <2>1
    <3> QED BY <1>1, <3>1, <3>2, FragmentIsRoomy
  <2>2. CASE kind # "FU-A"
    <3> HIDE DEF none
    <3>1. p = HandedOut(packets, kind, n, none)
      BY DEF none
    <3> HIDE DEF p
    <3> QED BY <1>1, <2>2, <3>1, AggregateIsRoomy
  <2> QED BY <2>1, <2>2
<1>4. /\ packets[n].last => packets[n].unit.nalu + 1 = packets[1].unit.nalu + m
      /\ packets[1].unit.nalu \in 1 .. Len(ns) /\ packets[n].unit.nalu \in 1 .. Len(ns)
      /\ n < Len(packets) => /\ packets[n + 1].unit.nalu = packets[1].unit.nalu + m
                             /\ packets[n + 1].unit.nalu \in 1 .. Len(ns)
                             /\ packets[n + 1].first <=> packets[n].last
      /\ n = Len(packets) => packets[n].last
      /\ n = Len(packets) => Len(ns) + 1 = packets[1].unit.nalu + m
  <2> HIDE DEF ns
  <2> QED BY <1>1, NextUnit
<1>5. Len(packets) \in Nat /\ Len(ns) \in Nat
  BY <1>1, <1>2, UnitsAre DEF Nalus
<1>6. last <=> packets' = <<>>
  <2> DEFINE a == packets[1].unit.nalu
             b == packets[n].unit.nalu
             c == packets[n + 1].unit.nalu
  <2>1. last <=> packets[n].last /\ b = Len(ns)
    BY DEF IsLast
  <2>2. a \in Nat /\ b \in Nat /\ (packets[n].last => b + 1 = a + m)
    BY <1>4, <1>5
  <2>3. CASE n = Len(packets)
    <3>1. packets[n].last /\ Len(ns) + 1 = a + m
      BY <1>4, <2>3
    <3> HIDE DEF a, b, ns
    <3>2. b = Len(ns)
      BY <1>5, <2>2, <3>1
    <3> QED BY <1>2, <2>1, <2>3, <3>1, <3>2
  <2>4. CASE n < Len(packets)
    <3>1. c = a + m /\ c \in 1 .. Len(ns)
      BY <1>4, <2>4
    <3>2. packets' # <<>>
      BY <1>2, <1>5, <2>4
    <3> HIDE DEF a, b, c, ns, last
    <3>3. packets[n].last => b # Len(ns)
      BY <1>5, <2>2, <3>1
    <3> QED BY <2>1, <3>2, <3>3
  <2>5. n = Len(packets) \/ n < Len(packets)
    BY <1>2, <1>5
  <2> QED BY <2>3, <2>4, <2>5
<1>7. packets' # <<>> => ~ IsFirst(packets')
  <2> SUFFICES ASSUME packets' # <<>>, IsFirst(packets') PROVE FALSE
    OBVIOUS
  <2>1. n < Len(packets) /\ 1 \in 1 .. Len(packets')
    BY <1>2, <1>5
  <2>2. packets'[1] = packets[n + 1]
    BY <1>2, <2>1
  <2>3. packets[n + 1].first /\ packets[n + 1].unit.nalu = 1
    BY <2>2 DEF IsFirst
  <2> DEFINE a == packets[1].unit.nalu
             b == packets[n].unit.nalu
             c == packets[n + 1].unit.nalu
  <2>4. packets[n].last /\ c = 1 /\ c = a + m
    BY <1>4, <2>1, <2>3
  <2>5. b + 1 = a + m /\ b \in 1 .. Len(ns)
    BY <1>4, <2>4
  <2> HIDE DEF b, c
  <2> QED BY <1>5, <2>4, <2>5
<1>8. first <=> sent = <<>>
  BY <1>2 DEF FitOk
<1>9. /\ limits.max \in Nat /\ limits.first \in Nat /\ limits.last \in Nat
  BY <1>1, LimitsAre
<1>10. /\ s \in Nat /\ Len(sent') = s + 1 /\ DOMAIN sent' = 1 .. s + 1 /\ sent' # <<>>
       /\ \A k \in 1 .. s : sent'[k] = sent[k]
       /\ sent'[s + 1] = p
       /\ sent = <<>> <=> s = 0
  <2> HIDE DEF p
  <2> QED BY <1>1, <1>2
<1>11. \A k \in 1 .. s :
         PayloadSize(sent[k]) <= limits.max - (IF k = 1 THEN limits.first ELSE 0)
  BY <1>2 DEF FitOk
<1>12. PayloadSize(sent'[s + 1]) = size
  BY <1>10
<1> HIDE DEF p, s, size, first, last, ns
<1>13. ASSUME packets' # <<>>, NEW k \in 1 .. s + 1
       PROVE  PayloadSize(sent'[k]) <= limits.max - (IF k = 1 THEN limits.first ELSE 0)
  <2>1. CASE k = s + 1
    BY <1>3, <1>6, <1>8, <1>9, <1>10, <1>12, <1>13, <2>1 DEF IsRoomy
  <2>2. CASE k # s + 1
    <3>1. k \in 1 .. s
      BY <1>10, <2>2
    <3> QED BY <1>10, <1>11, <3>1
  <2> QED BY <2>1, <2>2
<1>14. ASSUME packets' = <<>>, NEW k \in 1 .. s + 1
       PROVE  PayloadSize(sent'[k]) <= limits.max - RoomLeft(k)'
  <2>1. RoomLeft(k)' = IF s = 0 THEN limits.single
                       ELSE IF k = 1 THEN limits.first
                       ELSE IF k = s + 1 THEN limits.last ELSE 0
    <3>1. RoomLeft(k)' = IF packets' = <<>> /\ Len(sent') = 1 THEN limits'.single
                         ELSE IF k = 1 THEN limits'.first
                         ELSE IF packets' = <<>> /\ k = Len(sent') THEN limits'.last ELSE 0
      BY DEF RoomLeft
    <3>2. Len(sent') = 1 <=> s = 0
      BY <1>10
    <3> QED BY <1>2, <1>10, <1>14, <3>1, <3>2
  <2>2. CASE k = s + 1
    BY <1>3, <1>6, <1>8, <1>10, <1>12, <1>14, <2>1, <2>2 DEF IsRoomy
  <2>3. CASE k # s + 1
    <3>1. k \in 1 .. s /\ s # 0
      BY <1>10, <2>3
    <3>2. RoomLeft(k)' = IF k = 1 THEN limits.first ELSE 0
      BY <2>1, <2>3, <3>1
    <3> QED BY <1>10, <1>11, <3>1, <3>2
  <2> QED BY <2>2, <2>3
<1>15. PayloadsFit'
  BY <1>2, <1>10, <1>14 DEF PayloadsFit
<1> QED BY <1>2, <1>7, <1>10, <1>13, <1>15 DEF FitOk

\* However the NAL units are mixed into packets, no payload is larger than the
\* limits allow, headers and length fields included, and the first and the last
\* one of a frame leave the room that is asked for, when the limits leave room
\* for fragments at all.
THEOREM PayloadsAlwaysFit == Spec => [](LeavesRoom(limits) => PayloadsFit)
<1> DEFINE Inv == LeavesRoom(limits) => FitOk
<1>1. Init => Inv
  BY FitOkAtFirst
<1>2. StateOk /\ Inv /\ [Next]_vars => Inv'
  <2> SUFFICES ASSUME StateOk, Inv, [Next]_vars PROVE Inv'
    OBVIOUS
  <2>1. CASE Next
    <3>1. TailOk(packets, FoundNalus(frame), limits)
      BY DEF StateOk
    <3>2. PICK kind \in {"single", "STAP-A", "FU-A"}, n \in Nat, m \in Nat :
            PayloadIs(packets, kind, n, m) /\ HandOut(kind, n, m)
      BY <2>1, <3>1, StepTakesPayload
    <3>3. limits' = limits
      BY <3>2 DEF HandOut
    <3>4. CASE LeavesRoom(limits)
      <4>1. FitOk
        BY <3>4
      <4>2. FitOk'
        BY <3>2, <3>4, <4>1, StepKeepsFitOk
      <4> QED BY <4>2
    <3>5. CASE ~ LeavesRoom(limits)
      BY <3>3, <3>5 DEF LeavesRoom
    <3> QED BY <3>4, <3>5
  <2>2. CASE UNCHANGED vars
    <3>1. packets' = packets /\ sent' = sent /\ limits' = limits
      BY <2>2 DEF vars
    <3>2. \A k : RoomLeft(k)' = RoomLeft(k)
      BY <3>1 DEF RoomLeft
    <3> QED BY <3>1, <3>2 DEF FitOk, PayloadsFit, IsFirst, LeavesRoom
  <2> QED BY <2>1, <2>2
<1>3. Inv => (LeavesRoom(limits) => PayloadsFit)
  BY DEF FitOk
<1> HIDE DEF Inv
<1> QED BY <1>1, <1>2, <1>3, StateOkAlways, PTL DEF Spec
-----------------------------------------------------------------------------
\* What a receiver has rebuilt.

IsMade(g, s) ==
  g = [k \in 0 .. Len(s) |-> IF k = 0 THEN <<>> ELSE Depacketize(g[k - 1], s[k])]

\* RebuiltFrom goes on by one payload at a time.
LEMMA RebuiltRuns ==
  ASSUME NEW s, Len(s) \in Nat
  PROVE  \E g : IsMade(g, s) /\ RebuiltFrom(s) = g[Len(s)]
<1> DEFINE n == Len(s)
           Made(g, m) == g = [k \in 0 .. m |-> IF k = 0 THEN <<>> ELSE Depacketize(g[k - 1], s[k])]
           Good == {m \in 0 .. n : \E g : Made(g, m)}
           c == CHOOSE g : IsMade(g, s)
<1>1. 0 \in Good
  <2> DEFINE g == [k \in 0 .. 0 |-> <<>>]
  <2>1. g = [k \in 0 .. 0 |-> IF k = 0 THEN <<>> ELSE Depacketize(g[k - 1], s[k])]
    OBVIOUS
  <2>2. Made(g, 0)
    BY <2>1
  <2> HIDE DEF g, Made
  <2> QED BY <2>2
<1>2. ASSUME NEW m \in 1 .. n, m - 1 \in Good
      PROVE  m \in Good
  <2>1. PICK g : Made(g, m - 1)
    BY <1>2
  <2>2. \A k \in 0 .. m - 1 : g[k] = IF k = 0 THEN <<>> ELSE Depacketize(g[k - 1], s[k])
    BY <2>1
  <2> HIDE DEF Made
  <2> DEFINE h == [k \in 0 .. m |-> IF k < m THEN g[k] ELSE Depacketize(g[m - 1], s[m])]
  <2>3. ASSUME NEW k \in 0 .. m
        PROVE  h[k] = IF k = 0 THEN <<>> ELSE Depacketize(h[k - 1], s[k])
    <3>1. CASE k < m
      <4>1. h[k] = g[k] /\ (k # 0 => h[k - 1] = g[k - 1]) /\ k \in 0 .. m - 1
        BY <3>1
      <4> HIDE DEF h
      <4> QED BY <2>2, <4>1
    <3>2. CASE k = m
      <4>1. h[m] = Depacketize(g[m - 1], s[m]) /\ h[m - 1] = g[m - 1] /\ m # 0
        OBVIOUS
      <4> HIDE DEF h
      <4> QED BY <3>2, <4>1
    <3> QED BY <3>1, <3>2
  <2>4. h = [k \in 0 .. m |-> h[k]]
    OBVIOUS
  <2> HIDE DEF h
  <2>5. h = [k \in 0 .. m |-> IF k = 0 THEN <<>> ELSE Depacketize(h[k - 1], s[k])]
    BY <2>3, <2>4
  <2>6. Made(h, m)
    BY <2>5 DEF Made
  <2> QED BY <2>6
<1>3. n \in Good
  <2>1. Good \in SUBSET (0 .. n)
    OBVIOUS
  <2> HIDE DEF Good
  <2>2. Good = 0 .. n
    BY <1>1, <1>2, <2>1, AtTheEnd
  <2> QED BY <2>2
<1>4. \E g : IsMade(g, s)
  <2>1. \E g : Made(g, n)
    BY <1>3
  <2> QED BY <2>1 DEF IsMade
<1>5. IsMade(c, s)
  BY <1>4
<1>6. RebuiltFrom(s) = c[Len(s)]
  BY Zenon DEF RebuiltFrom, IsMade
<1> HIDE DEF c
<1> QED BY <1>5, <1>6

\* One more payload is depacketized after all those before it.
LEMMA RebuiltNext ==
  ASSUME NEW s, Len(s) \in Nat, NEW t, NEW p,
         Len(t) = Len(s) + 1, \A k \in 1 .. Len(s) : t[k] = s[k], t[Len(s) + 1] = p
  PROVE  RebuiltFrom(t) = Depacketize(RebuiltFrom(s), p)
<1> DEFINE n == Len(s)
<1>1. n \in Nat /\ Len(t) = n + 1
  OBVIOUS
<1>2. PICK g : IsMade(g, s) /\ RebuiltFrom(s) = g[n]
  BY RebuiltRuns
<1>3. PICK h : IsMade(h, t) /\ RebuiltFrom(t) = h[n + 1]
  <2>1. Len(t) \in Nat
    BY <1>1
  <2> QED BY <1>1, <2>1, RebuiltRuns
<1>4. \A k \in 0 .. n : g[k] = IF k = 0 THEN <<>> ELSE Depacketize(g[k - 1], s[k])
  BY <1>2 DEF IsMade
<1>5. \A k \in 0 .. n + 1 : h[k] = IF k = 0 THEN <<>> ELSE Depacketize(h[k - 1], t[k])
  BY <1>1, <1>3 DEF IsMade
<1>6. \A k \in 1 .. n : t[k] = s[k]
  OBVIOUS
<1> HIDE DEF n
<1> DEFINE Good == {k \in 0 .. n : h[k] = g[k]}
<1>7. 0 \in Good
  BY <1>1, <1>4, <1>5
<1>8. ASSUME NEW k \in 1 .. n, k - 1 \in Good
      PROVE  k \in Good
  <2>1. h[k - 1] = g[k - 1] /\ t[k] = s[k] /\ k # 0 /\ k \in 0 .. n /\ k \in 0 .. n + 1
    BY <1>1, <1>6, <1>8
  <2> QED BY <1>4, <1>5, <2>1
<1>9. Good = 0 .. n
  <2>1. Good \in SUBSET (0 .. n)
    OBVIOUS
  <2> HIDE DEF Good
  <2> QED BY <1>1, <1>7, <1>8, <2>1, AtTheEnd
<1>10. h[n] = g[n]
  BY <1>1, <1>9
<1>11. h[n + 1] = Depacketize(h[n], t[n + 1])
  <2> DEFINE q == n + 1
  <2>1. q \in 0 .. q /\ q # 0 /\ q - 1 = n
    BY <1>1
  <2>2. \A k \in 0 .. q : h[k] = IF k = 0 THEN <<>> ELSE Depacketize(h[k - 1], t[k])
    BY <1>5
  <2> HIDE DEF q
  <2>3. h[q] = Depacketize(h[n], t[q])
    BY <2>1, <2>2
  <2> QED BY <2>3 DEF q
<1> QED BY <1>2, <1>3, <1>10, <1>11 DEF n

\* Nothing is rebuilt from no payload.
LEMMA RebuiltFromNone == RebuiltFrom(<<>>) = <<>>
<1>1. Len(<<>>) = 0
  OBVIOUS
<1>2. PICK g : IsMade(g, <<>>) /\ RebuiltFrom(<<>>) = g[0]
  <2>1. Len(<<>>) \in Nat
    BY <1>1
  <2> QED BY <1>1, <2>1, RebuiltRuns
<1> QED BY <1>1, <1>2 DEF IsMade

\* The first n NAL units, and these with the next one broken off at from.
Whole(ns, n) == [k \in 1 .. n |-> [nalu |-> k, len |-> ns[k], open |-> FALSE]]
Broken(ns, n, from) == Append(Whole(ns, n), [nalu |-> n + 1, len |-> from, open |-> TRUE])

\* What is rebuilt when units P are still to come.
SoFar(ns, P) ==
  IF P = <<>> THEN Whole(ns, Len(ns))
  ELSE IF P[1].first THEN Whole(ns, P[1].unit.nalu - 1)
  ELSE Broken(ns, P[1].unit.nalu - 1, P[1].unit.from)

RebuiltNalu == [nalu : Nat, len : Nat, open : BOOLEAN]

\* Whole NAL units, their number, and what is next.
LEMMA WholeIs ==
  ASSUME NEW ns \in Nalus, NEW n \in 0 .. Len(ns)
  PROVE  /\ Whole(ns, n) \in Seq(RebuiltNalu) /\ Len(Whole(ns, n)) = n
         /\ \A k \in 1 .. n : Whole(ns, n)[k] = [nalu |-> k, len |-> ns[k], open |-> FALSE]
<1> DEFINE w == Whole(ns, n)
<1>1. Len(ns) \in Nat /\ n \in Nat /\ \A k \in 1 .. Len(ns) : ns[k] \in Nat
  BY DEF Nalus
<1>2. \A k \in 1 .. n : w[k] = [nalu |-> k, len |-> ns[k], open |-> FALSE]
  BY DEF Whole
<1>3. w = [k \in 1 .. n |-> w[k]]
  BY DEF Whole
<1> HIDE DEF w
<1>4. \A k \in 1 .. n : w[k] \in RebuiltNalu
  <2> TAKE k \in 1 .. n
  <2>1. k \in Nat /\ ns[k] \in Nat
    BY <1>1
  <2>2. [nalu |-> k, len |-> ns[k], open |-> FALSE] \in RebuiltNalu
    BY <2>1 DEF RebuiltNalu
  <2> QED BY <1>2, <2>2
<1>5. w \in Seq(RebuiltNalu) /\ Len(w) = n
  BY <1>1, <1>3, <1>4, SequenceOf
<1> QED BY <1>2, <1>5 DEF w

\* A NAL unit that is completed makes one more whole NAL unit.
LEMMA WholeGrows ==
  ASSUME NEW ns \in Nalus, NEW a \in 1 .. Len(ns)
  PROVE  Append(Whole(ns, a - 1), [nalu |-> a, len |-> ns[a], open |-> FALSE]) = Whole(ns, a)
<1> DEFINE w == Whole(ns, a - 1)
           v == Whole(ns, a)
           r == [nalu |-> a, len |-> ns[a], open |-> FALSE]
<1>1. Len(ns) \in Nat /\ a \in Nat /\ a - 1 \in 0 .. Len(ns) /\ a \in 0 .. Len(ns) /\ a - 1 + 1 = a
      /\ ns[a] \in Nat
  BY DEF Nalus
<1>2. /\ w \in Seq(RebuiltNalu) /\ Len(w) = a - 1
      /\ \A k \in 1 .. a - 1 : w[k] = [nalu |-> k, len |-> ns[k], open |-> FALSE]
  BY <1>1, WholeIs
<1>3. /\ v \in Seq(RebuiltNalu) /\ Len(v) = a
      /\ \A k \in 1 .. a : v[k] = [nalu |-> k, len |-> ns[k], open |-> FALSE]
  BY <1>1, WholeIs
<1>4. r \in RebuiltNalu
  BY <1>1 DEF RebuiltNalu
<1> HIDE DEF w, v
<1>5. /\ Append(w, r) \in Seq(RebuiltNalu) /\ Len(Append(w, r)) = a
      /\ \A k \in 1 .. a - 1 : Append(w, r)[k] = w[k]
      /\ Append(w, r)[a] = r
  <2> HIDE DEF r
  <2> QED BY <1>1, <1>2, <1>4
<1>6. \A k \in 1 .. a : Append(w, r)[k] = v[k]
  <2> TAKE k \in 1 .. a
  <2>1. CASE k = a
    BY <1>3, <1>5, <2>1
  <2>2. CASE k # a
    <3>1. k \in 1 .. a - 1
      BY <1>1, <2>2
    <3> QED BY <1>2, <1>3, <1>5, <3>1
  <2> QED BY <2>1, <2>2
<1>7. Append(w, r) = v
  <2> HIDE DEF r
  <2> DEFINE x == Append(w, r)
  <2>1. x \in Seq(RebuiltNalu) /\ Len(x) = Len(v) /\ \A k \in 1 .. Len(x) : x[k] = v[k]
    BY <1>3, <1>5, <1>6
  <2> HIDE DEF x
  <2>2. x = v
    BY <1>3, <2>1, SeqEqual
  <2> QED BY <2>2 DEF x
<1> QED BY <1>7 DEF w, v

\* What is left when a NAL unit is broken off, and where.
LEMMA BrokenIs ==
  ASSUME NEW ns \in Nalus, NEW n \in 0 .. Len(ns), NEW from \in Nat
  PROVE  LET b == Broken(ns, n, from)
         IN  /\ b # <<>>
             /\ Last(b) = [nalu |-> n + 1, len |-> from, open |-> TRUE]
             /\ Front(b) = Whole(ns, n)
<1> DEFINE w == Whole(ns, n)
           r == [nalu |-> n + 1, len |-> from, open |-> TRUE]
           b == Append(w, r)
<1>1. Len(ns) \in Nat /\ n \in Nat
  BY DEF Nalus
<1>2. w \in Seq(RebuiltNalu) /\ Len(w) = n
  BY WholeIs
<1>3. r \in RebuiltNalu
  BY <1>1 DEF RebuiltNalu
<1>4. Broken(ns, n, from) = b
  BY DEF Broken
<1> HIDE DEF w, r
<1>5. b # <<>> /\ Len(b) = n + 1 /\ b[n + 1] = r
  BY <1>1, <1>2, <1>3
<1>6. Front(b) = w
  <2>1. SubSeq(b, 1, Len(b) - 1) = w
    <3> DEFINE x == SubSeq(b, 1, n)
    <3>1. b \in Seq(RebuiltNalu) /\ \A k \in 1 .. n : b[k] = w[k]
      BY <1>1, <1>2, <1>3
    <3> HIDE DEF b
    <3>2. x \in Seq(RebuiltNalu) /\ Len(x) = n /\ \A k \in 1 .. n : x[k] = b[k]
      BY <1>1, <1>5, <3>1
    <3> HIDE DEF x
    <3>3. x = w
      BY <1>2, <3>1, <3>2, SeqEqual
    <3>4. Len(b) - 1 = n
      BY <1>1, <1>5
    <3> QED BY <3>3, <3>4 DEF x
  <2> QED BY <2>1 DEF Front
<1>7. Last(b) = r
  <2> HIDE DEF b
  <2> QED BY <1>5 DEF Last
<1> HIDE DEF b
<1> QED BY <1>4, <1>5, <1>6, <1>7 DEF w, r

\* A rebuilt NAL unit with another length and another end.
Changed(r, len, open) == [r EXCEPT !.len = len, !.open = open]
NaluOf(nalu, len, open) == [nalu |-> nalu, len |-> len, open |-> open]
\* Changing the length and the end of one keeps its number.
LEMMA ChangedNalu ==
  ASSUME NEW r, NEW nalu, NEW len0, NEW open0, NEW len, NEW open, r = NaluOf(nalu, len0, open0)
  PROVE  Changed(r, len, open) = NaluOf(nalu, len, open)
<1> USE DEF NaluOf, Changed
<1> DEFINE m == [nalu |-> nalu, len |-> len, open |-> open0]
<1>1. [r EXCEPT !.len = len, !.open = open] = [[r EXCEPT !.len = len] EXCEPT !.open = open]
  OBVIOUS
<1>2. [r EXCEPT !.len = len] = m
  OBVIOUS
<1>3. [m EXCEPT !.open = open] = [nalu |-> nalu, len |-> len, open |-> open]
  OBVIOUS
<1> HIDE DEF m
<1> QED BY <1>1, <1>2, <1>3

\* What a payload adds to what is rebuilt, by its kind.
LEMMA DepacketizeUnits ==
  ASSUME NEW acc, NEW p, p.kind # "FU-A"
  PROVE  Depacketize(acc, p)
           = acc \o [k \in DOMAIN p.units |->
                       IF p.units[k].from = 0
                       THEN [nalu |-> p.units[k].nalu, len |-> p.units[k].len, open |-> FALSE]
                       ELSE Garbage]
BY DEF Depacketize

\* The first fragment opens a NAL unit.
LEMMA DepacketizeFirst ==
  ASSUME NEW acc, NEW p, p.kind = "FU-A", p.start, p.units[1].from = NalHeader
  PROVE  Depacketize(acc, p)
           = Append(acc, [nalu |-> p.units[1].nalu, len |-> NalHeader + p.units[1].len,
                          open |-> ~ p.end])
BY DEF Depacketize

\* A later fragment goes behind what is there of the NAL unit.
LEMMA DepacketizeMore ==
  ASSUME NEW acc, NEW p, p.kind = "FU-A", ~ p.start, acc # <<>>,
         Last(acc) = [nalu |-> p.units[1].nalu, len |-> p.units[1].from, open |-> TRUE]
  PROVE  Depacketize(acc, p)
           = Append(Front(acc), [nalu |-> p.units[1].nalu,
                                 len |-> p.units[1].from + p.units[1].len, open |-> ~ p.end])
<1> DEFINE u == p.units[1]
           last == Last(acc)
           r == [nalu |-> u.nalu, len |-> u.from + u.len, open |-> ~ p.end]
<1>1. last.open /\ last.nalu = u.nalu /\ last.len = u.from
  OBVIOUS
<1>2. [last EXCEPT !.len = @ + u.len, !.open = ~ p.end] = r
  <2> DEFINE x == u.nalu
             y == u.from
             len == y + u.len
             open == ~ p.end
             yes == TRUE
  <2>1. last = [nalu |-> x, len |-> y, open |-> yes]
    OBVIOUS
  <2> HIDE DEF last, x, y, yes
  <2>2. last.len = y
    BY <2>1
  <2>3. [last EXCEPT !.len = @ + u.len, !.open = ~ p.end]
          = [last EXCEPT !.len = len, !.open = open]
    BY <2>2
  <2> HIDE DEF len, open
  <2>4. [last EXCEPT !.len = len, !.open = open] = [nalu |-> x, len |-> len, open |-> open]
    <3>1. last = NaluOf(x, y, yes)
      BY <2>1 DEF NaluOf
    <3>2. Changed(last, len, open) = NaluOf(x, len, open)
      BY ONLY <3>1, ChangedNalu
    <3> QED BY <3>2 DEF Changed, NaluOf
  <2>5. r = [nalu |-> x, len |-> len, open |-> open]
    BY DEF x, y, len, open
  <2> QED BY <2>3, <2>4, <2>5
<1> HIDE DEF u, last, r
<1>3. Depacketize(acc, p)
        = Append(Front(acc), IF acc # <<>> /\ last.open /\ last.nalu = u.nalu /\ last.len = u.from
                             THEN [last EXCEPT !.len = @ + u.len, !.open = ~ p.end]
                             ELSE Garbage)
  BY DEF Depacketize, u, last
<1>4. Depacketize(acc, p) = Append(Front(acc), r)
  BY ONLY <1>1, <1>2, <1>3, acc # <<>>
<1> QED BY <1>4 DEF r, u

\* NAL units a .. b follow the whole ones before them.
LEMMA WholeJoin ==
  ASSUME NEW ns \in Nalus, NEW a \in 1 .. Len(ns), NEW n \in Nat, a + n - 1 <= Len(ns),
         NEW s, s = [k \in 1 .. n |-> [nalu |-> a + (k - 1), len |-> ns[a + (k - 1)],
                                       open |-> FALSE]]
  PROVE  Whole(ns, a - 1) \o s = Whole(ns, a + n - 1)
<1> DEFINE w == Whole(ns, a - 1)
           c == a + n - 1
           v == Whole(ns, c)
           x == w \o s
<1>1. Len(ns) \in Nat /\ a \in Nat /\ a - 1 \in 0 .. Len(ns) /\ c \in 0 .. Len(ns)
      /\ a - 1 + n = c /\ \A k \in 1 .. Len(ns) : ns[k] \in Nat
  BY DEF Nalus
<1> HIDE DEF c
<1>2. /\ w \in Seq(RebuiltNalu) /\ Len(w) = a - 1
      /\ \A k \in 1 .. a - 1 : w[k] = [nalu |-> k, len |-> ns[k], open |-> FALSE]
  BY <1>1, WholeIs
<1>3. /\ v \in Seq(RebuiltNalu) /\ Len(v) = c
      /\ \A k \in 1 .. c : v[k] = [nalu |-> k, len |-> ns[k], open |-> FALSE]
  BY <1>1, WholeIs
<1>4. \A k \in 1 .. n : s[k] = v[a - 1 + k]
  <2> TAKE k \in 1 .. n
  <2>1. a + (k - 1) = a - 1 + k /\ a - 1 + k \in 1 .. c
    BY <1>1
  <2>2. s[k] = [nalu |-> a + (k - 1), len |-> ns[a + (k - 1)], open |-> FALSE]
    OBVIOUS
  <2> HIDE DEF v
  <2> QED BY <1>3, <2>1, <2>2
<1>5. s \in Seq(RebuiltNalu) /\ Len(s) = n
  <2>1. s = [k \in 1 .. n |-> s[k]]
    OBVIOUS
  <2>2. \A k \in 1 .. n : s[k] \in RebuiltNalu
    <3> HIDE DEF v
    <3> TAKE k \in 1 .. n
    <3> DEFINE q == a - 1 + k
    <3>1. q \in 1 .. c
      BY <1>1
    <3>2. s[k] = v[q]
      BY <1>4
    <3> HIDE DEF q
    <3>3. v[q] \in RebuiltNalu
      BY ONLY <1>3, <3>1
    <3> QED BY ONLY <3>2, <3>3
  <2> QED BY ONLY <2>1, <2>2, n \in Nat, SequenceOf
<1> HIDE DEF w, v
<1>6. /\ x \in Seq(RebuiltNalu) /\ Len(x) = a - 1 + n
      /\ \A k \in 1 .. a - 1 : x[k] = w[k]
      /\ \A k \in a .. c : x[k] = s[k - (a - 1)]
  <2>1. /\ x \in Seq(RebuiltNalu) /\ Len(x) = Len(w) + Len(s)
        /\ \A k \in 1 .. Len(w) + Len(s) :
             x[k] = IF k <= Len(w) THEN w[k] ELSE s[k - Len(w)]
    BY ONLY <1>2, <1>5, ConcatProperties
  <2> HIDE DEF x
  <2> QED BY ONLY <1>1, <1>2, <1>5, n \in Nat, <2>1
<1>7. \A k \in 1 .. c : x[k] = v[k]
  <2> HIDE DEF x
  <2> TAKE k \in 1 .. c
  <2>1. CASE k < a
    <3>1. k \in 1 .. a - 1
      BY <1>1, <2>1
    <3> QED BY <1>2, <1>3, <1>6, <3>1
  <2>2. CASE k >= a
    <3>1. k \in a .. c /\ k - (a - 1) \in 1 .. n /\ a - 1 + (k - (a - 1)) = k
      BY <1>1, <2>2
    <3> QED BY <1>4, <1>6, <3>1
  <2> QED BY <1>1, <2>1, <2>2
<1>8. x = v
  <2> HIDE DEF x
  <2> QED BY <1>1, <1>3, <1>6, <1>7, SeqEqual
<1> QED BY <1>8 DEF w, v, c

\* R is what is left of P when n units are taken.
IsRest(R, P, n) ==
  /\ Len(R) = Len(P) - n
  /\ \A k \in 1 .. Len(R) : R[k] = P[n + k]
  /\ R = <<>> <=> n = Len(P)

\* What is rebuilt before the units that come after a payload.
LEMMA SoFarAfter ==
  ASSUME NEW ns \in Nalus, NEW l, LeavesRoom(l), NEW P, TailOk(P, ns, l), NEW kind,
         NEW n \in Nat, NEW m \in Nat, PayloadIs(P, kind, n, m), NEW R, IsRest(R, P, n)
  PROVE  /\ P[n].last => SoFar(ns, R) = Whole(ns, P[1].unit.nalu + m - 1)
         /\ ~ P[n].last =>
              SoFar(ns, R) = Broken(ns, P[1].unit.nalu - 1, P[1].unit.from + P[1].unit.len)
<1> DEFINE a == P[1].unit.nalu
<1>1. /\ P \in Units /\ \A k \in 1 .. Len(P) - 1 : Follows(P[k], P[k + 1])
      /\ \A k \in 1 .. Len(P) : UnitFits(P[k], ns, l)
      /\ n \in 1 .. Len(P)
  BY DEF TailOk, Chain, PayloadIs, IsPayload
<1>2. Len(P) \in Nat /\ 1 \in 1 .. Len(P) /\ Len(ns) \in Nat /\ a \in Nat
  <2>1. Len(P) \in Nat /\ 1 \in 1 .. Len(P)
    BY <1>1, UnitsAre
  <2> QED BY <1>1, <2>1, UnitsAre DEF Nalus
<1>3. /\ ~ P[n].last => n = 1 /\ m = 0
      /\ n < Len(P) => P[n + 1].unit.nalu = a + m /\ (P[n + 1].first <=> P[n].last)
      /\ n = Len(P) => P[n].last /\ Len(ns) + 1 = a + m
  BY NextUnit
<1>4. n < Len(P) => R # <<>> /\ R[1] = P[n + 1]
  <2> SUFFICES ASSUME n < Len(P) PROVE R # <<>> /\ R[1] = P[n + 1]
    OBVIOUS
  <2>1. 1 \in 1 .. Len(R) /\ R # <<>>
    BY <1>1, <1>2 DEF IsRest
  <2> QED BY <2>1 DEF IsRest
<1>5. n = Len(P) => R = <<>>
  BY DEF IsRest
<1>6. ASSUME P[n].last
      PROVE  SoFar(ns, R) = Whole(ns, a + m - 1)
  <2>1. CASE n = Len(P)
    <3>1. a + m - 1 = Len(ns)
      BY <1>2, <1>3, <2>1
    <3> QED BY <1>5, <2>1, <3>1 DEF SoFar
  <2>2. CASE n < Len(P)
    <3>1. R # <<>> /\ R[1].first /\ R[1].unit.nalu = a + m
      BY <1>3, <1>4, <1>6, <2>2
    <3>2. R[1].unit.nalu - 1 = a + m - 1
      <4> DEFINE b == R[1].unit.nalu
      <4>1. b = a + m /\ a \in Nat /\ m \in Nat
        BY <1>2, <3>1
      <4> HIDE DEF a, b
      <4>2. b - 1 = a + m - 1
        BY ONLY <4>1
      <4> QED BY <4>2 DEF b
    <3>3. SoFar(ns, R) = Whole(ns, R[1].unit.nalu - 1)
      BY <3>1 DEF SoFar
    <3> QED BY <3>2, <3>3
  <2> QED BY <1>1, <1>2, <2>1, <2>2
<1>7. ASSUME ~ P[n].last
      PROVE  SoFar(ns, R) = Broken(ns, a - 1, P[1].unit.from + P[1].unit.len)
  <2>1. n < Len(P) /\ n = 1 /\ m = 0
    BY <1>1, <1>2, <1>3, <1>7
  <2>2. R # <<>> /\ ~ R[1].first /\ R[1].unit.nalu = a /\ R[1] = P[2]
    <3>1. P[n + 1].unit.nalu = a /\ ~ P[n + 1].first /\ P[n + 1] = P[2]
      BY <1>2, <1>3, <1>7, <2>1
    <3> QED BY <1>4, <2>1, <3>1
  <2>3. Follows(P[1], P[2]) /\ ~ P[1].aggregated
    <3>1. 1 \in 1 .. Len(P) - 1 /\ 1 + 1 = 2
      BY <1>2, <2>1
    <3>2. Follows(P[1], P[1 + 1])
      BY <1>1, <3>1
    <3>3. ~ P[1].aggregated
      BY <1>7, <2>1 DEF PayloadIs, IsPayload
    <3> QED BY <3>1, <3>2, <3>3
  <2>4. R[1].unit.from = P[1].unit.from + P[1].unit.len
    BY <1>7, <2>1, <2>2, <2>3 DEF Follows
  <2> QED BY <2>2, <2>4 DEF SoFar
<1> QED BY <1>6, <1>7

\* With every payload a receiver has rebuilt what goes before the units that are still to
\* come.
LEMMA SoFarGoesOn ==
  ASSUME NEW ns \in Nalus, NEW l, LeavesRoom(l), NEW P, TailOk(P, ns, l),
         NEW kind \in {"single", "STAP-A", "FU-A"}, NEW n \in Nat, NEW m \in Nat,
         PayloadIs(P, kind, n, m), NEW none, NEW R, IsRest(R, P, n)
  PROVE  Depacketize(SoFar(ns, P), HandedOut(P, kind, n, none)) = SoFar(ns, R)
<1> DEFINE a == P[1].unit.nalu
           from == P[1].unit.from
           len == P[1].unit.len
           p == HandedOut(P, kind, n, none)
           acc == SoFar(ns, P)
<1>1. /\ P \in Units /\ \A k \in 1 .. Len(P) : UnitFits(P[k], ns, l)
      /\ n \in 1 .. Len(P)
  BY DEF TailOk, Chain, PayloadIs, IsPayload
<1>2. /\ Len(P) \in Nat /\ 1 \in 1 .. Len(P) /\ P # <<>> /\ Len(ns) \in Nat
      /\ from \in Nat /\ len \in Nat
      /\ UnitFits(P[1], ns, l) /\ a \in 1 .. Len(ns)
      /\ P[1].first \in BOOLEAN /\ P[1].last \in BOOLEAN
  <2>1. Len(P) \in Nat /\ 1 \in 1 .. Len(P)
    BY <1>1, UnitsAre
  <2>2. UnitFits(P[1], ns, l)
    BY <1>1, <2>1
  <2> QED BY <1>1, <2>1, <2>2, UnitsAre DEF Nalus, UnitFits
<1>3. /\ p.kind = kind /\ p.start = P[1].first /\ p.end = P[n].last
      /\ p.units = [k \in 1 .. n |-> P[k].unit]
  BY DEF HandedOut
<1>4. /\ P[n].last => SoFar(ns, R) = Whole(ns, a + m - 1)
      /\ ~ P[n].last => SoFar(ns, R) = Broken(ns, a - 1, from + len)
  BY SoFarAfter
<1>5. /\ P[1].first => acc = Whole(ns, a - 1)
      /\ ~ P[1].first => acc = Broken(ns, a - 1, from)
  BY <1>2 DEF SoFar
<1> HIDE DEF p, acc
<1>6. CASE kind # "FU-A"
  <2> DEFINE s == [k \in 1 .. n |-> [nalu |-> a + (k - 1), len |-> ns[a + (k - 1)],
                                     open |-> FALSE]]
  <2>1. /\ m = n /\ P[1].first /\ P[n].last
        /\ \A k \in 1 .. n : P[k].aggregated /\ P[k].unit.nalu = a + (k - 1)
    BY <1>6 DEF PayloadIs
  <2>2. \A k \in 1 .. n : /\ P[k].unit.nalu = a + (k - 1) /\ P[k].unit.from = 0
                          /\ P[k].unit.len = ns[a + (k - 1)]
                          /\ a + (k - 1) \in 1 .. Len(ns)
    <3> TAKE k \in 1 .. n
    <3>1. k \in 1 .. Len(P)
      BY <1>1, <1>2
    <3>2. UnitFits(P[k], ns, l) /\ P[k].aggregated /\ P[k].unit.nalu = a + (k - 1)
      BY <1>1, <2>1, <3>1
    <3> HIDE DEF a
    <3> QED BY <3>2 DEF UnitFits
  <2>3. /\ DOMAIN p.units = 1 .. n
        /\ \A k \in 1 .. n : p.units[k] = P[k].unit
    BY <1>3
  <2>4. [k \in DOMAIN p.units |->
           IF p.units[k].from = 0
           THEN [nalu |-> p.units[k].nalu, len |-> p.units[k].len, open |-> FALSE]
           ELSE Garbage] = s
    <3> HIDE DEF a
    <3> QED BY <2>2, <2>3
  <2>5. Depacketize(acc, p) = acc \o s
    <3> DEFINE t == [k \in DOMAIN p.units |->
                       IF p.units[k].from = 0
                       THEN [nalu |-> p.units[k].nalu, len |-> p.units[k].len, open |-> FALSE]
                       ELSE Garbage]
    <3>1. p.kind # "FU-A"
      BY <1>3, <1>6
    <3>2. Depacketize(acc, p) = acc \o t
      BY ONLY <3>1, DepacketizeUnits
    <3>3. t = s
      BY <2>4
    <3> HIDE DEF s, t
    <3> QED BY ONLY <3>2, <3>3
  <2>6. Whole(ns, a - 1) \o s = Whole(ns, a + n - 1)
    <3> HIDE DEF a
    <3>1. a + n - 1 <= Len(ns)
      <4>1. a + (n - 1) \in 1 .. Len(ns)
        <5>1. n \in 1 .. n
          BY <1>1, <1>2
        <5> QED BY <2>2, <5>1
      <4> QED BY <1>2, <4>1
    <3> QED BY <1>2, <3>1, WholeJoin
  <2> HIDE DEF s, a
  <2>7. Depacketize(acc, p) = SoFar(ns, R)
    BY <1>4, <1>5, <2>1, <2>5, <2>6
  <2> QED BY <2>7 DEF acc, p
<1>7. CASE kind = "FU-A"
  <2>1. n = 1 /\ m = NalusDone(P[1]) /\ ~ P[1].aggregated
    BY <1>7 DEF PayloadIs
  <2>2. p.kind = "FU-A" /\ p.units[1] = P[1].unit /\ p.end = P[1].last /\ p.start = P[1].first
    BY <1>3, <1>7, <2>1
  <2>3. /\ ~ (P[1].first /\ P[1].last)
        /\ P[1].first => from = NalHeader
        /\ P[1].last => from + len = ns[a]
    BY <1>2, <2>1 DEF UnitFits
  <2>4. P[1].last => SoFar(ns, R) = Whole(ns, a)
    <3>1. P[1].last => m = 1
      BY <2>1 DEF NalusDone
    <3> HIDE DEF a
    <3>2. a + 1 - 1 = a
      BY <1>2
    <3> QED BY <1>4, <2>1, <3>1, <3>2
  <2>5. ~ P[1].last => SoFar(ns, R) = Broken(ns, a - 1, from + len)
    BY <1>4, <2>1
  <2> DEFINE r == [nalu |-> a, len |-> from + len, open |-> ~ P[1].last]
             w == Whole(ns, a - 1)
  <2>6. Append(w, r) = SoFar(ns, R)
    <3>1. CASE P[1].last
      <4>1. r = [nalu |-> a, len |-> ns[a], open |-> FALSE]
        BY <2>3, <3>1
      <4> HIDE DEF a
      <4>2. Append(w, [nalu |-> a, len |-> ns[a], open |-> FALSE]) = Whole(ns, a)
        BY <1>2, WholeGrows
      <4> HIDE DEF r, w
      <4> QED BY <2>4, <3>1, <4>1, <4>2
    <3>2. CASE ~ P[1].last
      <4>1. r = [nalu |-> a - 1 + 1, len |-> from + len, open |-> TRUE]
        <5> DEFINE open == ~ P[1].last
                   b == from + len
        <5>1. open = TRUE
          BY <3>2
        <5>2. a - 1 + 1 = a
          <6> HIDE DEF a
          <6> QED BY <1>2
        <5> HIDE DEF open, a, b
        <5>3. [nalu |-> a, len |-> b, open |-> open] = [nalu |-> a - 1 + 1, len |-> b, open |-> TRUE]
          BY ONLY <5>1, <5>2
        <5> QED BY <5>3 DEF open, b
      <4>2. Append(w, [nalu |-> a - 1 + 1, len |-> from + len, open |-> TRUE])
              = Broken(ns, a - 1, from + len)
        BY Zenon DEF Broken
      <4> HIDE DEF r, w
      <4> QED BY <2>5, <3>2, <4>1, <4>2
    <3> QED BY <3>1, <3>2
  <2>7. Depacketize(acc, p) = Append(w, r)
    <3>1. CASE P[1].first
      <4>1. acc = w
        BY <1>5, <3>1
      <4>2. Depacketize(acc, p)
              = Append(acc, [nalu |-> p.units[1].nalu, len |-> NalHeader + p.units[1].len,
                             open |-> ~ p.end])
        <5>1. p.start /\ p.units[1].from = NalHeader
          BY <2>2, <2>3, <3>1
        <5> QED BY <2>2, <5>1, DepacketizeFirst
      <4>3. [nalu |-> p.units[1].nalu, len |-> NalHeader + p.units[1].len, open |-> ~ p.end] = r
        BY <2>2, <2>3, <3>1
      <4> HIDE DEF w, r
      <4> QED BY <4>1, <4>2, <4>3
    <3>2. CASE ~ P[1].first
      <4>1. acc # <<>> /\ Front(acc) = w
            /\ Last(acc) = [nalu |-> a, len |-> from, open |-> TRUE]
        <5> DEFINE c == a - 1
        <5>1. c \in 0 .. Len(ns) /\ c + 1 = a /\ from \in Nat
          BY <1>2
        <5>2. acc = Broken(ns, c, from)
          BY <1>5, <3>2
        <5> HIDE DEF c, from
        <5>3. LET b == Broken(ns, c, from)
              IN  /\ b # <<>>
                  /\ Last(b) = [nalu |-> c + 1, len |-> from, open |-> TRUE]
                  /\ Front(b) = Whole(ns, c)
          BY <5>1, BrokenIs
        <5>4. acc # <<>> /\ Front(acc) = Whole(ns, c)
              /\ Last(acc) = [nalu |-> c + 1, len |-> from, open |-> TRUE]
          BY <5>2, <5>3
        <5>5. Whole(ns, c) = w
          BY DEF c
        <5> HIDE DEF a, w
        <5> QED BY <5>1, <5>4, <5>5
      <4>2. Depacketize(acc, p)
              = Append(Front(acc), [nalu |-> p.units[1].nalu,
                                    len |-> p.units[1].from + p.units[1].len, open |-> ~ p.end])
        <5>1. p.kind = "FU-A" /\ ~ p.start /\ acc # <<>>
              /\ Last(acc) = [nalu |-> p.units[1].nalu, len |-> p.units[1].from, open |-> TRUE]
          BY <2>2, <3>2, <4>1
        <5> QED BY ONLY <5>1, DepacketizeMore
      <4>3. [nalu |-> p.units[1].nalu, len |-> p.units[1].from + p.units[1].len,
             open |-> ~ p.end] = r
        BY <2>2
      <4> HIDE DEF w, r
      <4> QED BY <4>1, <4>2, <4>3
    <3> QED BY <1>2, <3>1, <3>2
  <2> QED BY <2>6, <2>7 DEF acc, p
<1> QED BY <1>6, <1>7

\* What a receiver has rebuilt is what goes before the units still in packets_.
RebuiltOk == LeavesRoom(limits) => Rebuilt = SoFar(FoundNalus(frame), packets)

\* It holds of a new packetizer.
LEMMA RebuiltOkAtFirst == Init => RebuiltOk
<1> SUFFICES ASSUME Init, LeavesRoom(limits) PROVE Rebuilt = SoFar(FoundNalus(frame), packets)
  BY DEF RebuiltOk
<1> DEFINE ns == FoundNalus(frame)
<1>1. sent = <<>> /\ nalus = ns /\ ns \in Nalus
  BY FirstState
<1>2. Rebuilt = <<>>
  BY <1>1, RebuiltFromNone DEF Rebuilt
<1> HIDE DEF ns
<1>3. Whole(ns, 0) = <<>>
  <2>1. 0 \in 0 .. Len(ns)
    BY <1>1 DEF Nalus
  <2>2. Whole(ns, 0) \in Seq(RebuiltNalu) /\ Len(Whole(ns, 0)) = 0
    BY <1>1, <2>1, WholeIs
  <2> QED BY <2>2
<1>4. SoFar(ns, packets) = <<>>
  <2>1. CASE packets = <<>>
    BY <1>1, <1>3, <2>1, FirstPackets DEF SoFar
  <2>2. CASE packets # <<>>
    <3>1. packets[1].first /\ packets[1].unit.nalu - 1 = 0
      BY <2>2, FirstPackets
    <3> QED BY <1>3, <2>2, <3>1 DEF SoFar
  <2> QED BY <2>1, <2>2
<1> QED BY <1>2, <1>4 DEF ns

\* Handing out a payload keeps it.
LEMMA StepKeepsRebuiltOk ==
  ASSUME StateOk, RebuiltOk, LeavesRoom(limits),
         NEW kind \in {"single", "STAP-A", "FU-A"}, NEW n \in Nat, NEW m \in Nat,
         PayloadIs(packets, kind, n, m), HandOut(kind, n, m)
  PROVE  RebuiltOk'
<1> DEFINE ns == FoundNalus(frame)
           none == packets' = <<>>
           p == HandedOut(packets, kind, n, none)
           R == packets'
<1>1. TailOk(packets, ns, limits) /\ ns \in Nalus /\ sent \in Seq(PayloadSet)
  BY FoundNalusType DEF StateOk
<1>2. /\ sent' = Append(sent, p) /\ p \in PayloadSet
      /\ IsRest(R, packets, n)
      /\ frame' = frame
  BY StepKeepsStateOk DEF IsRest
<1>3. Rebuilt = SoFar(ns, packets)
  BY DEF RebuiltOk
<1> HIDE DEF ns, none
<1>4. Depacketize(SoFar(ns, packets), p) = SoFar(ns, R)
  <2> HIDE DEF R
  <2> QED BY <1>1, <1>2, SoFarGoesOn
<1> HIDE DEF p
<1>5. Rebuilt' = Depacketize(Rebuilt, p)
  <2> DEFINE t == sent'
  <2>1. /\ Len(sent) \in Nat /\ Len(t) = Len(sent) + 1
        /\ \A k \in 1 .. Len(sent) : t[k] = sent[k]
        /\ t[Len(sent) + 1] = p
    BY <1>1, <1>2
  <2> HIDE DEF t
  <2>2. RebuiltFrom(t) = Depacketize(RebuiltFrom(sent), p)
    BY <2>1, RebuiltNext
  <2>3. Rebuilt' = RebuiltFrom(sent')
    BY DEF Rebuilt
  <2> QED BY <2>2, <2>3 DEF Rebuilt, t
<1>6. FoundNalus(frame)' = ns
  BY <1>2 DEF ns
<1> QED BY <1>3, <1>4, <1>5, <1>6 DEF RebuiltOk

\* A receiver that puts the payloads together as RFC 6184 says gets back every
\* NAL unit of the frame, whole and in order, however do_packetization mixed
\* them into single, STAP-A and FU-A packets: for every frame of at most
\* kMaxNalusPerPacket NAL units, the last of which find_nalu finds, and all
\* limits that leave room for fragments.
THEOREM FramesAlwaysRebuilt == Spec => [](LeavesRoom(limits) => FramesAreRebuilt)
<1>1. StateOk /\ RebuiltOk /\ [Next]_vars => RebuiltOk'
  <2> SUFFICES ASSUME StateOk, RebuiltOk, [Next]_vars PROVE RebuiltOk'
    OBVIOUS
  <2>1. CASE Next
    <3>1. TailOk(packets, FoundNalus(frame), limits)
      BY DEF StateOk
    <3>2. PICK kind \in {"single", "STAP-A", "FU-A"}, n \in Nat, m \in Nat :
            PayloadIs(packets, kind, n, m) /\ HandOut(kind, n, m)
      BY <2>1, <3>1, StepTakesPayload
    <3>3. limits' = limits
      BY <3>2 DEF HandOut
    <3>4. CASE LeavesRoom(limits)
      BY <3>2, <3>4, StepKeepsRebuiltOk
    <3>5. CASE ~ LeavesRoom(limits)
      BY <3>3, <3>5 DEF LeavesRoom, RebuiltOk
    <3> QED BY <3>4, <3>5
  <2>2. CASE UNCHANGED vars
    BY <2>2 DEF RebuiltOk, Rebuilt, LeavesRoom, vars
  <2> QED BY <2>1, <2>2
<1>2. StateOk /\ RebuiltOk => (LeavesRoom(limits) => FramesAreRebuilt)
  <2> SUFFICES ASSUME StateOk, RebuiltOk, LeavesRoom(limits), Representable, packets = <<>>
               PROVE  Rebuilt = [k \in DOMAIN frame |-> [nalu |-> k, len |-> frame[k].len,
                                                         open |-> FALSE]]
    BY DEF FramesAreRebuilt
  <2> DEFINE ns == FoundNalus(frame)
  <2>1. Rebuilt = Whole(ns, Len(ns))
    BY DEF RebuiltOk, SoFar
  <2>2. frame \in Frames /\ Len(frame) \in Nat /\ DOMAIN frame = 1 .. Len(frame)
    BY FramesAssumption DEF StateOk
  <2>3. ns = [k \in 1 .. Len(frame) |-> frame[k].len] /\ ns \in Nalus
    BY <2>2, FoundNalusType DEF Representable
  <2>4. Len(ns) = Len(frame) /\ \A k \in 1 .. Len(frame) : ns[k] = frame[k].len
    <3> HIDE DEF ns
    <3> QED BY <2>2, <2>3 DEF Nalus
  <2> HIDE DEF ns
  <2> QED BY <2>1, <2>2, <2>4 DEF Whole
<1> QED BY <1>1, <1>2, RebuiltOkAtFirst, StateOkAlways, PTL DEF Spec
=============================================================================
