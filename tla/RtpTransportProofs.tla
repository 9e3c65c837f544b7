------------------------- MODULE RtpTransportProofs -------------------------
(***************************************************************************)
(* What a packet carries from the sender to the receiver: the descriptor   *)
(* in its extension, the fixed header and the payload, for every           *)
(* descriptor that the wire format can hold, every number, payload and     *)
(* marker.                                                                 *)
(***************************************************************************)
EXTENDS RtpTransport, SequenceTheorems, WellFoundedInduction, TLAPS
-----------------------------------------------------------------------------
\* Induction along a loop, and the functions that loops are.

\* A set of naturals that is not empty has a smallest element.
LEMMA SmallestOf ==
  ASSUME NEW S \in SUBSET Nat, S # {}
  PROVE  \E n \in S : \A m \in S : n <= m
<1> DEFINE R == OpToRel(<, Nat)
<1>1. PICK t \in S : \A u \in S : ~ (<<u, t>> \in R)
  <2>1. IsWellFoundedOn(R, Nat)
    BY NatLessThanWellFounded
  <2> HIDE DEF R
  <2> QED BY <2>1, WFMin
<1>2. \A u \in S : ~ (u < t)
  BY <1>1 DEF OpToRel
<1> QED BY <1>2

\* What holds before the first round of a loop, and after each round when it
\* held before that round, holds at the end.
LEMMA AtTheEnd ==
  ASSUME NEW n \in Nat, NEW Good \in SUBSET (0 .. n), 0 \in Good,
         \A i \in 1 .. n : i - 1 \in Good => i \in Good
  PROVE  Good = 0 .. n
<1> SUFFICES ASSUME Good # 0 .. n PROVE FALSE
  OBVIOUS
<1> DEFINE Bad == (0 .. n) \ Good
<1>1. Bad \in SUBSET Nat /\ Bad # {}
  <2>1. Bad \in SUBSET Nat
    OBVIOUS
  <2>2. Bad # {}
    OBVIOUS
  <2> QED BY <2>1, <2>2
<1>2. PICK i \in Bad : \A j \in Bad : i <= j
  BY <1>1, SmallestOf
<1>3. i \in 1 .. n /\ i - 1 \in 0 .. n
  OBVIOUS
<1>4. i - 1 \notin Bad
  <2> HIDE DEF Bad
  <2> QED BY <1>1, <1>2, <1>3
<1> QED BY <1>3, <1>4

\* A function that is defined on 1 .. n is a sequence.
LEMMA SequenceOf ==
  ASSUME NEW T, NEW n \in Nat, NEW s, s = [k \in 1 .. n |-> s[k]], \A k \in 1 .. n : s[k] \in T
  PROVE  s \in Seq(T) /\ Len(s) = n
<1>1. s \in [1 .. n -> T]
  OBVIOUS
<1>2. s \in Seq(T)
  BY <1>1
<1> QED BY <1>1, <1>2

\* The sums of the sizes of the first dependencies.
IsSizes(g, deps) ==
  g = [k \in 0 .. Len(deps) |-> IF k = 0 THEN 0 ELSE g[k - 1] + DependencySize(deps[k])]
\* The sum of value_size is the last value of a run over the dependencies.
LEMMA SizeRuns ==
  ASSUME NEW deps, Len(deps) \in Nat
  PROVE  \E g : IsSizes(g, deps) /\ DependenciesSize(deps) = g[Len(deps)]
<1> DEFINE n == Len(deps)
           Made(g, m) ==
             g = [k \in 0 .. m |-> IF k = 0 THEN 0 ELSE g[k - 1] + DependencySize(deps[k])]
           Good == {m \in 0 .. n : \E g : Made(g, m)}
           c == CHOOSE g : IsSizes(g, deps)
<1>1. 0 \in Good
  <2> DEFINE g == [k \in 0 .. 0 |-> 0]
  <2>1. g = [k \in 0 .. 0 |-> IF k = 0 THEN 0 ELSE g[k - 1] + DependencySize(deps[k])]
    OBVIOUS
  <2>2. Made(g, 0)
    BY <2>1
  <2> HIDE DEF g, Made
  <2> QED BY <2>2
<1>2. ASSUME NEW m \in 1 .. n, m - 1 \in Good
      PROVE  m \in Good
  <2>1. PICK g : Made(g, m - 1)
    BY <1>2
  <2>2. \A k \in 0 .. m - 1 : g[k] = IF k = 0 THEN 0 ELSE g[k - 1] + DependencySize(deps[k])
    BY <2>1
  <2> HIDE DEF Made
  <2> DEFINE h == [k \in 0 .. m |-> IF k < m THEN g[k] ELSE g[m - 1] + DependencySize(deps[m])]
  <2>3. ASSUME NEW k \in 0 .. m
        PROVE  h[k] = IF k = 0 THEN 0 ELSE h[k - 1] + DependencySize(deps[k])
    <3>1. CASE k < m
      <4>1. h[k] = g[k] /\ (k # 0 => h[k - 1] = g[k - 1]) /\ k \in 0 .. m - 1
        BY <3>1
      <4> HIDE DEF h
      <4> QED BY <2>2, <4>1
    <3>2. CASE k = m
      <4>1. h[m] = g[m - 1] + DependencySize(deps[m]) /\ h[m - 1] = g[m - 1] /\ m # 0
        OBVIOUS
      <4> HIDE DEF h
      <4> QED BY <3>2, <4>1
    <3> QED BY <3>1, <3>2
  <2>4. h = [k \in 0 .. m |-> h[k]]
    OBVIOUS
  <2> HIDE DEF h
  <2>5. h = [k \in 0 .. m |-> IF k = 0 THEN 0 ELSE h[k - 1] + DependencySize(deps[k])]
    BY <2>3, <2>4
  <2>6. Made(h, m)
    BY <2>5 DEF Made
  <2> QED BY <2>6
<1>3. n \in Good
  <2>1. Good \in SUBSET (0 .. n) /\ n \in Nat
    OBVIOUS
  <2> HIDE DEF Good, n
  <2>2. Good = 0 .. n
    BY <1>1, <1>2, <2>1, AtTheEnd
  <2> QED BY <2>1, <2>2
<1>4. \E g : IsSizes(g, deps)
  <2>1. \E g : Made(g, n)
    BY <1>3
  <2> QED BY <2>1 DEF IsSizes
<1>5. IsSizes(c, deps)
  BY <1>4
<1>6. DependenciesSize(deps) = c[Len(deps)]
  BY Zenon DEF DependenciesSize, IsSizes
<1> HIDE DEF c
<1> QED BY <1>5, <1>6

\* The bytes of the first dependencies.
IsWritten(g, d) ==
  g = [k \in 0 .. Len(d.deps) |-> IF k = 0 THEN <<>> ELSE g[k - 1] \o DependencyBytes(d, k)]
\* What the writer's loop writes is the last value of a run over the dependencies.
LEMMA BytesRun ==
  ASSUME NEW d, Len(d.deps) \in Nat
  PROVE  \E g : IsWritten(g, d) /\ DependenciesBytes(d) = g[Len(d.deps)]
<1> DEFINE n == Len(d.deps)
           Made(g, m) ==
             g = [k \in 0 .. m |-> IF k = 0 THEN <<>> ELSE g[k - 1] \o DependencyBytes(d, k)]
           Good == {m \in 0 .. n : \E g : Made(g, m)}
           c == CHOOSE g : IsWritten(g, d)
<1>1. 0 \in Good
  <2> DEFINE g == [k \in 0 .. 0 |-> <<>>]
  <2>1. g = [k \in 0 .. 0 |-> IF k = 0 THEN <<>> ELSE g[k - 1] \o DependencyBytes(d, k)]
    OBVIOUS
  <2>2. Made(g, 0)
    BY <2>1
  <2> HIDE DEF g, Made
  <2> QED BY <2>2
<1>2. ASSUME NEW m \in 1 .. n, m - 1 \in Good
      PROVE  m \in Good
  <2>1. PICK g : Made(g, m - 1)
    BY <1>2
  <2>2. \A k \in 0 .. m - 1 : g[k] = IF k = 0 THEN <<>> ELSE g[k - 1] \o DependencyBytes(d, k)
    BY <2>1
  <2> HIDE DEF Made
  <2> DEFINE h == [k \in 0 .. m |-> IF k < m THEN g[k] ELSE g[m - 1] \o DependencyBytes(d, m)]
  <2>3. ASSUME NEW k \in 0 .. m
        PROVE  h[k] = IF k = 0 THEN <<>> ELSE h[k - 1] \o DependencyBytes(d, k)
    <3>1. CASE k < m
      <4>1. h[k] = g[k] /\ (k # 0 => h[k - 1] = g[k - 1]) /\ k \in 0 .. m - 1
        BY <3>1
      <4> HIDE DEF h
      <4> QED BY <2>2, <4>1
    <3>2. CASE k = m
      <4>1. h[m] = g[m - 1] \o DependencyBytes(d, m) /\ h[m - 1] = g[m - 1] /\ m # 0
        OBVIOUS
      <4> HIDE DEF h
      <4> QED BY <3>2, <4>1
    <3> QED BY <3>1, <3>2
  <2>4. h = [k \in 0 .. m |-> h[k]]
    OBVIOUS
  <2> HIDE DEF h
  <2>5. h = [k \in 0 .. m |-> IF k = 0 THEN <<>> ELSE h[k - 1] \o DependencyBytes(d, k)]
    BY <2>3, <2>4
  <2>6. Made(h, m)
    BY <2>5 DEF Made
  <2> QED BY <2>6
<1>3. n \in Good
  <2>1. Good \in SUBSET (0 .. n) /\ n \in Nat
    OBVIOUS
  <2> HIDE DEF Good, n
  <2>2. Good = 0 .. n
    BY <1>1, <1>2, <2>1, AtTheEnd
  <2> QED BY <2>1, <2>2
<1>4. \E g : IsWritten(g, d)
  <2>1. \E g : Made(g, n)
    BY <1>3
  <2> QED BY <2>1 DEF IsWritten
<1>5. IsWritten(c, d)
  BY <1>4
<1>6. DependenciesBytes(d) = c[Len(d.deps)]
  BY Zenon DEF DependenciesBytes, IsWritten
<1> HIDE DEF c
<1> QED BY <1>5, <1>6

\* The states of the loop that reads dependencies.
IsReading(g, data, start) ==
  g = [k \in 0 .. MaxDependencies + 1 |-> IF k = 0 THEN start ELSE ReadRound(data, g[k - 1])]
\* The reader's loop is a run of rounds from the state it starts with.
LEMMA ReadRuns ==
  ASSUME NEW data, NEW start, MaxDependencies \in Nat
  PROVE  \E g : IsReading(g, data, start) /\ ReadDependencies(data, start) = g[MaxDependencies + 1]
<1> DEFINE n == MaxDependencies + 1
           Made(g, m) == g = [k \in 0 .. m |-> IF k = 0 THEN start ELSE ReadRound(data, g[k - 1])]
           Good == {m \in 0 .. n : \E g : Made(g, m)}
           c == CHOOSE g : IsReading(g, data, start)
<1>1. 0 \in Good
  <2> DEFINE g == [k \in 0 .. 0 |-> start]
  <2>1. g = [k \in 0 .. 0 |-> IF k = 0 THEN start ELSE ReadRound(data, g[k - 1])]
    OBVIOUS
  <2>2. Made(g, 0)
    BY <2>1
  <2> HIDE DEF g, Made
  <2> QED BY <2>2
<1>2. ASSUME NEW m \in 1 .. n, m - 1 \in Good
      PROVE  m \in Good
  <2>1. PICK g : Made(g, m - 1)
    BY <1>2
  <2>2. \A k \in 0 .. m - 1 : g[k] = IF k = 0 THEN start ELSE ReadRound(data, g[k - 1])
    BY <2>1
  <2> HIDE DEF Made
  <2> DEFINE h == [k \in 0 .. m |-> IF k < m THEN g[k] ELSE ReadRound(data, g[m - 1])]
  <2>3. ASSUME NEW k \in 0 .. m
        PROVE  h[k] = IF k = 0 THEN start ELSE ReadRound(data, h[k - 1])
    <3>1. CASE k < m
      <4>1. h[k] = g[k] /\ (k # 0 => h[k - 1] = g[k - 1]) /\ k \in 0 .. m - 1
        BY <3>1
      <4> HIDE DEF h
      <4> QED BY <2>2, <4>1
    <3>2. CASE k = m
      <4>1. h[m] = ReadRound(data, g[m - 1]) /\ h[m - 1] = g[m - 1] /\ m # 0
        OBVIOUS
      <4> HIDE DEF h
      <4> QED BY <3>2, <4>1
    <3> QED BY <3>1, <3>2
  <2>4. h = [k \in 0 .. m |-> h[k]]
    OBVIOUS
  <2> HIDE DEF h
  <2>5. h = [k \in 0 .. m |-> IF k = 0 THEN start ELSE ReadRound(data, h[k - 1])]
    BY <2>3, <2>4
  <2>6. Made(h, m)
    BY <2>5 DEF Made
  <2> QED BY <2>6
<1>3. n \in Good
  <2>1. Good \in SUBSET (0 .. n) /\ n \in Nat
    OBVIOUS
  <2> HIDE DEF Good, n
  <2>2. Good = 0 .. n
    BY <1>1, <1>2, <2>1, AtTheEnd
  <2> QED BY <2>1, <2>2
<1>4. \E g : IsReading(g, data, start)
  <2>1. \E g : Made(g, n)
    BY <1>3
  <2> QED BY <2>1 DEF IsReading
<1>5. IsReading(c, data, start)
  BY <1>4
<1>6. ReadDependencies(data, start) = c[MaxDependencies + 1]
  BY Zenon DEF ReadDependencies, IsReading
<1> HIDE DEF c
<1> QED BY <1>5, <1>6

\* The states of the loop that reads the elements of an extension.
IsParsing(g, b, start) ==
  g = [k \in 0 .. Len(b) + 1 |-> IF k = 0 THEN start ELSE ParseRound(b, g[k - 1])]
\* The parser's loop is a run of rounds from the state it starts with.
LEMMA ParseRuns ==
  ASSUME NEW b, NEW start, Len(b) \in Nat
  PROVE  \E g : IsParsing(g, b, start) /\ ReadElements(b, start) = g[Len(b) + 1]
<1> DEFINE n == Len(b) + 1
           Made(g, m) == g = [k \in 0 .. m |-> IF k = 0 THEN start ELSE ParseRound(b, g[k - 1])]
           Good == {m \in 0 .. n : \E g : Made(g, m)}
           c == CHOOSE g : IsParsing(g, b, start)
<1>1. 0 \in Good
  <2> DEFINE g == [k \in 0 .. 0 |-> start]
  <2>1. g = [k \in 0 .. 0 |-> IF k = 0 THEN start ELSE ParseRound(b, g[k - 1])]
    OBVIOUS
  <2>2. Made(g, 0)
    BY <2>1
  <2> HIDE DEF g, Made
  <2> QED BY <2>2
<1>2. ASSUME NEW m \in 1 .. n, m - 1 \in Good
      PROVE  m \in Good
  <2>1. PICK g : Made(g, m - 1)
    BY <1>2
  <2>2. \A k \in 0 .. m - 1 : g[k] = IF k = 0 THEN start ELSE ParseRound(b, g[k - 1])
    BY <2>1
  <2> HIDE DEF Made
  <2> DEFINE h == [k \in 0 .. m |-> IF k < m THEN g[k] ELSE ParseRound(b, g[m - 1])]
  <2>3. ASSUME NEW k \in 0 .. m
        PROVE  h[k] = IF k = 0 THEN start ELSE ParseRound(b, h[k - 1])
    <3>1. CASE k < m
      <4>1. h[k] = g[k] /\ (k # 0 => h[k - 1] = g[k - 1]) /\ k \in 0 .. m - 1
        BY <3>1
      <4> HIDE DEF h
      <4> QED BY <2>2, <4>1
    <3>2. CASE k = m
      <4>1. h[m] = ParseRound(b, g[m - 1]) /\ h[m - 1] = g[m - 1] /\ m # 0
        OBVIOUS
      <4> HIDE DEF h
      <4> QED BY <3>2, <4>1
    <3> QED BY <3>1, <3>2
  <2>4. h = [k \in 0 .. m |-> h[k]]
    OBVIOUS
  <2> HIDE DEF h
  <2>5. h = [k \in 0 .. m |-> IF k = 0 THEN start ELSE ParseRound(b, h[k - 1])]
    BY <2>3, <2>4
  <2>6. Made(h, m)
    BY <2>5 DEF Made
  <2> QED BY <2>6
<1>3. n \in Good
  <2>1. Good \in SUBSET (0 .. n) /\ n \in Nat
    OBVIOUS
  <2> HIDE DEF Good, n
  <2>2. Good = 0 .. n
    BY <1>1, <1>2, <2>1, AtTheEnd
  <2> QED BY <2>1, <2>2
<1>4. \E g : IsParsing(g, b, start)
  <2>1. \E g : Made(g, n)
    BY <1>3
  <2> QED BY <2>1 DEF IsParsing
<1>5. IsParsing(c, b, start)
  BY <1>4
<1>6. ReadElements(b, start) = c[Len(b) + 1]
  BY Zenon DEF ReadElements, IsParsing
<1> HIDE DEF c
<1> QED BY <1>5, <1>6

-----------------------------------------------------------------------------
\* The bytes of the dependencies.

\* A dependency takes one byte, or two.
LEMMA DependencyBytesAre ==
  ASSUME NEW d, d.deps \in Seq(Nat), NEW i \in 1 .. Len(d.deps)
  PROVE  /\ DependencyBytes(d, i) \in Seq(Nat)
         /\ Len(DependencyBytes(d, i)) = DependencySize(d.deps[i])
         /\ DependencySize(d.deps[i]) = IF IsExtended(d.deps[i]) THEN 2 ELSE 1
         /\ DependencyBytes(d, i)[1] = (d.deps[i] % 64) * 4 + Flag(IsExtended(d.deps[i]), 2)
                                         + Flag(i < Len(d.deps), 1)
         /\ IsExtended(d.deps[i]) => DependencyBytes(d, i)[2] = (d.deps[i] \div 64) % 256
<1> DEFINE f == d.deps[i]
           a == (f % 64) * 4 + Flag(IsExtended(f), 2) + Flag(i < Len(d.deps), 1)
           b == (f \div 64) % 256
<1>1. f \in Nat
  OBVIOUS
<1>2. a \in Nat /\ b \in Nat
  <2> HIDE DEF f
  <2>1. f % 64 \in Nat /\ (f \div 64) \in Nat
    BY <1>1
  <2>2. (f \div 64) % 256 \in Nat
    BY <2>1
  <2> QED BY <2>1, <2>2 DEF Flag
<1>3. DependencyBytes(d, i) = <<a>> \o (IF IsExtended(f) THEN <<b>> ELSE <<>>)
  BY DEF DependencyBytes
<1>4. DependencySize(f) = IF IsExtended(f) THEN 2 ELSE 1
  BY DEF DependencySize
<1> DEFINE all == DependencyBytes(d, i)
<1>5. CASE IsExtended(f)
  <2> HIDE DEF f, a, b
  <2>1. all = <<a>> \o <<b>>
    BY <1>3, <1>5
  <2> HIDE DEF all
  <2>2. <<a>> \in Seq(Nat) /\ <<b>> \in Seq(Nat) /\ Len(<<a>>) = 1 /\ Len(<<b>>) = 1
    BY <1>2
  <2>3. all \in Seq(Nat) /\ Len(all) = 2 /\ all[1] = <<a>>[1] /\ all[2] = <<b>>[1]
    BY <2>1, <2>2, ConcatProperties
  <2>4. all \in Seq(Nat) /\ Len(all) = 2 /\ all[1] = a /\ all[2] = b
    BY <2>3
  <2> QED BY <1>4, <1>5, <2>4 DEF all, f, a, b
<1>6. CASE ~ IsExtended(f)
  <2> HIDE DEF f, a, b
  <2>1. all = <<a>> \o << >>
    BY <1>3, <1>6
  <2> HIDE DEF all
  <2>2. <<a>> \in Seq(Nat) /\ Len(<<a>>) = 1
    BY <1>2
  <2>3. all = <<a>>
    BY <2>1, <2>2, ConcatEmptySeq
  <2>4. all \in Seq(Nat) /\ Len(all) = 1 /\ all[1] = a
    BY <1>2, <2>3
  <2> QED BY <1>4, <1>6, <2>4 DEF all, f, a
<1> QED BY <1>5, <1>6

\* Dependency i is written from offset g[i - 1] on, and the dependencies need
\* what DependenciesSize counts.
StandsAt(bytes, at, d, i) ==
  /\ bytes[at + 1] = DependencyBytes(d, i)[1]
  /\ IsExtended(d.deps[i]) => bytes[at + 2] = DependencyBytes(d, i)[2]
IsLayout(g, d) ==
  /\ g[0] = 0 /\ \A i \in 1 .. Len(d.deps) : g[i] = g[i - 1] + DependencySize(d.deps[i])
  /\ DependenciesSize(d.deps) = g[Len(d.deps)]
  /\ DependenciesBytes(d) \in Seq(Nat) /\ Len(DependenciesBytes(d)) = g[Len(d.deps)]
  /\ \A i \in 0 .. Len(d.deps) : g[i] \in Nat /\ g[i] <= g[Len(d.deps)]
  /\ \A i \in 1 .. Len(d.deps) : StandsAt(DependenciesBytes(d), g[i - 1], d, i)

\* Another piece behind bytes leaves what stands in them.
LEMMA StaysAt ==
  ASSUME NEW d, NEW i, NEW bytes \in Seq(Nat), NEW more \in Seq(Nat), NEW at \in Nat,
         StandsAt(bytes, at, d, i), at + DependencySize(d.deps[i]) <= Len(bytes)
  PROVE  StandsAt(bytes \o more, at, d, i)
<1>1. \A k \in 1 .. Len(bytes) : (bytes \o more)[k] = bytes[k]
  OBVIOUS
<1>2. Len(bytes) \in Nat
  OBVIOUS
<1>3. DependencySize(d.deps[i]) = IF IsExtended(d.deps[i]) THEN 2 ELSE 1
  BY DEF DependencySize
<1>4. at + 1 \in 1 .. Len(bytes) /\ (IsExtended(d.deps[i]) => at + 2 \in 1 .. Len(bytes))
  BY <1>2, <1>3
<1> QED BY <1>1, <1>4 DEF StandsAt

\* write_to_buff writes the dependencies one behind the other.
LEMMA LayoutExists ==
  ASSUME NEW d, d.deps \in Seq(Nat)
  PROVE  \E g : IsLayout(g, d)
<1> DEFINE n == Len(d.deps)
           size(i) == DependencySize(d.deps[i])
<1>1. n \in Nat
  OBVIOUS
<1>2. PICK g : IsSizes(g, d.deps) /\ DependenciesSize(d.deps) = g[n]
  BY <1>1, SizeRuns
<1>3. PICK h : IsWritten(h, d) /\ DependenciesBytes(d) = h[n]
  BY <1>1, BytesRun
<1> HIDE DEF n
<1>4. g[0] = 0 /\ \A i \in 1 .. n : g[i] = g[i - 1] + size(i)
  <2>1. g = [k \in 0 .. n |-> IF k = 0 THEN 0 ELSE g[k - 1] + size(k)]
    BY <1>2 DEF IsSizes, n
  <2> HIDE DEF size
  <2>2. \A k \in 0 .. n : g[k] = IF k = 0 THEN 0 ELSE g[k - 1] + size(k)
    BY <2>1
  <2>3. 0 \in 0 .. n /\ \A k \in 1 .. n : k \in 0 .. n /\ k # 0
    BY <1>1
  <2> QED BY <2>2, <2>3
<1>5. h[0] = <<>> /\ \A i \in 1 .. n : h[i] = h[i - 1] \o DependencyBytes(d, i)
  <2> DEFINE bs(i) == DependencyBytes(d, i)
  <2>1. h = [k \in 0 .. n |-> IF k = 0 THEN <<>> ELSE h[k - 1] \o bs(k)]
    BY <1>3 DEF IsWritten, n
  <2> HIDE DEF bs
  <2>2. \A k \in 0 .. n : h[k] = IF k = 0 THEN <<>> ELSE h[k - 1] \o bs(k)
    BY <2>1
  <2>3. 0 \in 0 .. n /\ \A k \in 1 .. n : k \in 0 .. n /\ k # 0
    BY <1>1
  <2> QED BY <2>2, <2>3 DEF bs
<1>6. \A i \in 1 .. n : /\ DependencyBytes(d, i) \in Seq(Nat)
                        /\ Len(DependencyBytes(d, i)) = size(i) /\ size(i) \in Nat
  BY DependencyBytesAre DEF n
<1> DEFINE Done(m) == /\ h[m] \in Seq(Nat) /\ Len(h[m]) = g[m] /\ g[m] \in Nat
                      /\ \A i \in 0 .. m : g[i] \in Nat /\ g[i] <= g[m]
                      /\ \A i \in 1 .. m : StandsAt(h[m], g[i - 1], d, i)
           Good == {m \in 0 .. n : Done(m)}
<1> HIDE DEF size
<1>7. 0 \in Good
  <2>1. h[0] \in Seq(Nat) /\ Len(h[0]) = g[0] /\ g[0] \in Nat
    BY <1>4, <1>5
  <2>2. \A i \in 0 .. 0 : g[i] \in Nat /\ g[i] <= g[0]
    BY <2>1
  <2>3. 1 .. 0 = {}
    OBVIOUS
  <2> QED BY <1>1, <2>1, <2>2, <2>3
<1>8. ASSUME NEW m \in 1 .. n, m - 1 \in Good
      PROVE  m \in Good
  <2>1. Done(m - 1)
    BY <1>8
  <2> DEFINE old == h[m - 1]
             more == DependencyBytes(d, m)
  <2>2. /\ old \in Seq(Nat) /\ Len(old) = g[m - 1] /\ g[m - 1] \in Nat
        /\ more \in Seq(Nat) /\ Len(more) = size(m) /\ size(m) \in Nat
        /\ h[m] = old \o more /\ g[m] = g[m - 1] + size(m)
    BY <1>4, <1>5, <1>6, <2>1
  <2>3. \A i \in 0 .. m - 1 : g[i] \in Nat /\ g[i] <= g[m - 1]
    BY <2>1
  <2>4. \A i \in 1 .. m - 1 : StandsAt(old, g[i - 1], d, i)
    BY <2>1
  <2> HIDE DEF Done, old
  <2>5. h[m] \in Seq(Nat) /\ Len(h[m]) = g[m] /\ g[m] \in Nat
    <3> HIDE DEF more
    <3>1. old \o more \in Seq(Nat) /\ Len(old \o more) = Len(old) + Len(more)
      BY <2>2, ConcatProperties
    <3> QED BY <2>2, <3>1
  <2>6. \A i \in 0 .. m : g[i] \in Nat /\ g[i] <= g[m]
    <3> TAKE i \in 0 .. m
    <3>1. CASE i = m
      BY <2>5, <3>1
    <3>2. CASE i # m
      <4>1. i \in 0 .. m - 1
        BY <3>2
      <4>2. g[i] \in Nat /\ g[i] <= g[m - 1]
        BY <2>3, <4>1
      <4> QED BY <2>2, <4>2
    <3> QED BY <3>1, <3>2
  <2>7. StandsAt(h[m], g[m - 1], d, m)
    <3>1. size(m) = IF IsExtended(d.deps[m]) THEN 2 ELSE 1
      BY DEF size, DependencySize
    <3>2. \A k \in 1 .. size(m) : h[m][g[m - 1] + k] = more[k]
      <4> HIDE DEF more
      <4> TAKE k \in 1 .. size(m)
      <4> DEFINE p == g[m - 1] + k
      <4>1. p \in 1 .. Len(old) + Len(more) /\ ~ (p <= Len(old)) /\ p - Len(old) = k
        BY <2>2, SMTT(30)
      <4> HIDE DEF p
      <4>2. (old \o more)[p] = more[k]
        BY <2>2, <4>1, ConcatProperties
      <4> QED BY <2>2, <4>2 DEF p
    <3>3. 1 \in 1 .. size(m) /\ (IsExtended(d.deps[m]) => 2 \in 1 .. size(m))
      BY <3>1
    <3> QED BY <3>2, <3>3 DEF StandsAt
  <2>8. \A i \in 1 .. m : StandsAt(h[m], g[i - 1], d, i)
    <3> TAKE i \in 1 .. m
    <3>1. CASE i = m
      BY <2>7, <3>1
    <3>2. CASE i # m
      <4> DEFINE at == g[i - 1]
      <4>1. i \in 1 .. m - 1 /\ i - 1 \in 0 .. m - 1 /\ i \in 0 .. m - 1 /\ i \in 1 .. n
        BY <1>1, <3>2
      <4>2. at \in Nat /\ StandsAt(old, at, d, i) /\ g[i] = at + size(i) /\ g[i] <= Len(old)
        BY <1>4, <2>2, <2>3, <2>4, <4>1
      <4>3. at + DependencySize(d.deps[i]) <= Len(old)
        BY <4>2 DEF size
      <4> HIDE DEF at, more
      <4>4. StandsAt(old \o more, at, d, i)
        BY <2>2, <4>2, <4>3, StaysAt
      <4> QED BY <2>2, <4>4 DEF at
    <3> QED BY <3>1, <3>2
  <2>9. Done(m)
    BY <2>5, <2>6, <2>8 DEF Done
  <2> QED BY <2>9
<1>9. Done(n)
  <2>1. Good \in SUBSET (0 .. n)
    OBVIOUS
  <2>2. Good = 0 .. n
    <3> HIDE DEF Good
    <3> QED BY <1>1, <1>7, <1>8, <2>1, AtTheEnd
  <2>3. n \in Good
    <3> HIDE DEF Good
    <3> QED BY <1>1, <2>2
  <2> QED BY <2>3
<1>10. IsLayout(g, d)
  BY <1>2, <1>3, <1>4, <1>9 DEF IsLayout, n, size
<1> QED BY <1>10
\* One sequence behind the other.
IsJoined(u, s, t) ==
  /\ u \in Seq(Nat) /\ Len(u) = Len(s) + Len(t)
  /\ \A i \in 1 .. Len(s) : u[i] = s[i]
  /\ \A i \in 1 .. Len(t) : u[Len(s) + i] = t[i]
\* A sequence put behind another keeps the elements of both.
LEMMA Joined ==
  ASSUME NEW s \in Seq(Nat), NEW t \in Seq(Nat)
  PROVE  IsJoined(s \o t, s, t)
<1> DEFINE u == s \o t
           m == Len(s)
           n == Len(t)
<1>1. m \in Nat /\ n \in Nat
  OBVIOUS
<1>2. /\ u \in Seq(Nat) /\ Len(u) = m + n
      /\ \A i \in 1 .. m + n : u[i] = IF i <= m THEN s[i] ELSE t[i - m]
  BY ConcatProperties
<1> HIDE DEF u, m, n
<1>3. ASSUME NEW i \in 1 .. m PROVE u[i] = s[i]
  BY <1>1, <1>2
<1>4. ASSUME NEW i \in 1 .. n PROVE u[m + i] = t[i]
  <2> DEFINE p == m + i
  <2>1. p \in 1 .. m + n /\ p - m = i /\ ~ (p <= m)
    BY <1>1
  <2> HIDE DEF p
  <2>2. u[p] = t[i]
    BY <1>2, <2>1
  <2> QED BY <2>2 DEF p
<1> QED BY <1>2, <1>3, <1>4 DEF IsJoined, u, m, n

\* Two pairs of bytes are four.
AreFour(s, a, b, c, e) ==
  /\ s \in Seq(Nat) /\ Len(s) = 4 /\ s[1] = a /\ s[2] = b /\ s[3] = c /\ s[4] = e
\* Two pairs put together are four bytes.
LEMMA FourBytes ==
  ASSUME NEW a \in Nat, NEW b \in Nat, NEW c \in Nat, NEW e \in Nat
  PROVE  AreFour(<<a, b>> \o <<c, e>>, a, b, c, e)
<1> DEFINE x == <<a, b>>
           y == <<c, e>>
           s == x \o y
<1>1. x \in Seq(Nat) /\ Len(x) = 2 /\ y \in Seq(Nat) /\ Len(y) = 2
  OBVIOUS
<1>2. x[1] = a /\ x[2] = b /\ y[1] = c /\ y[2] = e
  OBVIOUS
<1> HIDE DEF x, y
<1>3. IsJoined(s, x, y)
  BY <1>1, Joined
<1> HIDE DEF s
<1>4. s[1] = x[1] /\ s[2] = x[2] /\ s[2 + 1] = y[1] /\ s[2 + 2] = y[2]
  BY <1>1, <1>3 DEF IsJoined
<1> QED BY <1>1, <1>2, <1>3, <1>4 DEF AreFour, IsJoined, s, x, y
-----------------------------------------------------------------------------
\* The descriptors that the setters make, and what write_to_buff makes of one.

Diffs == {f \in Nat : f >= 1 /\ f <= 16384}
IsRecord(d) ==
  /\ d = [first |-> d.first, last |-> d.last, id |-> d.id, spatial |-> d.spatial,
          temporal |-> d.temporal, deps |-> d.deps, resolution |-> d.resolution]
  /\ d.resolution = <<d.resolution[1], d.resolution[2]>>
IsDescriptor(d) ==
  /\ IsRecord(d)
  /\ d.first \in BOOLEAN /\ d.last \in BOOLEAN /\ d.spatial \in Byte
  /\ d.id \in Nat /\ d.id <= 65535 /\ d.temporal \in 0 .. 8
  /\ d.deps \in Seq(Diffs) /\ Len(d.deps) <= MaxDependencies
  /\ d.resolution[1] \in Nat /\ d.resolution[1] <= 65535
  /\ d.resolution[2] \in Nat /\ d.resolution[2] <= 65535

\* A byte is a number.
LEMMA ByteIs ==
  ASSUME NEW b \in Byte
  PROVE  b \in Nat /\ b <= 255
BY DEF Byte

\* A difference is a number, and not zero.
LEMMA DiffIs ==
  ASSUME NEW f \in Diffs
  PROVE  f \in Nat /\ f >= 1
BY DEF Diffs

\* The dependencies are numbers, and they are few.
LEMMA DepsAre ==
  ASSUME NEW d, IsDescriptor(d)
  PROVE  /\ d.deps \in Seq(Nat) /\ Len(d.deps) \in Nat /\ Len(d.deps) <= MaxDependencies
         /\ MaxDependencies \in Nat /\ MaxDependencies <= 125
         /\ \A i \in 1 .. Len(d.deps) : d.deps[i] \in Diffs
<1>1. d.deps \in Seq(Diffs) /\ Len(d.deps) <= MaxDependencies
  BY DEF IsDescriptor
<1>2. Diffs \subseteq Nat
  BY DEF Diffs
<1>3. d.deps \in Seq(Nat)
  BY <1>1, <1>2, SeqMonotonic
<1>4. MaxDependencies \in Nat /\ MaxDependencies <= 125
  BY DependenciesAssumption
<1>5. \A i \in 1 .. Len(d.deps) : d.deps[i] \in Diffs
  BY <1>1, ElementOfSeq
<1>6. Len(d.deps) \in Nat
  BY <1>3, LenProperties
<1> QED BY <1>1, <1>3, <1>4, <1>5, <1>6

\* The two bytes of a number.
LEMMA TwoBytes ==
  ASSUME NEW x \in Nat, x <= 65535
  PROVE  /\ x \div 256 \in Nat /\ x \div 256 <= 255 /\ x % 256 \in Nat /\ x % 256 <= 255
         /\ 256 * (x \div 256) + (x % 256) = x
OBVIOUS

\* The first byte of the extension.
LEMMA FlagsAre ==
  ASSUME NEW d, IsDescriptor(d)
  PROVE  /\ BaseHeader(d) \in Nat /\ BaseHeader(d) <= 255
         /\ FirstByte(d) \in Nat /\ FirstByte(d) <= 255
         /\ BaseHeader(d) = (IF d.first THEN 128 ELSE 0) + (IF d.last THEN 64 ELSE 0) + 48
         /\ FirstByte(d) = BaseHeader(d)
                             + (IF d.deps # <<>> \/ d.temporal >= 8 THEN 8 ELSE 0)
                             + (d.temporal % 8)
<1> DEFINE t == d.temporal
           D == d.deps # <<>> \/ t >= 8
<1>1. t \in 0 .. 8 /\ d.first \in BOOLEAN /\ d.last \in BOOLEAN
  BY DEF IsDescriptor
<1>2. BaseHeader(d) = (IF d.first THEN 128 ELSE 0) + (IF d.last THEN 64 ELSE 0) + 48
  BY <1>1 DEF BaseHeader, Flag
<1>3. FirstByte(d) = BaseHeader(d) + (IF D THEN 8 ELSE 0) + (t % 8)
  BY DEF FirstByte, Flag
<1>4. t % 8 \in 0 .. 7
  <2> HIDE DEF t
  <2> QED BY <1>1
<1> HIDE DEF t, D
<1>5. /\ BaseHeader(d) \in Nat /\ BaseHeader(d) <= 255
      /\ FirstByte(d) \in Nat /\ FirstByte(d) <= 255
  BY <1>1, <1>2, <1>3, <1>4
<1> QED BY <1>2, <1>3, <1>5 DEF t, D

\* What write_to_buff makes of a descriptor of the first packet of a frame.
HasFields(w, d) ==
  /\ w[1] = FirstByte(d) /\ w[2] = d.spatial /\ w[3] = d.id % 256 /\ w[4] = d.id \div 256
  /\ HasResolution(d) =>
       /\ Len(w) = 8
       /\ w[5] = d.resolution[1] \div 256 /\ w[6] = d.resolution[1] % 256
       /\ w[7] = d.resolution[2] \div 256 /\ w[8] = d.resolution[2] % 256
  /\ ~ HasResolution(d) =>
       /\ Len(w) = 4 + Len(DependenciesBytes(d))
       /\ \A i \in 1 .. Len(DependenciesBytes(d)) : w[4 + i] = DependenciesBytes(d)[i]
IsExtension(w, d) ==
  /\ w \in Seq(Nat) /\ Len(w) = ValueSize(d) /\ Len(w) \in Nat /\ Len(w) >= 1 /\ Len(w) <= 254
  /\ ~ d.first => w = <<BaseHeader(d)>>
  /\ d.first => HasFields(w, d)

\* The dependencies take at most two bytes each.
LEMMA DependenciesAreShort ==
  ASSUME NEW d, NEW g, d.deps \in Seq(Nat), IsLayout(g, d)
  PROVE  g[Len(d.deps)] <= 2 * Len(d.deps)
<1> DEFINE n == Len(d.deps)
           Good == {m \in 0 .. n : g[m] <= 2 * m}
<1>1. n \in Nat
  OBVIOUS
<1>2. /\ g[0] = 0 /\ \A i \in 0 .. n : g[i] \in Nat
      /\ \A i \in 1 .. n : g[i] = g[i - 1] + DependencySize(d.deps[i])
  BY DEF IsLayout
<1>3. \A i \in 1 .. n : DependencySize(d.deps[i]) \in {1, 2}
  BY DEF DependencySize
<1> HIDE DEF n
<1>4. 0 \in Good
  BY <1>1, <1>2
<1>5. ASSUME NEW m \in 1 .. n, m - 1 \in Good PROVE m \in Good
  <2>1. g[m - 1] <= 2 * (m - 1)
    BY <1>5
  <2>2. g[m] = g[m - 1] + DependencySize(d.deps[m]) /\ DependencySize(d.deps[m]) \in {1, 2}
    BY <1>2, <1>3
  <2>3. m - 1 \in 0 .. n /\ m \in 0 .. n
    BY <1>1
  <2>4. g[m - 1] \in Nat
    BY <1>2, <2>3
  <2> QED BY <2>1, <2>2, <2>3, <2>4
<1>6. Good = 0 .. n
  <2>1. Good \in SUBSET (0 .. n)
    OBVIOUS
  <2> HIDE DEF Good
  <2> QED BY <1>1, <1>4, <1>5, <2>1, AtTheEnd
<1>7. n \in Good
  <2> HIDE DEF Good
  <2> QED BY <1>1, <1>6
<1> QED BY <1>7 DEF n

\* write_to_buff fills what value_size says, field by field.
LEMMA WriteToBuffIs ==
  ASSUME NEW d, IsDescriptor(d)
  PROVE  IsExtension(WriteToBuff(d), d)
<1> DEFINE n == Len(d.deps)
           w == WriteToBuff(d)
<1>1. PICK g : IsLayout(g, d)
  BY DepsAre, LayoutExists
<1> DEFINE ds == DependenciesBytes(d)
           m == Len(ds)
<1>2. ds \in Seq(Nat) /\ m \in Nat /\ DependenciesSize(d.deps) = m /\ m <= 250 /\ (n = 0 => m = 0)
  <2>1. ds \in Seq(Nat) /\ m = g[n] /\ DependenciesSize(d.deps) = g[n]
    BY <1>1 DEF IsLayout
  <2>2. n \in Nat /\ n <= 125 /\ d.deps \in Seq(Nat)
    BY DepsAre
  <2>3. g[n] <= 2 * n
    BY <1>1, <2>2, DependenciesAreShort
  <2>4. m \in Nat
    BY <2>1, LenProperties
  <2> HIDE DEF ds, n, m
  <2> QED BY <2>1, <2>2, <2>3, <2>4
<1>3. CASE ~ d.first
  <2>1. w = <<BaseHeader(d)>> /\ ValueSize(d) = 1
    BY <1>3 DEF WriteToBuff, ValueSize
  <2>2. BaseHeader(d) \in Nat
    BY FlagsAre
  <2> HIDE DEF w
  <2>3. w \in Seq(Nat) /\ Len(w) = 1
    BY <2>1, <2>2
  <2> QED BY <1>3, <2>1, <2>3 DEF IsExtension, w
<1>4. CASE d.first
  <2> DEFINE a == FirstByte(d)
             b == d.spatial
             i1 == d.id % 256
             i2 == d.id \div 256
             r1 == d.resolution[1] \div 256
             r2 == d.resolution[1] % 256
             r3 == d.resolution[2] \div 256
             r4 == d.resolution[2] % 256
             R == HasResolution(d)
  <2>1. a \in Nat /\ b \in Nat
    BY FlagsAre, ByteIs DEF IsDescriptor
  <2>2. i1 \in Nat /\ i2 \in Nat
    BY TwoBytes DEF IsDescriptor
  <2>3. r1 \in Nat /\ r2 \in Nat /\ r3 \in Nat /\ r4 \in Nat
    BY TwoBytes, SMTT(30) DEF IsDescriptor
  <2>4. R => m = 0
    <3>1. R => d.deps = <<>>
      BY DEF HasResolution
    <3> HIDE DEF R
    <3>2. R => n = 0
      BY <3>1
    <3> QED BY <1>2, <3>2
  <2>5. ValueSize(d) = 4 + m + (IF R THEN 4 ELSE 0)
    BY <1>2, <1>4 DEF ValueSize
  <2> DEFINE res == IF R THEN <<r1, r2>> \o <<r3, r4>> ELSE <<>>
             front == <<a, b>> \o <<i1, i2>>
  <2>6. w = (front \o res) \o ds
    BY <1>4 DEF WriteToBuff, LowHigh, HighLow
  <2> HIDE DEF a, b, i1, i2, r1, r2, r3, r4, R, ds, m, w
  <2>7. AreFour(front, a, b, i1, i2)
    BY <2>1, <2>2, FourBytes
  <2>8. R => AreFour(res, r1, r2, r3, r4)
    BY <2>3, FourBytes
  <2>9. ~ R => res = <<>>
    OBVIOUS
  <2>10. res \in Seq(Nat)
    <3>1. <<>> \in Seq(Nat)
      BY EmptySeq
    <3> HIDE DEF res
    <3>2. R => res \in Seq(Nat)
      BY <2>8 DEF AreFour
    <3> QED BY <2>9, <3>1, <3>2
  <2>11. IsJoined(front \o res, front, res)
    <3> HIDE DEF front, res
    <3> QED BY <2>7, <2>10, Joined DEF AreFour
  <2> HIDE DEF front, res
  <2> DEFINE head == front \o res
  <2>12. IsJoined(w, head, ds)
    <3>1. head \in Seq(Nat)
      BY <2>11 DEF IsJoined
    <3> HIDE DEF head
    <3>2. IsJoined(head \o ds, head, ds)
      BY <1>2, <3>1, Joined DEF m
    <3> QED BY <2>6, <3>2 DEF head
  <2> HIDE DEF head
  <2>13. IsJoined(head, front, res)
    BY <2>11 DEF head
  <2>14. /\ Len(front) = 4 /\ front[1] = a /\ front[2] = b /\ front[3] = i1 /\ front[4] = i2
    BY <2>7 DEF AreFour
  <2>15. /\ head[1] = a /\ head[2] = b /\ head[3] = i1 /\ head[4] = i2
         /\ Len(head) = 4 + Len(res)
    BY <2>13, <2>14 DEF IsJoined
  <2>16. w \in Seq(Nat) /\ Len(w) = Len(head) + m
    BY <2>12 DEF IsJoined, m
  <2>17. ~ R => Len(head) = 4
    BY <2>9, <2>15
  <2>18. R => /\ Len(head) = 8
              /\ head[5] = r1 /\ head[6] = r2 /\ head[7] = r3 /\ head[8] = r4
    <3> SUFFICES ASSUME R PROVE Len(head) = 8 /\ head[5] = r1 /\ head[6] = r2
                                /\ head[7] = r3 /\ head[8] = r4
      OBVIOUS
    <3>1. Len(res) = 4 /\ res[1] = r1 /\ res[2] = r2 /\ res[3] = r3 /\ res[4] = r4
      BY <2>8 DEF AreFour
    <3>2. /\ head[4 + 1] = res[1] /\ head[4 + 2] = res[2]
          /\ head[4 + 3] = res[3] /\ head[4 + 4] = res[4]
      BY <2>13, <2>14, <3>1 DEF IsJoined
    <3> QED BY <2>15, <3>1, <3>2
  <2>19. /\ \A i \in 1 .. Len(head) : w[i] = head[i]
         /\ \A i \in 1 .. m : w[Len(head) + i] = ds[i]
    BY <2>12 DEF IsJoined, m
  <2>20. R \in BOOLEAN
    BY DEF R, HasResolution
  <2>21. /\ Len(w) = ValueSize(d) /\ Len(w) \in Nat /\ Len(w) >= 4 /\ Len(w) <= 254
    <3>1. m \in Nat /\ m <= 250
      BY <1>2
    <3>2. CASE R
      <4>1. m = 0 /\ Len(head) = 8 /\ Len(w) = 8
        BY <2>4, <2>16, <2>18, <3>2
      <4>2. ValueSize(d) = 8
        BY <2>5, <3>2, <4>1
      <4> QED BY <4>1, <4>2
    <3>3. CASE ~ R
      <4>1. Len(w) = 4 + m
        BY <2>16, <2>17, <3>3
      <4>2. ValueSize(d) = 4 + m
        BY <2>5, <3>1, <3>3
      <4> QED BY <3>1, <4>1, <4>2
    <3> QED BY <2>20, <3>2, <3>3
  <2>22. w[1] = a /\ w[2] = b /\ w[3] = i1 /\ w[4] = i2
    BY <2>15, <2>17, <2>18, <2>19, <2>20
  <2>23. R => Len(w) = 8 /\ w[5] = r1 /\ w[6] = r2 /\ w[7] = r3 /\ w[8] = r4
    <3> SUFFICES ASSUME R PROVE Len(w) = 8 /\ w[5] = r1 /\ w[6] = r2 /\ w[7] = r3 /\ w[8] = r4
      OBVIOUS
    <3>1. Len(head) = 8 /\ m = 0
      BY <2>4, <2>18
    <3>2. Len(w) = 8
      BY <2>16, <3>1
    <3>3. w[5] = head[5] /\ w[6] = head[6] /\ w[7] = head[7] /\ w[8] = head[8]
      BY <2>19, <3>1
    <3> QED BY <2>18, <3>2, <3>3
  <2>24. ~ R => Len(w) = 4 + m
    BY <2>16, <2>17
  <2>25. ~ R => \A i \in 1 .. m : w[4 + i] = ds[i]
    BY <2>17, <2>19
  <2>26. HasFields(w, d)
    BY <2>22, <2>23, <2>24, <2>25
       DEF HasFields, a, b, i1, i2, r1, r2, r3, r4, R, ds, m
  <2> QED BY <1>4, <2>16, <2>21, <2>26 DEF IsExtension, w
<1> QED BY <1>3, <1>4
-----------------------------------------------------------------------------
\* What read_from_buff makes of the bytes that write_to_buff wrote.

\* The flags of the first byte do not run into one another, as long as the
\* temporal layer needs three bits.
LEMMA FlagsAreRead ==
  ASSUME NEW d, IsDescriptor(d)
  PROVE  /\ Bit(BaseHeader(d), 128) = d.first /\ Bit(BaseHeader(d), 64) = d.last
         /\ d.temporal <= 7 =>
              /\ Bit(FirstByte(d), 128) = d.first /\ Bit(FirstByte(d), 64) = d.last
              /\ (Bit(FirstByte(d), 128) <=> d.first)
              /\ (Bit(FirstByte(d), 8) <=> d.deps # <<>>) /\ FirstByte(d) % 8 = d.temporal
<1> DEFINE t == d.temporal
           f == d.first
           l == d.last
           D == d.deps # <<>>
           b == BaseHeader(d)
           x == FirstByte(d)
           k == (IF f THEN 128 ELSE 0) + (IF l THEN 64 ELSE 0)
           e == IF D THEN 8 ELSE 0
<1>1. t \in 0 .. 8 /\ f \in BOOLEAN /\ l \in BOOLEAN
  BY DEF IsDescriptor
<1>2. D \in BOOLEAN
  OBVIOUS
<1>3. b = k + 48
  BY FlagsAre
<1>4. x = b + (IF D \/ t >= 8 THEN 8 ELSE 0) + (t % 8)
  BY FlagsAre
<1> HIDE DEF t, f, l, D, b, x
<1>5. k \in Nat /\ (f <=> k \in {128, 192}) /\ (l <=> k \in {64, 192}) /\ k \in {0, 64, 128, 192}
  BY <1>1
<1>6. e \in {0, 8} /\ (D <=> e = 8)
  BY <1>2
<1>7. ASSUME t <= 7 PROVE x = k + 48 + e + t /\ t \in 0 .. 7
  <2>1. t \in 0 .. 7
    BY <1>1, <1>7
  <2>2. t % 8 = t /\ ~ (t >= 8)
    BY <2>1
  <2>3. x = b + e + t
    BY <1>2, <1>4, <2>2
  <2> HIDE DEF k, e
  <2> QED BY <1>3, <1>5, <1>6, <2>1, <2>3
<1> HIDE DEF k, e
<1>8. /\ (b \div 128) % 2 = 1 <=> f
      /\ (b \div 64) % 2 = 1 <=> l
  BY <1>3, <1>5
<1>9. ASSUME t <= 7
      PROVE  /\ (x \div 128) % 2 = 1 <=> f
             /\ (x \div 64) % 2 = 1 <=> l
             /\ (x \div 8) % 2 = 1 <=> D
             /\ x % 8 = t
  <2>1. /\ (x \div 128) % 2 = 1 <=> f
        /\ (x \div 64) % 2 = 1 <=> l
    BY <1>5, <1>6, <1>7, <1>9
  <2>2. (x \div 8) % 2 = 1 <=> D
    BY <1>5, <1>6, <1>7, <1>9
  <2>3. x % 8 = t
    BY <1>5, <1>6, <1>7, <1>9
  <2> QED BY <2>1, <2>2, <2>3
<1>10. Bit(b, 128) = f /\ Bit(b, 64) = l
  BY <1>1, <1>8 DEF Bit
<1>11. ASSUME t <= 7
       PROVE  Bit(x, 128) = f /\ (Bit(x, 128) <=> f) /\ Bit(x, 64) = l /\ (Bit(x, 8) <=> D)
  BY <1>1, <1>2, <1>9, <1>11 DEF Bit
<1> QED BY <1>9, <1>10, <1>11 DEF t, f, l, D, b, x

\* Two records of the fields of a descriptor are the same when their fields are.
Fields == {"first", "last", "id", "spatial", "temporal", "deps", "resolution"}
HasTheFields(r) == r = [x \in Fields |-> r[x]]
\* Descriptors that agree in every field are equal.
LEMMA SameFields ==
  ASSUME NEW r, NEW s, HasTheFields(r), HasTheFields(s),
         r.first = s.first, r.last = s.last, r.id = s.id, r.spatial = s.spatial,
         r.temporal = s.temporal, r.deps = s.deps, r.resolution = s.resolution
  PROVE  r = s
<1>1. \A x \in Fields : r[x] = s[x]
  BY DEF Fields
<1> QED BY <1>1 DEF HasTheFields

\* Setting the dependencies of a descriptor.
IsDepsSet(q, r, s) ==
  /\ HasTheFields(q) /\ q.deps = s
  /\ q.first = r.first /\ q.last = r.last /\ q.id = r.id /\ q.spatial = r.spatial
  /\ q.temporal = r.temporal /\ q.resolution = r.resolution
  /\ \A t : [q EXCEPT !.deps = t] = [r EXCEPT !.deps = t]
\* Setting the dependencies leaves the other fields.
LEMMA DepsSet ==
  ASSUME NEW r, HasTheFields(r), NEW s
  PROVE  IsDepsSet([r EXCEPT !.deps = s], r, s)
<1>1. DOMAIN r = Fields
  BY DEF HasTheFields
<1> DEFINE q == [r EXCEPT !.deps = s]
<1>2. HasTheFields(q)
  BY <1>1 DEF HasTheFields
<1>3. q.deps = s
  BY <1>1 DEF Fields
<1>4. q.first = r.first /\ q.last = r.last /\ q.id = r.id /\ q.spatial = r.spatial
  BY <1>1 DEF Fields
<1>5. q.temporal = r.temporal /\ q.resolution = r.resolution
  BY <1>1 DEF Fields
<1>6. \A t : [q EXCEPT !.deps = t] = [r EXCEPT !.deps = t]
  BY <1>1 DEF Fields
<1> HIDE DEF q
<1>7. IsDepsSet(q, r, s)
  BY <1>2, <1>3, <1>4, <1>5, <1>6 DEF IsDepsSet
<1> QED BY <1>7 DEF q

\* One dependency comes out of its bytes.
LEMMA DiffIsRead ==
  ASSUME NEW f \in Diffs, f <= 16383, NEW m \in {0, 1}, NEW b,
         b = (f % 64) * 4 + (IF f >= 64 THEN 2 ELSE 0) + m
  PROVE  /\ b \div 4 = f % 64
         /\ (b \div 2) % 2 = 1 <=> f >= 64
         /\ (b \div 1) % 2 = 1 <=> m = 1
         /\ (b \div 4) + (IF f >= 64 THEN 64 * ((f \div 64) % 256) ELSE 0) = f
<1>1. f \in Nat /\ f >= 1
  BY DEF Diffs
<1> DEFINE x == f % 64
           y == f \div 64
           e == IF f >= 64 THEN 1 ELSE 0
<1>2. x \in 0 .. 63 /\ y \in Nat /\ f = 64 * y + x /\ y <= 255
  BY <1>1
<1>3. e \in {0, 1} /\ (e = 1 <=> f >= 64)
  BY <1>1
<1>4. b = x * 4 + 2 * e + m
  <2> HIDE DEF x
  <2> QED BY <1>1, <1>2 DEF x
<1>5. y % 256 = y
  <2> HIDE DEF y
  <2> QED BY <1>2
<1>6. f >= 64 \/ y = 0
  BY <1>1, <1>2
<1> HIDE DEF x, y, e
<1>7. x \in Nat /\ x <= 63
  BY <1>2
<1>8. b \div 4 = x
  BY <1>3, <1>4, <1>7
<1>9. (b \div 2) % 2 = e
  BY <1>3, <1>4, <1>7
<1>10. (b \div 1) % 2 = m
  BY <1>3, <1>4, <1>7
<1>11. x + (IF f >= 64 THEN 64 * (y % 256) ELSE 0) = f
  BY <1>1, <1>2, <1>5, <1>6
<1>12. /\ (b \div 2) % 2 = 1 <=> f >= 64
       /\ (b \div 1) % 2 = 1 <=> m = 1
  BY <1>3, <1>9, <1>10
<1>13. b \div 4 = x /\ x + (IF f >= 64 THEN 64 * (y % 256) ELSE 0) = f
  BY <1>8, <1>11
<1>14. (b \div 4) + (IF f >= 64 THEN 64 * (y % 256) ELSE 0) = f
  BY <1>13
<1> QED BY <1>8, <1>12, <1>14 DEF x, y

\* The state of the loop over the dependencies after i rounds, when r is the
\* descriptor that the loop began with.
Success(d) == Result(d, TRUE)
ReadSoFar(d, r, i) == [r EXCEPT !.deps = SubSeq(d.deps, 1, i)]
ReadState(g, d, r, i) ==
  [at |-> 4 + g[i], more |-> i < Len(d.deps), result |-> Success(ReadSoFar(d, r, i))]

\* A dependency that is added is the last one.
LEMMA DependencyAdded ==
  ASSUME NEW d, IsDescriptor(d), NEW r, HasTheFields(r),
         NEW i \in Nat, NEW j \in 1 .. Len(d.deps), j = i + 1
  PROVE  AddFrameDependencyDiff(ReadSoFar(d, r, i), d.deps[j]) = Success(ReadSoFar(d, r, j))
<1> DEFINE n == Len(d.deps)
           s == SubSeq(d.deps, 1, i)
           t == SubSeq(d.deps, 1, j)
           f == d.deps[j]
           q == ReadSoFar(d, r, i)
<1>1. n \in Nat /\ n <= MaxDependencies /\ d.deps \in Seq(Nat) /\ MaxDependencies \in Nat
  BY DepsAre
<1>2. f \in Nat /\ f # 0
  <2>2. f \in Diffs
    BY DepsAre
  <2> HIDE DEF f
  <2> QED BY <2>2, DiffIs
<1>3. s \in Seq(Nat) /\ Len(s) = i
  <2>1. \A k \in 1 .. i : d.deps[k] \in Nat
    BY <1>1
  <2>2. 1 \in Int /\ i \in Int /\ (1 <= i => i - 1 + 1 = i) /\ (~ (1 <= i) => i = 0)
    OBVIOUS
  <2> QED BY <2>1, <2>2, SubSeqProperties
<1>4. Append(s, f) = t
  <2>1. t = s \o <<f>>
    <3>1. 1 \in 1 .. n /\ j \in 1 .. n /\ j - 1 = i
      BY <1>1
    <3> HIDE DEF n
    <3>2. SubSeq(d.deps, 1, j) = SubSeq(d.deps, 1, j - 1) \o <<d.deps[j]>>
      BY <1>1, <3>1, SubSeqRecursiveSecond DEF n
    <3> QED BY <3>1, <3>2
  <2>2. Append(s, f) = s \o <<f>>
    BY <1>2, <1>3, AppendIsConcat
  <2> QED BY <2>1, <2>2
<1>5. q.deps = s /\ \A u : [q EXCEPT !.deps = u] = [r EXCEPT !.deps = u]
  <2>1. q = [r EXCEPT !.deps = s]
    BY DEF ReadSoFar
  <2>2. IsDepsSet([r EXCEPT !.deps = s], r, s)
    <3> HIDE DEF s
    <3> QED BY DepsSet
  <2> HIDE DEF q, s
  <2>3. IsDepsSet(q, r, s)
    BY <2>1, <2>2
  <2> QED BY <2>3 DEF IsDepsSet
<1>6. ~ (Len(q.deps) = MaxDependencies \/ f = 0)
  BY <1>1, <1>2, <1>3, <1>5
<1>7. [q EXCEPT !.deps = Append(@, f)] = [q EXCEPT !.deps = t]
  <2> HIDE DEF q, t, f, s
  <2>1. [q EXCEPT !.deps = Append(@, f)] = [q EXCEPT !.deps = Append(q.deps, f)]
    OBVIOUS
  <2> QED BY <1>4, <1>5, <2>1
<1>8. [q EXCEPT !.deps = t] = ReadSoFar(d, r, j)
  BY <1>5 DEF ReadSoFar
<1> HIDE DEF q, t, f, s
<1>9. AddFrameDependencyDiff(q, f) = Success(ReadSoFar(d, r, j))
  BY <1>6, <1>7, <1>8 DEF AddFrameDependencyDiff, Success
<1> QED BY <1>9 DEF q, f

\* A round of the loop reads the next dependency.
LEMMA DependencyIsRead ==
  ASSUME NEW d, IsDescriptor(d), NEW g, IsLayout(g, d), NEW r, HasTheFields(r),
         NEW w, IsExtension(w, d), d.first, ~ HasResolution(d),
         NEW i \in 0 .. Len(d.deps), i < Len(d.deps), d.deps[i + 1] <= 16383
  PROVE  ReadDependency(w, ReadState(g, d, r, i)) = ReadState(g, d, r, i + 1)
<1> DEFINE n == Len(d.deps)
           j == i + 1
           f == d.deps[j]
           at == 4 + g[i]
           b == w[at + 1]
           m == IF j < n THEN 1 ELSE 0
           ds == DependenciesBytes(d)
           acc == ReadState(g, d, r, i)
<1>1. n \in Nat /\ j \in 1 .. n /\ j - 1 = i /\ i \in 0 .. n /\ j \in 0 .. n /\ d.deps \in Seq(Nat)
  BY DepsAre
<1>2. f \in Diffs /\ f <= 16383
  BY <1>1, DepsAre
<1>3. /\ g[i] \in Nat /\ g[j] \in Nat /\ g[j] <= Len(ds)
      /\ g[j] = g[i] + DependencySize(f) /\ StandsAt(ds, g[i], d, j)
  <2>1. Len(ds) = g[n]
    BY DEF IsLayout
  <2>2. g[i] \in Nat /\ g[j] \in Nat /\ g[j] <= g[n]
    BY <1>1 DEF IsLayout
  <2>3. g[j] = g[j - 1] + DependencySize(f) /\ StandsAt(ds, g[j - 1], d, j)
    BY <1>1 DEF IsLayout
  <2> QED BY <1>1, <2>1, <2>2, <2>3
<1>4. DependencySize(f) = IF f >= 64 THEN 2 ELSE 1
  BY DEF DependencySize, IsExtended
<1>5. Len(w) = 4 + Len(ds) /\ \A k \in 1 .. Len(ds) : w[4 + k] = ds[k]
  <2>1. HasFields(w, d)
    BY DEF IsExtension
  <2> QED BY <2>1, SMTT(30) DEF HasFields
<1>6. Len(ds) \in Nat
  BY DEF IsLayout
<1>7. b = ds[g[i] + 1] /\ (f >= 64 => w[at + 2] = ds[g[i] + 2])
  <2> HIDE DEF f, ds, n, j
  <2>1. g[i] + 1 \in 1 .. Len(ds) /\ (f >= 64 => g[i] + 2 \in 1 .. Len(ds))
    BY <1>3, <1>4, <1>6
  <2>2. at + 1 = 4 + (g[i] + 1) /\ at + 2 = 4 + (g[i] + 2)
    BY <1>3
  <2>3. \A k \in 1 .. Len(ds) : w[4 + k] = ds[k]
    BY <1>5
  <2> DEFINE x == g[i] + 1
             y == g[i] + 2
  <2> HIDE DEF x, y
  <2>4. w[4 + x] = ds[x]
    <3>1. x \in 1 .. Len(ds)
      BY <2>1 DEF x
    <3> QED BY ONLY <2>3, <3>1
  <2>5. f >= 64 => w[4 + y] = ds[y]
    <3>1. f >= 64 => y \in 1 .. Len(ds)
      BY <2>1 DEF y
    <3> QED BY ONLY <2>3, <3>1
  <2>6. w[at + 1] = w[4 + x] /\ w[at + 2] = w[4 + y]
    BY <2>2 DEF x, y
  <2> QED BY <2>4, <2>5, <2>6 DEF x, y
<1>8. /\ ds[g[i] + 1] = (f % 64) * 4 + (IF f >= 64 THEN 2 ELSE 0) + m
      /\ f >= 64 => ds[g[i] + 2] = (f \div 64) % 256
  <2>1. /\ ds[g[i] + 1] = DependencyBytes(d, j)[1]
        /\ IsExtended(f) => ds[g[i] + 2] = DependencyBytes(d, j)[2]
    BY <1>3 DEF StandsAt
  <2>2. /\ DependencyBytes(d, j)[1] = (f % 64) * 4 + Flag(IsExtended(f), 2) + Flag(j < n, 1)
        /\ IsExtended(f) => DependencyBytes(d, j)[2] = (f \div 64) % 256
    <3> HIDE DEF j
    <3> QED BY <1>1, DependencyBytesAre, SMTT(30)
  <2> HIDE DEF f, ds, j, n
  <2> QED BY <2>1, <2>2 DEF Flag, IsExtended
<1>9. m \in {0, 1} /\ (m = 1 <=> j < n)
  OBVIOUS
<1> HIDE DEF m
<1>10. b = (f % 64) * 4 + (IF f >= 64 THEN 2 ELSE 0) + m
  BY <1>7, <1>8
<1> HIDE DEF b, f, ds, n, j, at
<1>11. /\ b \div 4 = f % 64
       /\ (b \div 2) % 2 = 1 <=> f >= 64
       /\ (b \div 1) % 2 = 1 <=> m = 1
       /\ (b \div 4) + (IF f >= 64 THEN 64 * ((f \div 64) % 256) ELSE 0) = f
  BY <1>2, <1>9, <1>10, DiffIsRead
<1>12. (Bit(b, 2) <=> f >= 64) /\ Bit(b, 1) = (j < n)
  BY <1>9, <1>11 DEF Bit
<1> DEFINE e == Bit(b, 2)
<1> HIDE DEF e
<1>120. e <=> f >= 64
  BY <1>12 DEF e
<1>13. b \div 4 + (IF e THEN 64 * w[at + 2] ELSE 0) = f
  <2>1. CASE f >= 64
    <3>1. w[at + 2] = (f \div 64) % 256
      BY <1>7, <1>8, <2>1
    <3> QED BY <1>11, <1>120, <2>1, <3>1
  <2>2. CASE ~ (f >= 64)
    BY <1>11, <1>120, <2>2
  <2> QED BY <2>1, <2>2
<1>14. at \in Nat /\ at = 4 + g[i]
  BY <1>3 DEF at
<1>15. at + (IF e THEN 2 ELSE 1) = 4 + g[j] /\ Len(w) > at /\ (e => Len(w) > at + 1)
  <2>lens. /\ Len(w) = 4 + Len(ds) /\ Len(ds) \in Nat
           /\ g[i] \in Nat /\ g[j] \in Nat /\ g[j] <= Len(ds)
    BY <1>3, <1>5, <1>6
  <2>1. CASE f >= 64
    <3>1. g[j] = g[i] + 2
      BY <1>3, <1>4, <2>1
    <3>2. e
      BY <1>120, <2>1
    <3>3. at + 2 = 4 + g[j] /\ Len(w) > at /\ Len(w) > at + 1
      BY ONLY <2>lens, <1>14, <3>1
    <3> QED BY ONLY <3>2, <3>3
  <2>2. CASE ~ (f >= 64)
    <3>1. g[j] = g[i] + 1
      BY <1>3, <1>4, <2>2
    <3>2. ~ e
      BY <1>120, <2>2
    <3>3. at + 1 = 4 + g[j] /\ Len(w) > at
      BY ONLY <2>lens, <1>14, <3>1
    <3> QED BY ONLY <3>2, <3>3
  <2> QED BY <2>1, <2>2
<1>16. acc.at = at /\ acc.result.descriptor = ReadSoFar(d, r, i)
  BY DEF ReadState, Success, Result, at
<1>17. AddFrameDependencyDiff(ReadSoFar(d, r, i), f) = Success(ReadSoFar(d, r, j))
  <2>1. j = i + 1
    BY DEF j
  <2>2. j \in 1 .. Len(d.deps) /\ i \in Nat
    BY <1>1 DEF n
  <2>3. AddFrameDependencyDiff(ReadSoFar(d, r, i), d.deps[j]) = Success(ReadSoFar(d, r, j))
    BY <2>1, <2>2, DependencyAdded
  <2> QED BY <2>3 DEF f
<1> DEFINE new == Success(ReadSoFar(d, r, j))
           more == j < n
<1>18. new.ok = TRUE /\ more \in BOOLEAN
  BY DEF Success, Result
<1> HIDE DEF acc, new, more
<1>19. AddFrameDependencyDiff(acc.result.descriptor,
           w[acc.at + 1] \div 4 + (IF Bit(w[acc.at + 1], 2) THEN 64 * w[acc.at + 2] ELSE 0)) = new
  <2>1. w[acc.at + 1] \div 4 + (IF Bit(w[acc.at + 1], 2) THEN 64 * w[acc.at + 2] ELSE 0) = f
    BY <1>13, <1>16 DEF b, e
  <2> DEFINE x == w[acc.at + 1] \div 4 + (IF Bit(w[acc.at + 1], 2) THEN 64 * w[acc.at + 2] ELSE 0)
  <2>2. x = f
    BY <2>1
  <2> HIDE DEF x
  <2>3. AddFrameDependencyDiff(acc.result.descriptor, x) = new
    BY <1>16, <1>17, <2>2 DEF new
  <2> QED BY <2>3 DEF x
<1>20. /\ Len(w) > acc.at /\ (Bit(w[acc.at + 1], 2) => Len(w) > acc.at + 1)
       /\ acc.at + (IF Bit(w[acc.at + 1], 2) THEN 2 ELSE 1) = 4 + g[j]
  BY <1>15, <1>16 DEF b, e
<1>21. Bit(w[acc.at + 1], 1) = more
  BY <1>12, <1>16 DEF b, more
<1>22. ReadDependency(w, acc)
         = [at |-> 4 + g[j], more |-> more /\ new.ok, result |-> new]
  BY <1>19, <1>20, <1>21 DEF ReadDependency
<1>23. (more /\ new.ok) = more
  BY <1>18
<1>24. ReadDependency(w, acc) = [at |-> 4 + g[j], more |-> more, result |-> new]
  BY <1>22, <1>23
<1> QED BY <1>24 DEF ReadState, acc, n, j, more, new

\* A loop that has ended stays as it is.
LEMMA NothingIsRead ==
  ASSUME NEW data, NEW start, ~ start.more
  PROVE  ReadDependencies(data, start) = start
<1> DEFINE n == MaxDependencies + 1
<1>1. MaxDependencies \in Nat /\ n \in Nat
  BY DependenciesAssumption
<1>2. PICK h : IsReading(h, data, start) /\ ReadDependencies(data, start) = h[n]
  BY <1>1, ReadRuns
<1> HIDE DEF n
<1>3. \A k \in 0 .. n : h[k] = IF k = 0 THEN start ELSE ReadRound(data, h[k - 1])
  <2>1. h = [k \in 0 .. n |-> IF k = 0 THEN start ELSE ReadRound(data, h[k - 1])]
    BY <1>2 DEF IsReading, n
  <2> QED BY <2>1
<1> DEFINE Good == {k \in 0 .. n : h[k] = start}
<1>4. 0 \in Good
  BY <1>1, <1>3
<1>5. ASSUME NEW k \in 1 .. n, k - 1 \in Good PROVE k \in Good
  <2>1. h[k - 1] = start /\ k \in 0 .. n /\ k # 0
    BY <1>5
  <2>2. h[k] = ReadRound(data, start)
    BY <1>3, <2>1
  <2> QED BY <2>1, <2>2 DEF ReadRound
<1>6. Good = 0 .. n
  <2>1. Good \in SUBSET (0 .. n)
    OBVIOUS
  <2> HIDE DEF Good
  <2> QED BY <1>1, <1>4, <1>5, <2>1, AtTheEnd
<1>7. n \in Good
  <2> HIDE DEF Good
  <2> QED BY <1>1, <1>6
<1> QED BY <1>2, <1>7

\* The loop reads the dependencies that were written, and no more.
LEMMA DependenciesAreRead ==
  ASSUME NEW d, IsDescriptor(d), NEW g, IsLayout(g, d), NEW r, HasTheFields(r),
         NEW w, IsExtension(w, d), d.first, ~ HasResolution(d),
         \A i \in 1 .. Len(d.deps) : d.deps[i] <= 16383
  PROVE  ReadDependencies(w, ReadState(g, d, r, 0)).result = Success(ReadSoFar(d, r, Len(d.deps)))
<1> DEFINE z == 0
           start == ReadState(g, d, r, z)
           n == Len(d.deps)
           last == MaxDependencies + 1
<1>1. n \in Nat /\ n <= MaxDependencies /\ MaxDependencies \in Nat /\ last \in Nat
  BY DepsAre
<1>2. PICK h : IsReading(h, w, start) /\ ReadDependencies(w, start) = h[last]
  <2> HIDE DEF start
  <2> QED BY <1>1, ReadRuns
<1>z. z = 0
  OBVIOUS
<1> HIDE DEF start, z, last
<1>3. \A k \in 0 .. last : h[k] = IF k = 0 THEN start ELSE ReadRound(w, h[k - 1])
  <2>1. h = [k \in 0 .. last |-> IF k = 0 THEN start ELSE ReadRound(w, h[k - 1])]
    BY ONLY <1>2, Zenon DEF IsReading, last
  <2> QED BY ONLY <2>1
<1>4. ASSUME NEW k \in 0 .. n PROVE ReadState(g, d, r, k).more <=> k < n
  <2> DEFINE more == k < Len(d.deps)
  <2>1. ReadState(g, d, r, k).more = more
    BY DEF ReadState
  <2>2. more <=> k < n
    OBVIOUS
  <2> HIDE DEF more
  <2> QED BY <2>1, <2>2
<1>5. ASSUME NEW i \in 0 .. n, NEW j \in 1 .. n, j = i + 1
      PROVE  ReadDependency(w, ReadState(g, d, r, i)) = ReadState(g, d, r, j)
  <2>1. d.deps[i + 1] <= 16383 /\ i \in 0 .. Len(d.deps) /\ i < Len(d.deps)
    BY <1>1, <1>5
  <2>2. ReadDependency(w, ReadState(g, d, r, i)) = ReadState(g, d, r, i + 1)
    BY <2>1, DependencyIsRead
  <2> QED BY <1>5, <2>2
<1> HIDE DEF n
<1> DEFINE Good == {k \in 0 .. n : h[k] = ReadState(g, d, r, k)}
<1>6. 0 \in Good
  BY <1>1, <1>3, <1>z DEF start
<1>7. ASSUME NEW k \in 1 .. n, k - 1 \in Good PROVE k \in Good
  <2> DEFINE i == k - 1
  <2>1. /\ h[i] = ReadState(g, d, r, i) /\ k \in 0 .. last /\ k # 0 /\ k \in 0 .. n
        /\ i \in 0 .. n /\ k = i + 1 /\ i < n
    BY <1>1, <1>7 DEF last
  <2>2. h[k] = ReadRound(w, h[i])
    BY <1>3, <2>1
  <2> HIDE DEF i
  <2>3. ReadState(g, d, r, i).more
    BY <1>4, <2>1
  <2>4. h[k] = ReadDependency(w, ReadState(g, d, r, i))
    BY <2>1, <2>2, <2>3 DEF ReadRound
  <2>5. h[k] = ReadState(g, d, r, k)
    BY <1>5, <2>1, <2>4
  <2> QED BY <2>1, <2>5
<1>8. h[n] = ReadState(g, d, r, n)
  <2>1. Good \in SUBSET (0 .. n)
    OBVIOUS
  <2>2. Good = 0 .. n
    <3> HIDE DEF Good
    <3> QED BY <1>1, <1>6, <1>7, <2>1, AtTheEnd
  <2>3. n \in Good
    <3> HIDE DEF Good
    <3> QED BY <1>1, <2>2
  <2> QED BY <2>3
<1>9. ~ ReadState(g, d, r, n).more
  BY <1>1, <1>4
<1> DEFINE rest == last - n
           Same == {k \in 0 .. rest : h[n + k] = ReadState(g, d, r, n)}
<1>10. rest \in Nat /\ last = n + rest /\ n + 0 = n
  BY <1>1 DEF last
<1>11. 0 \in Same
  BY <1>8, <1>10
<1> HIDE DEF rest
<1>12. ASSUME NEW k \in 1 .. rest, k - 1 \in Same PROVE k \in Same
  <2> DEFINE p == n + k
             q == n + (k - 1)
  <2>1. h[q] = ReadState(g, d, r, n) /\ k \in 0 .. rest
    BY <1>12
  <2>2. p \in 0 .. last /\ p # 0 /\ p - 1 = q
    BY <1>1, <1>10
  <2> HIDE DEF p, q
  <2>3. h[p] = ReadRound(w, h[q])
    BY <1>3, <2>2
  <2>4. h[p] = ReadState(g, d, r, n)
    BY <1>9, <2>1, <2>3 DEF ReadRound
  <2> QED BY <2>1, <2>4 DEF p
<1>13. h[last] = ReadState(g, d, r, n)
  <2>1. Same \in SUBSET (0 .. rest)
    OBVIOUS
  <2>2. Same = 0 .. rest
    <3> HIDE DEF Same
    <3> QED BY <1>10, <1>11, <1>12, <2>1, AtTheEnd
  <2>3. rest \in Same
    <3> HIDE DEF Same
    <3> QED BY <1>10, <2>2
  <2> QED BY <1>10, <2>3
<1>14. ReadState(g, d, r, n).result = Success(ReadSoFar(d, r, n))
  BY DEF ReadState
<1>15. ReadDependencies(w, start).result = Success(ReadSoFar(d, r, n))
  BY <1>2, <1>13, <1>14
<1> QED BY <1>15, <1>z DEF start, n

\* The fields that read_from_buff reads before the loop over the dependencies.
FieldsRead(data) ==
  [[FreshDescriptor EXCEPT !.first = Bit(data[1], 128), !.last = Bit(data[1], 64)]
   EXCEPT !.temporal = data[1] % 8, !.spatial = data[2], !.id = data[3] + 256 * data[4],
          !.deps = <<>>,
          !.resolution = IF ~ Bit(data[1], 8) /\ Len(data) >= 8
                         THEN <<256 * data[5] + data[6], 256 * data[7] + data[8]>>
                         ELSE @]
AreFieldsRead(r, data) ==
  /\ HasTheFields(r)
  /\ r.first = Bit(data[1], 128) /\ r.last = Bit(data[1], 64)
  /\ r.temporal = data[1] % 8 /\ r.spatial = data[2]
  /\ r.id = data[3] + 256 * data[4] /\ r.deps = <<>>
  /\ r.resolution = IF ~ Bit(data[1], 8) /\ Len(data) >= 8
                    THEN <<256 * data[5] + data[6], 256 * data[7] + data[8]>> ELSE <<0, 0>>
\* What the reader takes from the fixed part of an extension, field by field.
LEMMA FieldsReadAre ==
  ASSUME NEW data
  PROVE  AreFieldsRead(FieldsRead(data), data)
<1> DEFINE flags == [FreshDescriptor EXCEPT !.first = Bit(data[1], 128), !.last = Bit(data[1], 64)]
           res == IF ~ Bit(data[1], 8) /\ Len(data) >= 8
                  THEN <<256 * data[5] + data[6], 256 * data[7] + data[8]>> ELSE flags.resolution
           r == [flags EXCEPT !.temporal = data[1] % 8, !.spatial = data[2],
                              !.id = data[3] + 256 * data[4], !.deps = <<>>, !.resolution = res]
<1>1. DOMAIN flags = Fields /\ flags = [x \in Fields |-> flags[x]]
  BY DEF FreshDescriptor, Fields
<1>2. flags.first = Bit(data[1], 128)
  BY DEF FreshDescriptor
<1>3. flags.last = Bit(data[1], 64)
  BY DEF FreshDescriptor
<1>4. flags.resolution = <<0, 0>>
  BY DEF FreshDescriptor
<1>5. FieldsRead(data) = r
  <2> HIDE DEF flags
  <2> QED BY DEF FieldsRead, flags
<1> HIDE DEF flags, res
<1>6. DOMAIN r = Fields
  BY <1>1
<1>7. HasTheFields(r)
  BY <1>6, ZenonT(60) DEF HasTheFields
<1>8. r.first = flags.first /\ r.last = flags.last
  BY <1>1 DEF Fields
<1>9. r.temporal = data[1] % 8 /\ r.spatial = data[2]
  BY <1>1 DEF Fields
<1>10. r.id = data[3] + 256 * data[4] /\ r.deps = <<>> /\ r.resolution = res
  BY <1>1 DEF Fields
<1> HIDE DEF r
<1>11. res = IF ~ Bit(data[1], 8) /\ Len(data) >= 8
             THEN <<256 * data[5] + data[6], 256 * data[7] + data[8]>> ELSE <<0, 0>>
  BY <1>4 DEF res
<1>12. AreFieldsRead(r, data)
  BY <1>2, <1>3, <1>7, <1>8, <1>9, <1>10, <1>11 DEF AreFieldsRead
<1> QED BY <1>5, <1>12

\* The flags, set in a fresh descriptor.
Flagged(f, l) == [FreshDescriptor EXCEPT !.first = f, !.last = l]
AreFlags(q, l) ==
  /\ HasTheFields(q) /\ q.last = l /\ q.id = 0 /\ q.spatial = 1 /\ q.temporal = 0
  /\ q.deps = <<>> /\ q.resolution = <<0, 0>>
\* A fresh descriptor with its flags set has the other fields fresh.
LEMMA FlagsSet ==
  ASSUME NEW f, NEW l
  PROVE  AreFlags(Flagged(f, l), l) /\ Flagged(f, l).first = f
<1> DEFINE q == [FreshDescriptor EXCEPT !.first = f, !.last = l]
<1>1. DOMAIN FreshDescriptor = Fields
  BY DEF FreshDescriptor, Fields
<1>2. HasTheFields(q)
  BY <1>1 DEF HasTheFields
<1>3. q.first = f /\ q.last = l
  BY <1>1 DEF Fields
<1>4. q.id = 0 /\ q.spatial = 1
  BY DEF FreshDescriptor
<1>5. q.temporal = 0 /\ q.deps = <<>>
  BY DEF FreshDescriptor
<1>6. q.resolution = <<0, 0>>
  BY DEF FreshDescriptor
<1> HIDE DEF q
<1>7. AreFlags(q, l)
  BY <1>2, <1>3, <1>4, <1>5, <1>6 DEF AreFlags
<1>8. q = Flagged(f, l)
  BY DEF q, Flagged
<1> QED BY <1>3, <1>7, <1>8

\* The second flag alone.
LastFlagged(l) == [FreshDescriptor EXCEPT !.last = l]
\* A fresh descriptor with the second flag set has the other fields fresh.
LEMMA LastSet ==
  ASSUME NEW l
  PROVE  AreFlags(LastFlagged(l), l) /\ ~ LastFlagged(l).first
<1> DEFINE q == [FreshDescriptor EXCEPT !.last = l]
<1>1. DOMAIN FreshDescriptor = Fields
  BY DEF FreshDescriptor, Fields
<1>2. HasTheFields(q)
  BY <1>1 DEF HasTheFields
<1>3. q.last = l
  BY <1>1 DEF Fields
<1>4. q.first = FALSE
  BY DEF FreshDescriptor
<1>5. q.id = 0 /\ q.spatial = 1
  BY DEF FreshDescriptor
<1>6. q.temporal = 0 /\ q.deps = <<>>
  BY DEF FreshDescriptor
<1>7. q.resolution = <<0, 0>>
  BY DEF FreshDescriptor
<1> HIDE DEF q
<1>8. AreFlags(q, l)
  BY <1>2, <1>3, <1>5, <1>6, <1>7 DEF AreFlags
<1>9. q = LastFlagged(l)
  BY DEF q, LastFlagged
<1> QED BY <1>4, <1>8, <1>9

\* read_from_buff gives back what write_to_buff wrote, as far as the layer and
\* the differences fit into their fields.
LEMMA ReadGivesBack ==
  ASSUME NEW d, IsDescriptor(d), d.temporal <= 7,
         \A i \in 1 .. Len(d.deps) : d.deps[i] <= 16383
  PROVE  ReadFromBuff(WriteToBuff(d), FreshDescriptor) = Success(Carried(d))
<1> DEFINE w == WriteToBuff(d)
           n == Len(d.deps)
           read == ReadFromBuff(w, FreshDescriptor)
<1>1. IsExtension(w, d)
  BY WriteToBuffIs
<1>2. d.first \in BOOLEAN /\ d.last \in BOOLEAN
  BY DEF IsDescriptor
<1> HIDE DEF w
<1>3. w \in Seq(Nat) /\ Len(w) \in Nat /\ Len(w) >= 1 /\ w # <<>>
  <2>1. w \in Seq(Nat) /\ Len(w) \in Nat /\ Len(w) >= 1
    BY <1>1 DEF IsExtension
  <2> QED BY <2>1
<1> DEFINE flags == Flagged(Bit(w[1], 128), Bit(w[1], 64))
<1>4. CASE ~ d.first
  <2>1. w = <<BaseHeader(d)>>
    BY <1>1, <1>4 DEF IsExtension
  <2>2. Len(w) = 1 /\ w[1] = BaseHeader(d)
    BY <2>1
  <2>3. Bit(w[1], 128) = d.first /\ Bit(w[1], 64) = d.last
    BY <1>2, <1>4, <2>2, FlagsAreRead
  <2> DEFINE no == FALSE
  <2>30. d.first = no
    BY <1>2, <1>4
  <2>31. LastFlagged(d.last).first = no
    BY DEF LastFlagged, FreshDescriptor
  <2> HIDE DEF no
  <2>4. AreFlags(flags, d.last) /\ flags.first = no
    BY <2>3, <2>30, FlagsSet
  <2> DEFINE ok == Len(w) = 1
  <2>5. read = Result(flags, ok)
    <3>1. ~ flags.first
      BY <1>4, <2>3, FlagsSet
    <3>2. flags = [FreshDescriptor EXCEPT !.first = Bit(w[1], 128), !.last = Bit(w[1], 64)]
      BY DEF Flagged
    <3> HIDE DEF flags
    <3> QED BY <1>3, <3>1, <3>2 DEF ReadFromBuff
  <2>6. ok = TRUE
    BY <2>2
  <2> DEFINE c == LastFlagged(d.last)
  <2>7. Carried(d) = c
    BY <1>4 DEF Carried, LastFlagged
  <2>8. AreFlags(c, d.last) /\ c.first = no
    BY <2>31, LastSet
  <2> HIDE DEF flags, read, ok, c
  <2>9. flags = c
    <3>1. flags.first = c.first
      BY <2>4, <2>8
    <3> QED BY <2>4, <2>8, <3>1, SameFields DEF AreFlags
  <2>10. read = Result(Carried(d), TRUE)
    BY <2>5, <2>6, <2>7, <2>9
  <2> QED BY <2>10 DEF read, w, Success
<1>5. CASE d.first
  <2> DEFINE r == FieldsRead(w)
             D == Bit(w[1], 8)
             start == [at |-> 4, more |-> D, result |-> Success(r)]
  <2>1. HasFields(w, d)
    BY <1>1, <1>5 DEF IsExtension
  <2>2. Bit(w[1], 128) = d.first /\ Bit(w[1], 64) = d.last /\ w[1] % 8 = d.temporal
    <3>1. w[1] = FirstByte(d)
      BY <2>1 DEF HasFields
    <3> QED BY <3>1, FlagsAreRead
  <2>3. D <=> d.deps # <<>>
    <3>1. w[1] = FirstByte(d)
      BY <2>1 DEF HasFields
    <3> QED BY <3>1, FlagsAreRead
  <2>4. Len(w) >= 4
    <3>1. HasResolution(d) => Len(w) = 8
      BY <2>1 DEF HasFields
    <3>2. ~ HasResolution(d) => Len(w) = 4 + Len(DependenciesBytes(d))
      BY <2>1 DEF HasFields
    <3>3. Len(DependenciesBytes(d)) \in Nat
      <4>1. PICK g : IsLayout(g, d)
        BY DepsAre, LayoutExists
      <4>2. DependenciesBytes(d) \in Seq(Nat)
        BY <4>1 DEF IsLayout
      <4> QED BY <4>2, LenProperties
    <3>4. CASE HasResolution(d)
      BY <3>1, <3>4, SMTT(30)
    <3>5. CASE ~ HasResolution(d)
      BY <3>2, <3>3, <3>5
    <3> QED BY <3>4, <3>5
  <2>5. flags.first
    <3>1. flags.first = Bit(w[1], 128)
      BY FlagsSet
    <3>2. Bit(w[1], 128)
      <4>1. w[1] = FirstByte(d)
        BY <2>1 DEF HasFields
      <4> QED BY <1>5, <4>1, FlagsAreRead
    <3> HIDE DEF flags
    <3> QED BY <3>1, <3>2
  <2>6. read = ReadDependencies(w, start).result
    <3>1. ~ (Len(w) < 4)
      BY <1>3, <2>4
    <3>2. r = [flags EXCEPT !.temporal = w[1] % 8, !.spatial = w[2], !.id = w[3] + 256 * w[4],
                    !.deps = <<>>,
                    !.resolution = IF ~ Bit(w[1], 8) /\ Len(w) >= 8
                                   THEN <<256 * w[5] + w[6], 256 * w[7] + w[8]>> ELSE @]
      BY DEF FieldsRead, Flagged
    <3>3. flags = [FreshDescriptor EXCEPT !.first = Bit(w[1], 128), !.last = Bit(w[1], 64)]
      BY DEF Flagged
    <3> HIDE DEF flags, r
    <3> QED BY <1>3, <2>5, <3>1, <3>2, <3>3 DEF ReadFromBuff, Success
  <2>7. /\ HasTheFields(r) /\ r.first = d.first /\ r.last = d.last
        /\ r.temporal = d.temporal /\ r.deps = <<>>
    <3>1. AreFieldsRead(r, w)
      BY FieldsReadAre
    <3> HIDE DEF r
    <3>2. HasTheFields(r) /\ r.deps = <<>> /\ r.first = Bit(w[1], 128) /\ r.last = Bit(w[1], 64)
      BY <3>1 DEF AreFieldsRead
    <3>3. r.temporal = w[1] % 8
      BY <3>1 DEF AreFieldsRead
    <3> QED BY <2>2, <3>2, <3>3
  <2>8. r.spatial = d.spatial /\ r.id = d.id
    <3>1. w[2] = d.spatial /\ w[3] = d.id % 256 /\ w[4] = d.id \div 256
      BY <2>1 DEF HasFields
    <3>2. d.id \in Nat /\ d.id <= 65535
      BY DEF IsDescriptor
    <3>3. (d.id % 256) + 256 * (d.id \div 256) = d.id
      BY <3>2, TwoBytes
    <3>30. AreFieldsRead(r, w)
      BY FieldsReadAre
    <3> HIDE DEF r
    <3>4. r.spatial = w[2] /\ r.id = w[3] + 256 * w[4]
      BY <3>30 DEF AreFieldsRead
    <3> QED BY <3>1, <3>3, <3>4
  <2>9. r.resolution = IF HasResolution(d) THEN d.resolution ELSE <<0, 0>>
    <3>0. AreFieldsRead(r, w)
      BY FieldsReadAre
    <3> HIDE DEF r
    <3>1. r.resolution = IF ~ D /\ Len(w) >= 8
                         THEN <<256 * w[5] + w[6], 256 * w[7] + w[8]>> ELSE <<0, 0>>
      BY <3>0 DEF AreFieldsRead
    <3>2. CASE HasResolution(d)
      <4>1. ~ D
        <5>1. d.deps = <<>>
          BY <3>2 DEF HasResolution
        <5> HIDE DEF D
        <5> QED BY <2>3, <5>1
      <4>2. /\ Len(w) = 8
            /\ w[5] = d.resolution[1] \div 256 /\ w[6] = d.resolution[1] % 256
            /\ w[7] = d.resolution[2] \div 256 /\ w[8] = d.resolution[2] % 256
        BY <2>1, <3>2 DEF HasFields
      <4>3. /\ d.resolution[1] \in Nat /\ d.resolution[1] <= 65535
            /\ d.resolution[2] \in Nat /\ d.resolution[2] <= 65535
        BY DEF IsDescriptor
      <4>4. 256 * w[5] + w[6] = d.resolution[1] /\ 256 * w[7] + w[8] = d.resolution[2]
        BY <4>2, <4>3, TwoBytes, SMTT(30)
      <4>5. d.resolution = <<d.resolution[1], d.resolution[2]>>
        BY DEF IsDescriptor, IsRecord
      <4> HIDE DEF D
      <4>6. r.resolution = <<d.resolution[1], d.resolution[2]>>
        BY <3>1, <4>1, <4>2, <4>4
      <4> QED BY <3>2, <4>5, <4>6
    <3>3. CASE ~ HasResolution(d)
      <4>1. D \/ ~ (Len(w) >= 8)
        <5>1. CASE d.deps # <<>>
          <6> HIDE DEF D
          <6> QED BY <2>3, <5>1
        <5>2. CASE d.deps = <<>>
          <6>1. PICK g : IsLayout(g, d)
            BY DepsAre, LayoutExists
          <6>2. Len(d.deps) = 0
            BY <5>2
          <6>3. Len(DependenciesBytes(d)) = g[Len(d.deps)] /\ g[0] = 0
            BY <6>1 DEF IsLayout
          <6>4. Len(w) = 4 + Len(DependenciesBytes(d))
            BY <2>1, <3>3 DEF HasFields
          <6> QED BY <6>2, <6>3, <6>4
        <5> QED BY <5>1, <5>2
      <4> HIDE DEF D
      <4> QED BY <3>1, <3>3, <4>1
    <3> QED BY <3>2, <3>3
  <2> HIDE DEF r, D
  <2>10. ReadDependencies(w, start).result = Success(ReadSoFar(d, r, n))
    <3>1. CASE d.deps = <<>>
      <4>1. ~ start.more
        <5>1. start.more = D
          OBVIOUS
        <5> QED BY <2>3, <3>1, <5>1
      <4>2. start.result = Success(r)
        OBVIOUS
      <4> HIDE DEF start
      <4>3. ReadDependencies(w, start).result = Success(r)
        BY <4>1, <4>2, NothingIsRead
      <4>4. ReadSoFar(d, r, n) = r
        <5> DEFINE s == SubSeq(d.deps, 1, n)
        <5>1. s = <<>>
          BY <3>1, DepsAre, SubSeqFull
        <5> HIDE DEF s
        <5>2. IsDepsSet([r EXCEPT !.deps = s], r, s)
          BY <2>7, DepsSet
        <5> DEFINE q == [r EXCEPT !.deps = s]
        <5> HIDE DEF q
        <5>3. IsDepsSet(q, r, s)
          BY <5>2 DEF q
        <5>4. q = r
          BY <2>7, <5>1, <5>3, SameFields DEF IsDepsSet
        <5> QED BY <5>4 DEF q, s, ReadSoFar
      <4> QED BY <4>3, <4>4
    <3>2. CASE d.deps # <<>>
      <4>1. PICK g : IsLayout(g, d)
        BY DepsAre, LayoutExists
      <4>2. n > 0
        BY <3>2, DepsAre, EmptySeq
      <4>3. ~ HasResolution(d)
        BY <3>2 DEF HasResolution
      <4>4. ReadSoFar(d, r, 0) = r
        <5> DEFINE s == SubSeq(d.deps, 1, 0)
        <5>1. s = <<>>
          BY SubSeqEmpty
        <5> HIDE DEF s
        <5>2. IsDepsSet([r EXCEPT !.deps = s], r, s)
          BY <2>7, DepsSet
        <5> DEFINE q == [r EXCEPT !.deps = s]
        <5> HIDE DEF q
        <5>3. IsDepsSet(q, r, s)
          BY <5>2 DEF q
        <5>4. q = r
          BY <2>7, <5>1, <5>3, SameFields DEF IsDepsSet
        <5> QED BY <5>4 DEF q, s, ReadSoFar
      <4>5. start = ReadState(g, d, r, 0)
        <5> DEFINE more == 0 < Len(d.deps)
        <5>1. D = more
          <6>1. D \in BOOLEAN
            BY DEF D, Bit
          <6> QED BY <2>3, <3>2, <4>2, <6>1
        <5>2. 4 + g[0] = 4
          BY <4>1 DEF IsLayout
        <5>3. ReadState(g, d, r, 0) = [at |-> 4, more |-> more, result |-> Success(r)]
          BY <4>4, <5>2 DEF ReadState
        <5> HIDE DEF more
        <5> QED BY <5>1, <5>3
      <4> HIDE DEF start
      <4>6. ReadDependencies(w, ReadState(g, d, r, 0)).result = Success(ReadSoFar(d, r, n))
        BY <1>1, <1>5, <2>7, <4>1, <4>3, DependenciesAreRead
      <4> QED BY <4>5, <4>6
    <3> QED BY <3>1, <3>2
  <2>11. ReadSoFar(d, r, n) = Carried(d)
    <3> DEFINE s == SubSeq(d.deps, 1, n)
               q == [r EXCEPT !.deps = s]
               res == IF HasResolution(d) THEN d.resolution ELSE <<0, 0>>
               c == [d EXCEPT !.resolution = res]
    <3>1. s = d.deps
      BY DepsAre, SubSeqFull
    <3> HIDE DEF s, res
    <3>2. IsDepsSet([r EXCEPT !.deps = s], r, s)
      BY <2>7, DepsSet
    <3>3. DOMAIN d = Fields
      BY DEF IsDescriptor, IsRecord, Fields
    <3>4. DOMAIN c = Fields
      BY <3>3
    <3>5. HasTheFields(c)
      BY <3>4 DEF HasTheFields
    <3>6. c.first = d.first /\ c.last = d.last /\ c.id = d.id /\ c.spatial = d.spatial
      BY <3>3 DEF Fields
    <3>7. c.temporal = d.temporal /\ c.deps = d.deps /\ c.resolution = res
      BY <3>3 DEF Fields
    <3>8. Carried(d) = c
      <4>1. Carried(d) = [d EXCEPT !.resolution = IF HasResolution(d) THEN @ ELSE <<0, 0>>]
        BY <1>5 DEF Carried
      <4> QED BY <4>1 DEF res
    <3> HIDE DEF q, c
    <3>9. IsDepsSet(q, r, s)
      BY <3>2 DEF q
    <3>10. /\ HasTheFields(q) /\ q.deps = d.deps /\ q.first = d.first /\ q.last = d.last
           /\ q.id = d.id /\ q.spatial = d.spatial /\ q.temporal = d.temporal
           /\ q.resolution = res
      BY <2>7, <2>8, <2>9, <3>1, <3>9 DEF IsDepsSet, res
    <3>11. HasTheFields(q) /\ HasTheFields(c) /\ q.first = c.first /\ q.last = c.last
      BY <3>5, <3>6, <3>10
    <3>12. q.id = c.id /\ q.spatial = c.spatial /\ q.temporal = c.temporal
      BY <3>6, <3>7, <3>10
    <3>13. q.deps = c.deps /\ q.resolution = c.resolution
      BY <3>7, <3>10
    <3>14. q = c
      BY <3>11, <3>12, <3>13, SameFields
    <3> QED BY <3>8, <3>14 DEF q, s, ReadSoFar
  <2> HIDE DEF start, read
  <2>12. read = Success(Carried(d))
    BY <2>6, <2>10, <2>11
  <2> QED BY <2>12 DEF read, w
<1> QED BY <1>2, <1>4, <1>5
-----------------------------------------------------------------------------
\* The buffer of a packet that is built.

PacketFields == {"bytes", "blocks", "mode", "entries"}
IsPacket(p) == p = [x \in PacketFields |-> p[x]] /\ p.bytes \in Seq(Nat)

\* Bytes written over others leave the bytes around them.
IsPut(q, p, at, bs) ==
  /\ IsPacket(q) /\ Len(q.bytes) = Len(p.bytes)
  /\ q.blocks = p.blocks /\ q.mode = p.mode /\ q.entries = p.entries
  /\ \A i \in 1 .. Len(bs) : at + i <= Len(p.bytes) => q.bytes[at + i] = bs[i]
  /\ \A i \in 1 .. Len(p.bytes) : i <= at \/ i > at + Len(bs) => q.bytes[i] = p.bytes[i]
\* Writing at a position changes the bytes there and no other.
LEMMA PutAtIs ==
  ASSUME NEW p, IsPacket(p), NEW at \in Nat, NEW bs \in Seq(Nat)
  PROVE  IsPut(PutAt(p, at, bs), p, at, bs)
<1> DEFINE n == Len(p.bytes)
           m == Len(bs)
           new == [i \in DOMAIN p.bytes |-> IF i - 1 \in at .. at + m - 1 THEN bs[i - at]
                                            ELSE p.bytes[i]]
           q == [p EXCEPT !.bytes = new]
<1>1. p.bytes \in Seq(Nat) /\ DOMAIN p = PacketFields
  BY DEF IsPacket
<1>2. DOMAIN p.bytes = 1 .. n /\ n \in Nat /\ m \in Nat
  BY <1>1, LenProperties
<1>3. \A i \in 1 .. n : p.bytes[i] \in Nat
  BY <1>1, ElementOfSeq
<1>4. \A i \in 1 .. m : bs[i] \in Nat
  BY ElementOfSeq
<1>5. PutAt(p, at, bs) = q
  BY DEF PutAt
<1> HIDE DEF n, m
<1>6. new = [i \in 1 .. n |-> IF i - 1 \in at .. at + m - 1 THEN bs[i - at] ELSE p.bytes[i]]
  BY <1>2
<1>7. ASSUME NEW i \in 1 .. n
      PROVE  new[i] = IF i > at /\ i <= at + m THEN bs[i - at] ELSE p.bytes[i]
  <2>1. i - 1 \in at .. at + m - 1 <=> i > at /\ i <= at + m
    BY <1>2
  <2>2. new[i] = IF i - 1 \in at .. at + m - 1 THEN bs[i - at] ELSE p.bytes[i]
    BY <1>6
  <2> QED BY <2>1, <2>2
<1>8. new = [i \in 1 .. n |-> new[i]]
  BY <1>6
<1> HIDE DEF new
<1>9. \A i \in 1 .. n : new[i] \in Nat
  <2> TAKE i \in 1 .. n
  <2>1. CASE i > at /\ i <= at + m
    <3> DEFINE k == i - at
    <3>1. k \in 1 .. m
      BY <1>2, <2>1
    <3>2. new[i] = bs[k]
      BY <1>7, <2>1
    <3> HIDE DEF k
    <3> QED BY <1>4, <3>1, <3>2
  <2>2. CASE ~ (i > at /\ i <= at + m)
    BY <1>3, <1>7, <2>2
  <2> QED BY <2>1, <2>2
<1>10. new \in Seq(Nat) /\ Len(new) = n
  BY <1>2, <1>8, <1>9, SequenceOf
<1>11. q.bytes = new
  BY <1>1 DEF PacketFields
<1>12. q.blocks = p.blocks /\ q.mode = p.mode /\ q.entries = p.entries
  BY <1>1 DEF PacketFields
<1>13. IsPacket(q)
  <2>1. q = [x \in PacketFields |-> q[x]]
    BY <1>1
  <2> HIDE DEF q
  <2> QED BY <1>10, <1>11, <2>1 DEF IsPacket
<1> HIDE DEF q
<1>14. ASSUME NEW i \in 1 .. m, at + i <= n PROVE q.bytes[at + i] = bs[i]
  <2> DEFINE k == at + i
  <2>1. k \in 1 .. n /\ k > at /\ k <= at + m /\ k - at = i
    BY <1>2, <1>14
  <2> HIDE DEF k
  <2>2. new[k] = bs[i]
    BY <1>7, <2>1
  <2> QED BY <1>11, <2>2 DEF k
<1>15. ASSUME NEW i \in 1 .. n, i <= at \/ i > at + m PROVE q.bytes[i] = p.bytes[i]
  <2>1. ~ (i > at /\ i <= at + m)
    BY <1>2, <1>15
  <2> QED BY <1>7, <1>11, <2>1
<1>16. IsPut(q, p, at, bs)
  BY <1>10, <1>11, <1>12, <1>13, <1>14, <1>15 DEF IsPut, n, m
<1> QED BY <1>5, <1>16

\* A block behind the others.
IsPushed(q, p, bs) ==
  /\ IsPacket(q) /\ IsJoined(q.bytes, p.bytes, bs)
  /\ q.blocks = Append(p.blocks, Len(bs)) /\ q.mode = p.mode /\ q.entries = p.entries
\* A new block follows the bytes there are.
LEMMA PushBlockIs ==
  ASSUME NEW p, IsPacket(p), NEW bs \in Seq(Nat)
  PROVE  IsPushed(PushBlock(p, bs), p, bs)
<1> DEFINE u == p.bytes \o bs
           v == Append(p.blocks, Len(bs))
           q == [p EXCEPT !.bytes = u, !.blocks = v]
<1>1. p.bytes \in Seq(Nat) /\ DOMAIN p = PacketFields
  BY DEF IsPacket
<1>2. IsJoined(u, p.bytes, bs)
  BY <1>1, Joined
<1>3. PushBlock(p, bs) = q
  BY DEF PushBlock
<1> HIDE DEF u, v
<1>4. q.bytes = u /\ q.blocks = v
  BY <1>1 DEF PacketFields
<1>5. q.mode = p.mode /\ q.entries = p.entries
  BY <1>1 DEF PacketFields
<1>6. q = [x \in PacketFields |-> q[x]]
  BY <1>1
<1> HIDE DEF q
<1>7. u \in Seq(Nat)
  BY <1>2 DEF IsJoined
<1>8. IsPushed(q, p, bs)
  BY <1>2, <1>4, <1>5, <1>6, <1>7 DEF IsPushed, IsPacket, v
<1> QED BY <1>3, <1>8

\* Bytes at the end of the last block.
IsPushedBack(q, p, bs) ==
  /\ IsPacket(q) /\ IsJoined(q.bytes, p.bytes, bs)
  /\ q.mode = p.mode /\ q.entries = p.entries
\* Bytes appended to the last block follow the bytes there are.
LEMMA PushBackIs ==
  ASSUME NEW p, IsPacket(p), NEW bs \in Seq(Nat)
  PROVE  IsPushedBack(PushBack(p, bs), p, bs)
<1> DEFINE u == p.bytes \o bs
           v == Append(Front(p.blocks), Last(p.blocks) + Len(bs))
           q == [p EXCEPT !.bytes = u, !.blocks = v]
<1>1. p.bytes \in Seq(Nat) /\ DOMAIN p = PacketFields
  BY DEF IsPacket
<1>2. IsJoined(u, p.bytes, bs)
  BY <1>1, Joined
<1>3. PushBack(p, bs) = q
  BY DEF PushBack
<1> HIDE DEF u, v
<1>4. q.bytes = u
  BY <1>1 DEF PacketFields
<1>5. q.mode = p.mode /\ q.entries = p.entries
  BY <1>1 DEF PacketFields
<1>6. q = [x \in PacketFields |-> q[x]]
  BY <1>1
<1> HIDE DEF q
<1>7. u \in Seq(Nat)
  BY <1>2 DEF IsJoined
<1>8. IsPushedBack(q, p, bs)
  BY <1>2, <1>4, <1>5, <1>6, <1>7 DEF IsPushedBack, IsPacket
<1> QED BY <1>3, <1>8

\* Zero bytes.
LEMMA ZerosAre ==
  ASSUME NEW n \in Nat
  PROVE  Zeros(n) \in Seq(Nat) /\ Len(Zeros(n)) = n /\ \A i \in 1 .. n : Zeros(n)[i] = 0
<1> DEFINE z == Zeros(n)
<1>1. z = [i \in 1 .. n |-> 0]
  BY DEF Zeros
<1> HIDE DEF z
<1>2. \A i \in 1 .. n : z[i] = 0
  BY <1>1
<1>3. z = [i \in 1 .. n |-> z[i]] /\ \A i \in 1 .. n : z[i] \in Nat
  BY <1>1, <1>2
<1>4. z \in Seq(Nat) /\ Len(z) = n
  BY <1>3, SequenceOf
<1> QED BY <1>2, <1>4 DEF z
-----------------------------------------------------------------------------
\* The packet, one setter after the other.

\* What the setters of the fixed header make of a fresh packet.
HasNumbers(b, n) ==
  /\ b[3] = n \div 256 /\ b[4] = n % 256
  /\ \A i \in 1 .. 4 : b[4 + i] = Timestamp[i] /\ b[8 + i] = DefaultSsrc[i]
IsHeader(h, n) ==
  /\ IsPacket(h) /\ Len(h.bytes) = 12 /\ h.blocks = <<12>> /\ h.mode = "OneByte" /\ h.entries = <<>>
  /\ h.bytes[1] = 128 /\ h.bytes[2] = 127 /\ HasNumbers(h.bytes, n)
HeaderOf(n) ==
  SetSequenceNumber(
    SetTimestamp(SetPayloadType(SetSsrc(FreshPacket, DefaultSsrc), DefaultPayloadType), Timestamp),
    n)

\* A fresh packet.
LEMMA FreshIs ==
  /\ IsPacket(FreshPacket) /\ Len(FreshPacket.bytes) = 12 /\ FreshPacket.blocks = <<12>>
  /\ FreshPacket.mode = "OneByte" /\ FreshPacket.entries = <<>>
  /\ FreshPacket.bytes[1] = 128 /\ FreshPacket.bytes[2] = 0
<1> DEFINE f == FreshPacket
           z == Zeros(11)
           e == <<128>>
           b == e \o z
<1>1. z \in Seq(Nat) /\ Len(z) = 11 /\ z[1] = 0
  <2> DEFINE k == 11
  <2>1. k \in Nat /\ 1 \in 1 .. k /\ k = 11
    OBVIOUS
  <2> HIDE DEF k
  <2>2. Zeros(k) \in Seq(Nat) /\ Len(Zeros(k)) = k /\ Zeros(k)[1] = 0
    BY <2>1, ZerosAre
  <2> QED BY <2>1, <2>2
<1>2. e \in Seq(Nat) /\ Len(e) = 1 /\ e[1] = 128
  OBVIOUS
<1> HIDE DEF z, e
<1>3. IsJoined(b, e, z)
  BY <1>1, <1>2, Joined
<1>4. FixedHeaderSize = 12 /\ FixedHeaderSize - 1 = 11
  BY DEF FixedHeaderSize
<1>5. f = [bytes |-> b, blocks |-> <<12>>, mode |-> "OneByte", entries |-> <<>>]
  BY <1>4 DEF FreshPacket, z, e
<1> HIDE DEF b, f
<1>6. f.bytes = b /\ f.blocks = <<12>> /\ f.mode = "OneByte" /\ f.entries = <<>>
  BY <1>5
<1>7. f = [x \in PacketFields |-> f[x]]
  BY <1>5 DEF PacketFields
<1>8. b \in Seq(Nat) /\ Len(b) = 12 /\ b[1] = 128 /\ b[1 + 1] = 0
  BY <1>1, <1>2, <1>3 DEF IsJoined
<1> QED BY <1>6, <1>7, <1>8 DEF IsPacket, f

\* The setters of the fixed header write each its own bytes.
LEMMA HeaderIs ==
  ASSUME NEW n \in Nat, n <= 65535
  PROVE  IsHeader(HeaderOf(n), n)
<1> DEFINE p0 == FreshPacket
           p1 == SetSsrc(p0, DefaultSsrc)
           p2 == SetPayloadType(p1, DefaultPayloadType)
           p3 == SetTimestamp(p2, Timestamp)
           p4 == SetSequenceNumber(p3, n)
           pt == <<128 * (p1.bytes[2] \div 128) + DefaultPayloadType>>
           s == DefaultSsrc
           t == Timestamp
           hl == HighLow(n)
<1>1. s \in Seq(Nat) /\ Len(s) = 4 /\ t \in Seq(Nat) /\ Len(t) = 4
  BY DEF DefaultSsrc, Timestamp
<1>2. hl \in Seq(Nat) /\ Len(hl) = 2 /\ hl[1] = n \div 256 /\ hl[2] = n % 256
  <2> DEFINE x == n \div 256
             y == n % 256
  <2>1. x \in Nat /\ y \in Nat
    BY TwoBytes
  <2>2. hl = <<x, y>>
    BY DEF HighLow
  <2> HIDE DEF x, y, hl
  <2>3. hl \in Seq(Nat) /\ Len(hl) = 2 /\ hl[1] = x /\ hl[2] = y
    BY <2>1, <2>2
  <2> QED BY <2>3 DEF x, y
<1>3. /\ IsPacket(p0) /\ Len(p0.bytes) = 12 /\ p0.blocks = <<12>>
      /\ p0.mode = "OneByte" /\ p0.entries = <<>> /\ p0.bytes[1] = 128 /\ p0.bytes[2] = 0
  BY FreshIs
<1>p1. p1 = PutAt(p0, 8, s)
  BY DEF SetSsrc
<1>p2. p2 = PutAt(p1, 1, pt)
  BY DEF SetPayloadType
<1>p3. p3 = PutAt(p2, 4, t)
  BY DEF SetTimestamp
<1>p4. p4 = PutAt(p3, 2, hl)
  BY DEF SetSequenceNumber
<1> HIDE DEF p0, p1, p2, p3, p4, s, t, hl, pt
<1>4. IsPut(p1, p0, 8, s)
  BY <1>1, <1>3, <1>p1, PutAtIs
<1>5. /\ IsPacket(p1) /\ Len(p1.bytes) = 12 /\ p1.blocks = <<12>>
      /\ p1.mode = "OneByte" /\ p1.entries = <<>>
      /\ p1.bytes[1] = 128 /\ p1.bytes[2] = 0 /\ \A i \in 1 .. 4 : p1.bytes[8 + i] = s[i]
  BY <1>1, <1>3, <1>4 DEF IsPut
<1>6. pt \in Seq(Nat) /\ Len(pt) = 1 /\ pt[1] = 127
  <2> DEFINE x == 128 * (p1.bytes[2] \div 128) + DefaultPayloadType
  <2>1. x = 127
    BY <1>5 DEF DefaultPayloadType
  <2>2. pt = <<x>>
    BY DEF pt
  <2> HIDE DEF x
  <2> QED BY <2>1, <2>2
<1>7. IsPut(p2, p1, 1, pt)
  BY <1>5, <1>6, <1>p2, PutAtIs
<1>8. /\ IsPacket(p2) /\ Len(p2.bytes) = 12 /\ p2.blocks = <<12>>
      /\ p2.mode = "OneByte" /\ p2.entries = <<>>
      /\ p2.bytes[1] = 128 /\ p2.bytes[2] = 127 /\ \A i \in 1 .. 4 : p2.bytes[8 + i] = s[i]
  <2>1. p2.bytes[1] = 128 /\ \A i \in 1 .. 4 : p2.bytes[8 + i] = s[i]
    BY <1>5, <1>6, <1>7 DEF IsPut
  <2>2. p2.bytes[1 + 1] = 127
    BY <1>5, <1>6, <1>7 DEF IsPut
  <2> QED BY <1>5, <1>7, <2>1, <2>2 DEF IsPut
<1>9. IsPut(p3, p2, 4, t)
  BY <1>1, <1>8, <1>p3, PutAtIs
<1>10. /\ IsPacket(p3) /\ Len(p3.bytes) = 12 /\ p3.blocks = <<12>>
       /\ p3.mode = "OneByte" /\ p3.entries = <<>>
       /\ p3.bytes[1] = 128 /\ p3.bytes[2] = 127 /\ \A i \in 1 .. 4 : p3.bytes[8 + i] = s[i]
       /\ \A i \in 1 .. 4 : p3.bytes[4 + i] = t[i]
  <2>1. p3.bytes[1] = 128 /\ p3.bytes[2] = 127 /\ \A i \in 1 .. 4 : p3.bytes[8 + i] = s[i]
    BY <1>1, <1>8, <1>9 DEF IsPut
  <2>2. \A i \in 1 .. 4 : p3.bytes[4 + i] = t[i]
    BY <1>1, <1>8, <1>9 DEF IsPut
  <2> QED BY <1>8, <1>9, <2>1, <2>2 DEF IsPut
<1>11. IsPut(p4, p3, 2, hl)
  BY <1>2, <1>10, <1>p4, PutAtIs
<1>12. /\ IsPacket(p4) /\ Len(p4.bytes) = 12 /\ p4.blocks = <<12>>
       /\ p4.mode = "OneByte" /\ p4.entries = <<>>
  BY <1>10, <1>11 DEF IsPut
<1>13. p4.bytes[1] = 128 /\ p4.bytes[2] = 127
  BY <1>2, <1>10, <1>11 DEF IsPut
<1>14. p4.bytes[2 + 1] = hl[1] /\ p4.bytes[2 + 2] = hl[2]
  BY <1>2, <1>10, <1>11 DEF IsPut
<1>15. \A i \in 1 .. 4 : p4.bytes[4 + i] = t[i] /\ p4.bytes[8 + i] = s[i]
  <2> TAKE i \in 1 .. 4
  <2> DEFINE j == 4 + i
             k == 8 + i
  <2>1. j \in 1 .. 12 /\ k \in 1 .. 12 /\ j > 4 /\ k > 4
    OBVIOUS
  <2> HIDE DEF j, k
  <2>a. \A x \in 1 .. 12 : x > 4 => p4.bytes[x] = p3.bytes[x]
    <3>1. \A x \in 1 .. Len(p3.bytes) :
            x <= 2 \/ x > 2 + Len(hl) => p4.bytes[x] = p3.bytes[x]
      BY <1>11 DEF IsPut
    <3>2. Len(p3.bytes) = 12 /\ Len(hl) = 2
      BY <1>2, <1>10
    <3> QED BY ONLY <3>1, <3>2
  <2>b. p4.bytes[j] = p3.bytes[j] /\ p4.bytes[k] = p3.bytes[k]
    BY <2>1, <2>a
  <2>2. p4.bytes[4 + i] = p3.bytes[4 + i] /\ p4.bytes[8 + i] = p3.bytes[8 + i]
    BY <2>b DEF j, k
  <2>3. p3.bytes[4 + i] = t[i] /\ p3.bytes[8 + i] = s[i]
    BY <1>10
  <2> QED BY ONLY <2>2, <2>3
<1>16. HasNumbers(p4.bytes, n)
  BY <1>2, <1>14, <1>15 DEF HasNumbers, s, t
<1>17. IsHeader(p4, n)
  BY <1>12, <1>13, <1>16 DEF IsHeader
<1> QED BY <1>17 DEF p4, p3, p2, p1, p0, HeaderOf, s, t

\* set_extension on such a packet: the element stands behind the header of the
\* extension.
IsElement(e, d, n) ==
  /\ IsPacket(e) /\ Len(e.bytes) = 18 + ValueSize(d) /\ e.blocks = Append(<<12>>, 6 + ValueSize(d))
  /\ e.bytes[1] = 144 /\ e.bytes[2] = 127 /\ HasNumbers(e.bytes, n)
  /\ e.bytes[13] = 16 /\ e.bytes[14] = 0 /\ e.bytes[17] = 16 /\ e.bytes[18] = ValueSize(d)
  /\ \A i \in 1 .. ValueSize(d) : e.bytes[18 + i] = WriteToBuff(d)[i]

\* Numbers that stand where they stood.
LEMMA NumbersStay ==
  ASSUME NEW b, NEW c, NEW n, HasNumbers(b, n), \A i \in 3 .. 12 : c[i] = b[i]
  PROVE  HasNumbers(c, n)
<1>1. c[3] = n \div 256 /\ c[4] = n % 256
  BY DEF HasNumbers
<1>2. \A i \in 1 .. 4 : c[4 + i] = Timestamp[i] /\ c[8 + i] = DefaultSsrc[i]
  <2> TAKE i \in 1 .. 4
  <2>1. 4 + i \in 3 .. 12 /\ 8 + i \in 3 .. 12
    OBVIOUS
  <2>2. c[4 + i] = b[4 + i] /\ c[8 + i] = b[8 + i]
    BY <2>1
  <2> QED BY <2>2 DEF HasNumbers
<1> QED BY <1>1, <1>2 DEF HasNumbers

\* The element: its type, its length and what write_to_buff wrote.
LEMMA ElementBytes ==
  ASSUME NEW d, IsDescriptor(d)
  PROVE  LET v  == ValueSize(d)
             bs == <<GenericFrameDescriptor00, v>> \o WriteToBuff(d)
         IN  /\ v \in Nat /\ v >= 1 /\ v <= 254
             /\ bs \in Seq(Nat) /\ Len(bs) = 2 + v /\ bs[1] = 16 /\ bs[2] = v
             /\ \A i \in 1 .. v : bs[2 + i] = WriteToBuff(d)[i]
<1> DEFINE v == ValueSize(d)
           w == WriteToBuff(d)
           e == <<GenericFrameDescriptor00, v>>
           bs == e \o w
<1>1. w \in Seq(Nat) /\ Len(w) = v /\ v \in Nat /\ v >= 1 /\ v <= 254
  BY WriteToBuffIs DEF IsExtension
<1> HIDE DEF v, w
<1>2. e \in Seq(Nat) /\ Len(e) = 2 /\ e[1] = 16 /\ e[2] = v
  BY <1>1 DEF GenericFrameDescriptor00
<1> HIDE DEF e
<1>3. IsJoined(bs, e, w)
  BY <1>1, <1>2, Joined
<1> HIDE DEF bs
<1>4. /\ bs \in Seq(Nat) /\ Len(bs) = 2 + v /\ bs[1] = 16 /\ bs[2] = v
      /\ \A i \in 1 .. v : bs[2 + i] = w[i]
  BY <1>1, <1>2, <1>3 DEF IsJoined
<1> QED BY <1>1, <1>4 DEF bs, e, v, w

\* The space that the promotion reserves.
LEMMA ReservedBytes ==
  ASSUME NEW v \in Nat
  PROVE  LET bs == <<16, 0>> \o Zeros(2 + (v + 2))
         IN  bs \in Seq(Nat) /\ Len(bs) = 6 + v /\ bs[1] = 16 /\ bs[2] = 0
<1> DEFINE k == 2 + (v + 2)
           e == <<16, 0>>
           z == Zeros(k)
           bs == e \o z
<1>1. k \in Nat /\ k = 4 + v
  OBVIOUS
<1> HIDE DEF k
<1>2. z \in Seq(Nat) /\ Len(z) = k
  BY <1>1, ZerosAre
<1>3. e \in Seq(Nat) /\ Len(e) = 2 /\ e[1] = 16 /\ e[2] = 0
  OBVIOUS
<1> HIDE DEF e, z
<1>4. IsJoined(bs, e, z)
  BY <1>2, <1>3, Joined
<1> HIDE DEF bs
<1>5. bs \in Seq(Nat) /\ Len(bs) = 6 + v /\ bs[1] = 16 /\ bs[2] = 0
  BY <1>1, <1>2, <1>3, <1>4 DEF IsJoined
<1> QED BY <1>5 DEF bs, e, z, k

\* set_extension makes room for the element and writes it there.
LEMMA ElementIs ==
  ASSUME NEW h, NEW n, IsHeader(h, n), NEW d, IsDescriptor(d)
  PROVE  IsElement(SetExtension(h, d), d, n)
<1> DEFINE v == ValueSize(d)
           w == WriteToBuff(d)
           one == <<h.bytes[1] + 16>>
           f == PutAt(h, 0, one)
           ft == [f EXCEPT !.mode = "TwoByte"]
           rs == <<16, 0>> \o Zeros(2 + (v + 2))
           g == PushBlock(ft, rs)
           bs == <<GenericFrameDescriptor00, v>> \o w
           e == PutAt(g, 16, bs)
           done == [e EXCEPT !.entries =
                      Append(@, [type |-> GenericFrameDescriptor00, offset |-> 16,
                                 length |-> v + 2])]
<1>h. /\ IsPacket(h) /\ Len(h.bytes) = 12 /\ h.blocks = <<12>> /\ h.mode = "OneByte"
      /\ h.entries = <<>> /\ h.bytes[1] = 128 /\ h.bytes[2] = 127 /\ HasNumbers(h.bytes, n)
  BY DEF IsHeader
<1>v. v \in Nat /\ v >= 1 /\ v <= 254
  BY ElementBytes
<1>bs. /\ bs \in Seq(Nat) /\ Len(bs) = 2 + v /\ bs[1] = 16 /\ bs[2] = v
       /\ \A i \in 1 .. v : bs[2 + i] = w[i]
  BY ElementBytes
<1>rs. rs \in Seq(Nat) /\ Len(rs) = 6 + v /\ rs[1] = 16 /\ rs[2] = 0
  <2> HIDE DEF v
  <2> QED BY <1>v, ReservedBytes
<1>one. one \in Seq(Nat) /\ Len(one) = 1 /\ one[1] = 144
  <2> DEFINE x == h.bytes[1] + 16
  <2>1. x = 144
    BY <1>h
  <2>2. one = <<x>>
    OBVIOUS
  <2> HIDE DEF x, one
  <2> QED BY <2>1, <2>2
<1>1. IsPut(f, h, 0, one)
  <2> HIDE DEF one
  <2>1. 0 \in Nat
    OBVIOUS
  <2> QED BY <1>h, <1>one, <2>1, PutAtIs
<1>2. SetExtension(h, d)
        = PushBackExtension(PromoteTwoBytesHeaderAndReserve(f, v + 2), d)
  <2>1. NeedPromotion(h, v)
    BY <1>h DEF NeedPromotion, GenericFrameDescriptor00, OneByteMaxId
  <2> QED BY <2>1 DEF SetExtension
<1>3. PromoteTwoBytesHeaderAndReserve(f, v + 2) = g
  BY DEF PromoteTwoBytesHeaderAndReserve
<1> HIDE DEF v, w, one, f, rs, bs
<1>4. /\ IsPacket(f) /\ Len(f.bytes) = 12 /\ f.blocks = <<12>> /\ f.entries = <<>>
      /\ f.bytes[1] = 144 /\ f.bytes[2] = 127 /\ \A i \in 3 .. 12 : f.bytes[i] = h.bytes[i]
  <2>1. f.bytes[0 + 1] = 144 /\ \A i \in 2 .. 12 : f.bytes[i] = h.bytes[i]
    BY <1>1, <1>h, <1>one DEF IsPut
  <2> QED BY <1>1, <1>h, <2>1 DEF IsPut
<1>5. /\ IsPacket(ft) /\ ft.bytes = f.bytes /\ ft.blocks = <<12>> /\ ft.entries = <<>>
  <2>1. DOMAIN f = PacketFields /\ f.bytes \in Seq(Nat)
    BY <1>4 DEF IsPacket
  <2>2. ft.bytes = f.bytes /\ ft.blocks = f.blocks /\ ft.entries = f.entries
    BY <2>1 DEF PacketFields
  <2>3. ft = [x \in PacketFields |-> ft[x]]
    BY <2>1
  <2> HIDE DEF ft
  <2> QED BY <1>4, <2>1, <2>2, <2>3 DEF IsPacket
<1> HIDE DEF ft
<1>6. IsPushed(g, ft, rs)
  BY <1>5, <1>rs, PushBlockIs
<1> HIDE DEF g
<1>7. /\ IsPacket(g) /\ Len(g.bytes) = 18 + v
      /\ g.blocks = Append(<<12>>, 6 + v) /\ g.entries = <<>>
      /\ g.bytes[1] = 144 /\ g.bytes[2] = 127 /\ \A i \in 3 .. 12 : g.bytes[i] = h.bytes[i]
      /\ g.bytes[13] = 16 /\ g.bytes[14] = 0
  <2>1. IsJoined(g.bytes, f.bytes, rs)
    BY <1>5, <1>6 DEF IsPushed
  <2>2. Len(g.bytes) = 18 + v
    BY <1>4, <1>rs, <1>v, <2>1 DEF IsJoined
  <2>a. \A i \in 1 .. 12 : g.bytes[i] = f.bytes[i]
    BY <1>4, <2>1 DEF IsJoined
  <2>b. \A i \in 1 .. 6 + v : g.bytes[12 + i] = rs[i]
    BY <1>4, <1>rs, <2>1 DEF IsJoined
  <2>3. g.bytes[1] = 144 /\ g.bytes[2] = 127 /\ \A i \in 3 .. 12 : g.bytes[i] = h.bytes[i]
    BY <1>4, <2>a
  <2>4. g.bytes[12 + 1] = 16 /\ g.bytes[12 + 2] = 0
    BY <1>rs, <1>v, <2>b
  <2>5. IsPacket(g) /\ g.blocks = Append(<<12>>, 6 + v) /\ g.entries = <<>>
    BY <1>5, <1>6, <1>rs DEF IsPushed
  <2> QED BY <2>2, <2>3, <2>4, <2>5
<1>8. ExtensionAt(g.bytes) = 12
  BY <1>7 DEF ExtensionAt, CsrcsSize, FixedHeaderSize
<1>9. InsertPos(g) = 16
  BY <1>7, <1>8 DEF InsertPos
<1>10. IsPut(e, g, 16, bs)
  BY <1>7, <1>bs, PutAtIs
<1>11. SetExtension(h, d) = done
  <2>1. PushBackExtension(g, d) = done
    BY <1>9 DEF PushBackExtension, v, w, bs
  <2> QED BY <1>2, <1>3, <2>1
<1> HIDE DEF e
<1>12. /\ IsPacket(e) /\ Len(e.bytes) = 18 + v /\ e.blocks = Append(<<12>>, 6 + v)
       /\ e.bytes[1] = 144 /\ e.bytes[2] = 127 /\ \A i \in 3 .. 12 : e.bytes[i] = h.bytes[i]
       /\ e.bytes[13] = 16 /\ e.bytes[14] = 0
  <2>a. \A i \in 1 .. Len(g.bytes) : i <= 16 \/ i > 16 + Len(bs) => e.bytes[i] = g.bytes[i]
    BY <1>10 DEF IsPut
  <2>b. Len(g.bytes) = 18 + v
    BY <1>7
  <2>1. \A i \in 1 .. 16 : e.bytes[i] = g.bytes[i]
    <3> TAKE i \in 1 .. 16
    <3>1. i \in 1 .. Len(g.bytes)
      BY ONLY <1>v, <2>b
    <3>2. i <= 16
      OBVIOUS
    <3> QED BY ONLY <2>a, <3>1, <3>2
  <2>c. \A i \in 3 .. 12 : g.bytes[i] = h.bytes[i]
    BY <1>7
  <2>2. IsPacket(e) /\ Len(e.bytes) = 18 + v /\ e.blocks = Append(<<12>>, 6 + v)
    BY <1>7, <1>10 DEF IsPut
  <2>3. \A i \in 3 .. 12 : e.bytes[i] = h.bytes[i]
    <3> TAKE i \in 3 .. 12
    <3>1. i \in 1 .. 16
      OBVIOUS
    <3>2. e.bytes[i] = g.bytes[i]
      BY ONLY <2>1, <3>1
    <3>3. g.bytes[i] = h.bytes[i]
      BY ONLY <2>c
    <3> QED BY ONLY <3>2, <3>3
  <2>d. g.bytes[1] = 144 /\ g.bytes[2] = 127 /\ g.bytes[13] = 16 /\ g.bytes[14] = 0
    BY <1>7
  <2>4. e.bytes[1] = 144 /\ e.bytes[2] = 127 /\ e.bytes[13] = 16 /\ e.bytes[14] = 0
    BY ONLY <2>1, <2>d
  <2> QED BY <2>2, <2>3, <2>4
<1>13. e.bytes[17] = 16 /\ e.bytes[18] = v /\ \A i \in 1 .. v : e.bytes[18 + i] = w[i]
  <2>1. \A i \in 1 .. 2 + v : e.bytes[16 + i] = bs[i]
    <3>1. \A i \in 1 .. Len(bs) : 16 + i <= Len(g.bytes) => e.bytes[16 + i] = bs[i]
      BY <1>10 DEF IsPut
    <3>2. Len(bs) = 2 + v /\ Len(g.bytes) = 18 + v
      BY <1>7, <1>bs
    <3>3. \A i \in 1 .. 2 + v : i \in 1 .. Len(bs) /\ 16 + i <= Len(g.bytes)
      BY ONLY <3>2, <1>v
    <3> QED BY ONLY <3>1, <3>3
  <2>2. e.bytes[16 + 1] = 16 /\ e.bytes[16 + 2] = v
    BY <1>bs, <1>v, <2>1
  <2>3. ASSUME NEW i \in 1 .. v PROVE e.bytes[18 + i] = w[i]
    <3> DEFINE k == 2 + i
    <3>1. k \in 1 .. 2 + v /\ 16 + k = 18 + i
      BY <1>v
    <3> HIDE DEF k
    <3>2. e.bytes[16 + k] = bs[k]
      BY <2>1, <3>1
    <3>3. bs[k] = w[i]
      BY <1>bs DEF k
    <3> QED BY <3>1, <3>2, <3>3
  <2> QED BY <2>2, <2>3
<1>14. IsPacket(done) /\ done.bytes = e.bytes /\ done.blocks = e.blocks
  <2>1. DOMAIN e = PacketFields /\ e.bytes \in Seq(Nat)
    BY <1>12 DEF IsPacket
  <2>2. done.bytes = e.bytes /\ done.blocks = e.blocks
    BY <2>1 DEF PacketFields
  <2>3. done = [x \in PacketFields |-> done[x]]
    BY <2>1
  <2> HIDE DEF done
  <2> QED BY <2>1, <2>2, <2>3 DEF IsPacket
<1> HIDE DEF done
<1>15. HasNumbers(done.bytes, n)
  <2> DEFINE c == done.bytes
             b == h.bytes
  <2>1. c = e.bytes
    BY <1>14
  <2>2. HasNumbers(b, n) /\ \A i \in 3 .. 12 : e.bytes[i] = b[i]
    BY <1>h, <1>12
  <2> HIDE DEF b, c
  <2>3. \A i \in 3 .. 12 : c[i] = b[i]
    BY ONLY <2>1, <2>2
  <2>4. HasNumbers(c, n)
    BY <2>2, <2>3, NumbersStay
  <2> QED BY <2>4 DEF c
<1>16. IsElement(done, d, n)
  BY <1>12, <1>13, <1>14, <1>15 DEF IsElement, v, w
<1> QED BY <1>11, <1>16

\* What set_payload adds to the extension, in bytes and in words.
Padding(v) == (4 - ((v + 2) % 4)) % 4
Words(v) == (v + 2 + Padding(v)) \div 4
\* The padding is three bytes at most and completes a word.
LEMMA PaddingIs ==
  ASSUME NEW v \in Nat, v <= 254
  PROVE  /\ Padding(v) \in Nat /\ Padding(v) <= 3
         /\ Words(v) \in Nat /\ Words(v) <= 65 /\ Words(v) >= 1 /\ 4 * Words(v) = v + 2 + Padding(v)
<1> DEFINE r == (v + 2) % 4
           k == (v + 2) \div 4
<1>1. r \in Nat /\ k \in Nat /\ v + 2 = 4 * k + r /\ r <= 3
  OBVIOUS
<1> HIDE DEF r, k
<1>2. Padding(v) = (4 - r) % 4
  BY DEF Padding, r
<1>3. CASE r = 0
  <2>1. Padding(v) = 0
    BY <1>2, <1>3
  <2> QED BY <1>1, <1>3, <2>1 DEF Words
<1>4. CASE r = 1
  <2>1. Padding(v) = 3
    BY <1>2, <1>4
  <2> QED BY <1>1, <1>4, <2>1 DEF Words
<1>5. CASE r = 2
  <2>1. Padding(v) = 2
    BY <1>2, <1>5
  <2> QED BY <1>1, <1>5, <2>1 DEF Words
<1>6. CASE r = 3
  <2>1. Padding(v) = 1
    BY <1>2, <1>6
  <2> QED BY <1>1, <1>6, <2>1 DEF Words
<1> QED BY <1>1, <1>3, <1>4, <1>5, <1>6

\* set_payload on a packet with the element: its length ends the extension
\* where the payload begins, and there are zero bytes between them.
IsFilled(b, d, n, payload) ==
  /\ b \in Seq(Nat) /\ Len(b) = 18 + ValueSize(d) + Padding(ValueSize(d)) + Len(payload)
  /\ b[1] = 144 /\ HasNumbers(b, n)
  /\ b[13] = 16 /\ b[14] = 0 /\ b[15] = 0 /\ b[16] = Words(ValueSize(d))
  /\ b[17] = 16 /\ b[18] = ValueSize(d)
  /\ \A i \in 1 .. ValueSize(d) : b[18 + i] = WriteToBuff(d)[i]
  /\ \A i \in 1 .. Padding(ValueSize(d)) : b[18 + ValueSize(d) + i] = 0
  /\ \A i \in 1 .. Len(payload) : b[18 + ValueSize(d) + Padding(ValueSize(d)) + i] = payload[i]
\* set_payload leaves the extension, notes its words and appends the payload.
LEMMA FilledIs ==
  ASSUME NEW e, NEW d, NEW n, IsDescriptor(d), IsElement(e, d, n), NEW payload \in Seq(Nat)
  PROVE  LET f == SetPayload(e, payload)
         IN  IsPacket(f) /\ IsFilled(f.bytes, d, n, payload) /\ f.bytes[2] = 127
<1> DEFINE v == ValueSize(d)
           w == WriteToBuff(d)
           pad == Padding(v)
           words == Words(v)
           z == Zeros(pad)
           hl == HighLow(words)
           q == PushBack(e, z)
           p == PutAt(q, 14, hl)
           f == PushBlock(p, payload)
           m == Len(payload)
<1>v. v \in Nat /\ v >= 1 /\ v <= 254
  BY ElementBytes
<1>pad. /\ pad \in Nat /\ pad <= 3 /\ words \in Nat /\ words <= 65 /\ words >= 1
        /\ 4 * words = v + 2 + pad
  <2> HIDE DEF v
  <2> QED BY <1>v, PaddingIs
<1>1. SetPayload(e, payload) = f
  <2>1. Last(e.blocks) - 4 = v + 2
    <3> DEFINE u == 6 + v
               s == Append(<<12>>, u)
    <3>1. e.blocks = s
      BY DEF IsElement
    <3>2. u \in Nat /\ u - 4 = v + 2
      <4> HIDE DEF v
      <4> QED BY <1>v
    <3> HIDE DEF u
    <3>3. Len(s) = 2 /\ s[2] = u
      BY <3>2
    <3> HIDE DEF s
    <3>4. Last(s) = u
      BY <3>3 DEF Last
    <3> QED BY <3>1, <3>2, <3>4
  <2>2. ExtensionAt(e.bytes) + 2 = 14
    BY DEF IsElement, ExtensionAt, CsrcsSize, FixedHeaderSize
  <2> HIDE DEF v
  <2> QED BY <2>1, <2>2 DEF SetPayload, Padding, Words
<1>e. /\ IsPacket(e) /\ Len(e.bytes) = 18 + v
      /\ e.bytes[1] = 144 /\ e.bytes[2] = 127 /\ HasNumbers(e.bytes, n)
      /\ e.bytes[13] = 16 /\ e.bytes[14] = 0 /\ e.bytes[17] = 16 /\ e.bytes[18] = v
  BY DEF IsElement
<1>w. \A i \in 1 .. v : e.bytes[18 + i] = w[i]
  BY DEF IsElement
<1> HIDE DEF v, w, pad, words
<1>z. z \in Seq(Nat) /\ Len(z) = pad /\ \A i \in 1 .. pad : z[i] = 0
  BY <1>pad, ZerosAre
<1>hl. hl \in Seq(Nat) /\ Len(hl) = 2 /\ hl[1] = 0 /\ hl[2] = words
  <2>1. words \div 256 = 0 /\ words % 256 = words
    BY <1>pad
  <2>2. hl = <<0, words>>
    BY <2>1 DEF HighLow
  <2> HIDE DEF hl
  <2> QED BY <1>pad, <2>2
<1>m. m \in Nat
  OBVIOUS
<1> HIDE DEF z, hl, m
<1>2. IsPushedBack(q, e, z)
  BY <1>e, <1>z, PushBackIs
<1> HIDE DEF q
<1>3. IsPacket(q) /\ IsJoined(q.bytes, e.bytes, z)
  BY <1>2 DEF IsPushedBack
<1>4. IsPut(p, q, 14, hl)
  BY <1>3, <1>hl, PutAtIs
<1> HIDE DEF p
<1>5. IsPacket(p)
  BY <1>4 DEF IsPut
<1>6. IsPushed(f, p, payload)
  BY <1>5, PushBlockIs
<1> HIDE DEF f
<1>7. IsPacket(f) /\ IsJoined(f.bytes, p.bytes, payload)
  BY <1>6 DEF IsPushed
<1> DEFINE a == e.bytes
           b == q.bytes
           c == p.bytes
           g == f.bytes
           k == 18 + v
           l == 18 + v + pad
<1>8. a \in Seq(Nat) /\ Len(a) = k /\ k \in Nat /\ l \in Nat /\ l = k + pad
  <2>1. a \in Seq(Nat)
    BY <1>e DEF IsPacket
  <2>2. Len(a) = k
    BY <1>e
  <2>3. k \in Nat /\ l \in Nat /\ l = k + pad
    BY ONLY <1>v, <1>pad
  <2> QED BY <2>1, <2>2, <2>3
<1>9. Len(b) = l /\ (\A i \in 1 .. k : b[i] = a[i]) /\ \A i \in 1 .. pad : b[k + i] = z[i]
  BY <1>3, <1>8, <1>z DEF IsJoined
<1>10. /\ Len(c) = l /\ c \in Seq(Nat)
       /\ \A i \in 1 .. l : i <= 14 \/ i > 16 => c[i] = b[i]
       /\ c[14 + 1] = 0 /\ c[14 + 2] = words
  <2>1. Len(c) = l /\ c \in Seq(Nat)
    BY <1>4, <1>9 DEF IsPut, IsPacket
  <2>2. \A i \in 1 .. Len(b) : i <= 14 \/ i > 14 + Len(hl) => c[i] = b[i]
    BY <1>4 DEF IsPut
  <2>3. \A i \in 1 .. l : i <= 14 \/ i > 16 => c[i] = b[i]
    BY <1>9, <1>hl, <2>2
  <2>4. \A i \in 1 .. Len(hl) : 14 + i <= Len(b) => c[14 + i] = hl[i]
    BY <1>4 DEF IsPut
  <2>5. c[14 + 1] = hl[1] /\ c[14 + 2] = hl[2]
    BY <1>8, <1>9, <1>hl, <1>v, <1>pad, <2>4
  <2> QED BY <1>hl, <2>1, <2>3, <2>5
<1>11. /\ g \in Seq(Nat) /\ Len(g) = l + m
       /\ \A i \in 1 .. l : g[i] = c[i]
       /\ \A i \in 1 .. m : g[l + i] = payload[i]
  BY <1>7, <1>10 DEF IsJoined, IsPacket, m
<1>12. k >= 19 /\ l >= k
  BY <1>v, <1>pad, <1>8
<1> HIDE DEF a, b, c, g, k, l
<1>13. \A i \in 1 .. k : i <= 14 \/ i > 16 => g[i] = a[i]
  <2> TAKE i \in 1 .. k
  <2>1. i \in 1 .. l
    BY ONLY <1>8, <1>12
  <2>2. g[i] = c[i] /\ b[i] = a[i]
    BY ONLY <1>9, <1>11, <2>1
  <2>3. i <= 14 \/ i > 16 => c[i] = b[i]
    BY ONLY <1>10, <2>1
  <2> QED BY ONLY <2>2, <2>3
<1>14. g[15] = 0 /\ g[16] = words
  <2>1. 15 \in 1 .. l /\ 16 \in 1 .. l
    BY ONLY <1>8, <1>12
  <2>2. g[15] = c[15] /\ g[16] = c[16]
    BY ONLY <1>11, <2>1
  <2>3. c[15] = 0 /\ c[16] = words
    BY ONLY <1>10
  <2> QED BY ONLY <2>2, <2>3
<1>15. /\ g[1] = a[1] /\ g[2] = a[2] /\ g[13] = a[13] /\ g[14] = a[14]
       /\ g[17] = a[17] /\ g[18] = a[18]
  BY ONLY <1>13, <1>12, <1>8
<1>16. HasNumbers(g, n)
  <2>1. \A i \in 3 .. 12 : g[i] = a[i]
    BY ONLY <1>13, <1>12, <1>8
  <2>2. HasNumbers(a, n)
    BY <1>e DEF a
  <2> QED BY <2>1, <2>2, NumbersStay
<1>17. \A i \in 1 .. v : g[18 + i] = w[i]
  <2> TAKE i \in 1 .. v
  <2> DEFINE j == 18 + i
  <2>1. j \in 1 .. k /\ j > 16
    BY ONLY <1>v DEF k
  <2> HIDE DEF j
  <2>2. g[j] = a[j]
    BY ONLY <1>13, <2>1
  <2> QED BY <1>w, <2>2 DEF j, a
<1>18. \A i \in 1 .. pad : g[k + i] = 0
  <2> TAKE i \in 1 .. pad
  <2> DEFINE j == k + i
  <2>1. j \in 1 .. l /\ j > 16
    BY ONLY <1>8, <1>12, <1>pad
  <2>2. b[k + i] = z[i] /\ z[i] = 0
    BY ONLY <1>9, <1>z
  <2> HIDE DEF j
  <2>3. g[j] = c[j] /\ c[j] = b[j]
    BY ONLY <1>10, <1>11, <2>1
  <2> QED BY ONLY <2>2, <2>3 DEF j
<1>19. Len(g) = l + m /\ g \in Seq(Nat) /\ \A i \in 1 .. m : g[l + i] = payload[i]
  BY ONLY <1>11
<1>20. IsFilled(g, d, n, payload)
  <2>1. a[1] = 144 /\ a[13] = 16 /\ a[14] = 0 /\ a[17] = 16 /\ a[18] = v
    BY <1>e DEF a
  <2> QED BY ONLY <1>14, <1>15, <1>16, <1>17, <1>18, <1>19, <2>1
          DEF IsFilled, v, w, pad, words, k, l, m
<1>21. g[2] = 127
  BY <1>e, <1>15 DEF a
<1> QED BY <1>1, <1>7, <1>20, <1>21 DEF g

\* The sizes of the parts.
LEMMA SizesAre ==
  ASSUME NEW d, IsDescriptor(d)
  PROVE  /\ ValueSize(d) \in Nat /\ ValueSize(d) >= 1 /\ ValueSize(d) <= 254
         /\ Padding(ValueSize(d)) \in Nat /\ Padding(ValueSize(d)) <= 3
         /\ Words(ValueSize(d)) \in Nat /\ Words(ValueSize(d)) <= 65 /\ Words(ValueSize(d)) >= 1
         /\ 4 * Words(ValueSize(d)) = ValueSize(d) + 2 + Padding(ValueSize(d))
<1> DEFINE v == ValueSize(d)
<1>1. v \in Nat /\ v >= 1 /\ v <= 254
  BY WriteToBuffIs DEF IsExtension
<1> HIDE DEF v
<1>2. /\ Padding(v) \in Nat /\ Padding(v) <= 3
      /\ Words(v) \in Nat /\ Words(v) <= 65 /\ Words(v) >= 1 /\ 4 * Words(v) = v + 2 + Padding(v)
  BY <1>1, PaddingIs
<1> QED BY <1>1, <1>2 DEF v

\* set_marker, last: the datagram.
IsBuilt(b, d, n, payload, marker) ==
  IsFilled(b, d, n, payload) /\ b[2] = 127 + Flag(marker, 128)
\* What the pacing loop builds, byte by byte.
LEMMA BuiltIs ==
  ASSUME NEW d, IsDescriptor(d), NEW n \in Nat, n <= 65535,
         NEW payload \in Seq(Nat), NEW marker \in BOOLEAN
  PROVE  IsBuilt(Built(d, n, payload, marker).bytes, d, n, payload, marker)
<1> DEFINE h == HeaderOf(n)
           e == SetExtension(h, d)
           f == SetPayload(e, payload)
           x == Flag(marker, 128) + (f.bytes[2] % 128)
           s == <<x>>
           p == PutAt(f, 1, s)
<1>1. Built(d, n, payload, marker) = p
  BY DEF Built, HeaderOf, SetMarker
<1>2. IsHeader(h, n)
  BY HeaderIs
<1> HIDE DEF h
<1>3. IsElement(e, d, n)
  BY <1>2, ElementIs
<1> HIDE DEF e
<1>4. IsPacket(f) /\ IsFilled(f.bytes, d, n, payload) /\ f.bytes[2] = 127
  BY <1>3, FilledIs
<1> HIDE DEF f
<1>5. x = 127 + Flag(marker, 128) /\ x \in Nat
  BY <1>4 DEF Flag
<1> HIDE DEF x
<1>6. s \in Seq(Nat) /\ Len(s) = 1 /\ s[1] = x
  BY <1>5
<1> HIDE DEF s
<1>7. IsPut(p, f, 1, s)
  BY <1>4, <1>6, PutAtIs
<1> HIDE DEF p
<1> DEFINE b == p.bytes
           c == f.bytes
           v == ValueSize(d)
           pad == Padding(v)
           m == Len(payload)
           l == 18 + v + pad + m
<1>v. v \in Nat /\ v >= 1 /\ v <= 254 /\ pad \in Nat
  BY SizesAre
<1>pad. pad \in Nat /\ m \in Nat
  BY <1>v
<1>8. Len(c) = l
  BY <1>4 DEF IsFilled
<1>9. l \in Nat /\ l >= 18
  <2> HIDE DEF v, pad, m
  <2> QED BY ONLY <1>v, <1>pad
<1>10. /\ b \in Seq(Nat) /\ Len(b) = l
       /\ \A i \in 1 .. Len(c) : i <= 1 \/ i > 1 + Len(s) => b[i] = c[i]
  <2>1. IsPacket(p) /\ Len(b) = Len(c)
    BY <1>7 DEF IsPut
  <2>2. \A i \in 1 .. Len(c) : i <= 1 \/ i > 1 + Len(s) => b[i] = c[i]
    BY <1>7 DEF IsPut
  <2>3. b \in Seq(Nat)
    BY <2>1 DEF IsPacket
  <2> HIDE DEF b, c, l
  <2> QED BY ONLY <1>8, <2>1, <2>2, <2>3
<1>11. b[1 + 1] = x
  <2>1. \A i \in 1 .. Len(s) : 1 + i <= Len(c) => b[1 + i] = s[i]
    BY <1>7 DEF IsPut
  <2> HIDE DEF b, c, l
  <2> QED BY <1>6, <1>8, <1>9, <2>1
<1> HIDE DEF b, c, l
<1>12. \A i \in 1 .. l : i # 2 => b[i] = c[i]
  <2>1. \A i \in 1 .. Len(c) : i <= 1 \/ i > 1 + Len(s) => b[i] = c[i]
    BY ONLY <1>10
  <2>2. Len(s) = 1
    BY ONLY <1>6
  <2>3. ASSUME NEW i \in 1 .. l, i # 2
        PROVE  b[i] = c[i]
    <3>1. i \in 1 .. Len(c)
      BY ONLY <1>8
    <3>2. i <= 1 \/ i > 1 + Len(s)
      BY ONLY <1>9, <2>2, <2>3
    <3> QED BY ONLY <2>1, <3>1, <3>2
  <2> QED BY <2>3
<1>13. IsFilled(c, d, n, payload)
  BY <1>4 DEF c
<1>14. HasNumbers(b, n)
  <2>1. \A i \in 3 .. 12 : b[i] = c[i]
    BY ONLY <1>9, <1>12
  <2>2. HasNumbers(c, n)
    BY <1>13 DEF IsFilled
  <2> QED BY <2>1, <2>2, NumbersStay
<1>15. /\ b[1] = 144 /\ b[13] = 16 /\ b[14] = 0 /\ b[15] = 0 /\ b[16] = Words(v)
       /\ b[17] = 16 /\ b[18] = v
  <2>1. /\ c[1] = 144 /\ c[13] = 16 /\ c[14] = 0 /\ c[15] = 0 /\ c[16] = Words(v)
        /\ c[17] = 16 /\ c[18] = v
    BY <1>13 DEF IsFilled
  <2>2. b[1] = c[1] /\ b[13] = c[13] /\ b[14] = c[14] /\ b[15] = c[15]
    BY ONLY <1>9, <1>12
  <2>3. b[16] = c[16] /\ b[17] = c[17] /\ b[18] = c[18]
    BY ONLY <1>9, <1>12
  <2> QED BY ONLY <2>1, <2>2, <2>3
<1>16. \A i \in 1 .. v : b[18 + i] = WriteToBuff(d)[i]
  <2>1. \A i \in 1 .. v : c[18 + i] = WriteToBuff(d)[i]
    BY <1>13 DEF IsFilled
  <2> TAKE i \in 1 .. v
  <2> DEFINE j == 18 + i
  <2>2. j \in 1 .. l /\ j # 2
    <3> HIDE DEF v, pad, m
    <3> QED BY ONLY <1>v, <1>pad DEF l
  <2> HIDE DEF j
  <2>3. b[j] = c[j]
    BY ONLY <1>12, <2>2
  <2> QED BY <2>1, <2>3 DEF j
<1>17. \A i \in 1 .. pad : b[18 + v + i] = 0
  <2>1. \A i \in 1 .. pad : c[18 + v + i] = 0
    BY <1>13 DEF IsFilled
  <2> TAKE i \in 1 .. pad
  <2> DEFINE j == 18 + v + i
  <2>2. j \in 1 .. l /\ j # 2
    <3> HIDE DEF v, pad, m
    <3> QED BY ONLY <1>v, <1>pad DEF l
  <2> HIDE DEF j
  <2>3. b[j] = c[j]
    BY ONLY <1>12, <2>2
  <2> QED BY <2>1, <2>3 DEF j
<1>18. \A i \in 1 .. m : b[18 + v + pad + i] = payload[i]
  <2>1. \A i \in 1 .. m : c[18 + v + pad + i] = payload[i]
    BY <1>13 DEF IsFilled
  <2> TAKE i \in 1 .. m
  <2> DEFINE j == 18 + v + pad + i
  <2>2. j \in 1 .. l /\ j # 2
    <3> HIDE DEF v, pad, m
    <3> QED BY ONLY <1>v, <1>pad DEF l
  <2> HIDE DEF j
  <2>3. b[j] = c[j]
    BY ONLY <1>12, <2>2
  <2> QED BY <2>1, <2>3 DEF j
<1>19. b \in Seq(Nat) /\ Len(b) = l
  BY <1>10
<1>20. IsFilled(b, d, n, payload)
  BY ONLY <1>14, <1>15, <1>16, <1>17, <1>18, <1>19 DEF IsFilled, l
<1>21. b[2] = 127 + Flag(marker, 128)
  BY <1>5, <1>11
<1>22. IsBuilt(b, d, n, payload, marker)
  BY <1>20, <1>21 DEF IsBuilt
<1> QED BY <1>1, <1>22 DEF b

\* A part of a buffer, byte for byte.
LEMMA SliceIs ==
  ASSUME NEW b, NEW at \in Nat, NEW s \in Seq(Nat), \A i \in 1 .. Len(s) : b[at + i] = s[i]
  PROVE  SubSeq(b, at + 1, at + Len(s)) = s
<1> DEFINE m == Len(s)
           lo == at + 1
           hi == at + m
           u == SubSeq(b, lo, hi)
<1>1. m \in Nat /\ lo \in Int /\ hi \in Int /\ hi - lo + 1 = m
  OBVIOUS
<1> HIDE DEF m
<1>2. \A i \in lo .. hi : b[i] \in Nat
  <2> TAKE i \in lo .. hi
  <2> DEFINE k == i - at
  <2>1. k \in 1 .. m /\ at + k = i
    BY <1>1
  <2> HIDE DEF k
  <2>2. b[at + k] = s[k] /\ s[k] \in Nat
    BY <2>1, ElementOfSeq DEF m
  <2> QED BY <2>1, <2>2
<1>3. \A i \in 1 .. m : lo + i - 1 = at + i
  BY <1>1
<1>4. lo <= hi <=> m >= 1
  BY <1>1
<1> HIDE DEF lo, hi
<1>5. /\ u \in Seq(Nat) /\ Len(u) = IF lo <= hi THEN hi - lo + 1 ELSE 0
      /\ \A i \in 1 .. hi - lo + 1 : u[i] = b[lo + i - 1]
  BY <1>1, <1>2, SubSeqProperties
<1> HIDE DEF u
<1>6. Len(u) = m
  BY <1>1, <1>4, <1>5
<1>7. \A i \in 1 .. m : u[i] = s[i]
  BY <1>1, <1>3, <1>5 DEF m
<1>8. u = s
  BY <1>5, <1>6, <1>7, SeqEqual DEF m
<1> QED BY <1>8 DEF u, lo, hi, m
-----------------------------------------------------------------------------
\* What the setters may be called with.

\* The numbers up to a bound, whatever it is.
LEMMA UpToIs ==
  \A hi \in Int : \A n \in 0 .. hi : n \in Nat /\ n <= hi
OBVIOUS

\* Numbers of two bytes.
LEMMA UInt16Is ==
  \A n \in UInt16 : n \in Nat /\ n <= 65535
<1> DEFINE hi == 65535
<1>1. hi \in Int /\ UInt16 = 0 .. hi
  BY DEF UInt16
<1> HIDE DEF hi
<1>2. \A n \in UInt16 : n \in Nat /\ n <= hi
  BY ONLY <1>1, UpToIs
<1> QED BY ONLY <1>2 DEF hi

\* Differences of frame numbers, as the assertion bounds them.
LEMMA FrameDiffIs ==
  \A f \in FrameDiff : f \in Nat /\ f <= 16384
<1> DEFINE hi == 16384
<1>1. hi \in Int /\ FrameDiff = 0 .. hi
  BY DEF FrameDiff
<1> HIDE DEF hi
<1>2. \A f \in FrameDiff : f \in Nat /\ f <= hi
  BY ONLY <1>1, UpToIs
<1> QED BY ONLY <1>2 DEF hi

\* The inputs of the setters are within the types of their parameters.
LEMMA InputsAre ==
  /\ \A n \in FrameIds : n \in Nat /\ n <= 65535
  /\ \A m \in SpatialMasks : m \in Byte
  /\ \A t \in TemporalLayers : t \in 0 .. 8
  /\ \A f \in FrameDiffs : f \in Nat /\ f <= 16384
  /\ \A r \in Resolutions : /\ r = <<r[1], r[2]>> /\ r[1] \in Nat /\ r[1] <= 65535
                            /\ r[2] \in Nat /\ r[2] <= 65535
<1>1. /\ FrameIds \subseteq UInt16 /\ SpatialMasks \subseteq Byte /\ TemporalLayers \subseteq 0 .. 8
      /\ FrameDiffs \subseteq FrameDiff /\ Resolutions \subseteq UInt16 \X UInt16
  BY InputsAssumption DEF InputsAssumption
<1>2. \A r \in Resolutions : r = <<r[1], r[2]>> /\ r[1] \in UInt16 /\ r[2] \in UInt16
  BY <1>1
<1> QED BY <1>1, <1>2, UInt16Is, FrameDiffIs

\* Every setter leaves a descriptor that the writer can take.
LEMMA FreshDescriptorIs ==
  IsDescriptor(FreshDescriptor)
<1> DEFINE d == FreshDescriptor
<1>1. IsRecord(d)
  BY DEF FreshDescriptor, IsRecord
<1>2. d.first \in BOOLEAN /\ d.last \in BOOLEAN /\ d.spatial = 1 /\ d.id = 0 /\ d.temporal = 0
  BY DEF FreshDescriptor
<1>3. d.deps = <<>> /\ d.resolution[1] = 0 /\ d.resolution[2] = 0
  BY DEF FreshDescriptor
<1>4. d.spatial \in Byte
  BY <1>2 DEF Byte
<1> HIDE DEF d
<1>5. d.deps \in Seq(Diffs) /\ Len(d.deps) = 0
  BY <1>3, EmptySeq
<1> QED BY <1>1, <1>2, <1>3, <1>4, <1>5, DependenciesAssumption
        DEF IsDescriptor, DependenciesAssumption, d

\* SetFirstPacketInSubFrame keeps a descriptor a descriptor.
LEMMA FirstIsSet ==
  ASSUME NEW d, IsDescriptor(d), NEW x \in BOOLEAN
  PROVE  IsDescriptor([d EXCEPT !.first = x])
<1> DEFINE e == [d EXCEPT !.first = x]
<1>1. d = [first |-> d.first, last |-> d.last, id |-> d.id, spatial |-> d.spatial,
           temporal |-> d.temporal, deps |-> d.deps, resolution |-> d.resolution]
  BY DEF IsDescriptor, IsRecord
<1>2. e.first = x /\ e.last = d.last /\ e.id = d.id /\ e.spatial = d.spatial
  BY ONLY <1>1
<1>3. e.temporal = d.temporal /\ e.deps = d.deps /\ e.resolution = d.resolution
  BY ONLY <1>1
<1>4. e = [first |-> e.first, last |-> e.last, id |-> e.id, spatial |-> e.spatial,
           temporal |-> e.temporal, deps |-> e.deps, resolution |-> e.resolution]
  BY ONLY <1>1
<1> HIDE DEF e
<1>5. IsRecord(e)
  BY <1>2, <1>3, <1>4 DEF IsDescriptor, IsRecord
<1> QED BY <1>2, <1>3, <1>5 DEF IsDescriptor, e

\* SetLastPacketInSubFrame keeps a descriptor a descriptor.
LEMMA LastIsSet ==
  ASSUME NEW d, IsDescriptor(d), NEW x \in BOOLEAN
  PROVE  IsDescriptor([d EXCEPT !.last = x])
<1> DEFINE e == [d EXCEPT !.last = x]
<1>1. d = [first |-> d.first, last |-> d.last, id |-> d.id, spatial |-> d.spatial,
           temporal |-> d.temporal, deps |-> d.deps, resolution |-> d.resolution]
  BY DEF IsDescriptor, IsRecord
<1>2. e.last = x /\ e.first = d.first /\ e.id = d.id /\ e.spatial = d.spatial
  BY ONLY <1>1
<1>3. e.temporal = d.temporal /\ e.deps = d.deps /\ e.resolution = d.resolution
  BY ONLY <1>1
<1>4. e = [first |-> e.first, last |-> e.last, id |-> e.id, spatial |-> e.spatial,
           temporal |-> e.temporal, deps |-> e.deps, resolution |-> e.resolution]
  BY ONLY <1>1
<1> HIDE DEF e
<1>5. IsRecord(e)
  BY <1>2, <1>3, <1>4 DEF IsDescriptor, IsRecord
<1> QED BY <1>2, <1>3, <1>5 DEF IsDescriptor, e

\* SetTemporalLayer keeps a descriptor a descriptor.
LEMMA TemporalIsSet ==
  ASSUME NEW d, IsDescriptor(d), NEW t \in 0 .. 8
  PROVE  IsDescriptor([d EXCEPT !.temporal = t])
BY DEF IsDescriptor, IsRecord

\* SetSpatialLayersBitmask keeps a descriptor a descriptor.
LEMMA SpatialIsSet ==
  ASSUME NEW d, IsDescriptor(d), NEW m \in Byte
  PROVE  IsDescriptor([d EXCEPT !.spatial = m])
BY SMTT(30) DEF IsDescriptor, IsRecord

\* SetFrameId keeps a descriptor a descriptor.
LEMMA IdIsSet ==
  ASSUME NEW d, IsDescriptor(d), NEW n \in Nat, n <= 65535
  PROVE  IsDescriptor([d EXCEPT !.id = n])
<1> DEFINE e == [d EXCEPT !.id = n]
<1>1. d = [first |-> d.first, last |-> d.last, id |-> d.id, spatial |-> d.spatial,
           temporal |-> d.temporal, deps |-> d.deps, resolution |-> d.resolution]
  BY DEF IsDescriptor, IsRecord
<1>2. e.id = n /\ e.first = d.first /\ e.last = d.last /\ e.spatial = d.spatial
  BY ONLY <1>1
<1>3. e.temporal = d.temporal /\ e.deps = d.deps /\ e.resolution = d.resolution
  BY ONLY <1>1
<1>4. e = [first |-> e.first, last |-> e.last, id |-> e.id, spatial |-> e.spatial,
           temporal |-> e.temporal, deps |-> e.deps, resolution |-> e.resolution]
  BY ONLY <1>1
<1> HIDE DEF e
<1>5. IsRecord(e)
  BY <1>2, <1>3, <1>4 DEF IsDescriptor, IsRecord
<1> QED BY <1>2, <1>3, <1>5 DEF IsDescriptor, e

\* SetResolution keeps a descriptor a descriptor.
LEMMA ResolutionIsSet ==
  ASSUME NEW d, IsDescriptor(d), NEW r, r = <<r[1], r[2]>>,
         r[1] \in Nat, r[1] <= 65535, r[2] \in Nat, r[2] <= 65535
  PROVE  IsDescriptor([d EXCEPT !.resolution = r])
<1> DEFINE e == [d EXCEPT !.resolution = r]
<1>1. d = [first |-> d.first, last |-> d.last, id |-> d.id, spatial |-> d.spatial,
           temporal |-> d.temporal, deps |-> d.deps, resolution |-> d.resolution]
  BY DEF IsDescriptor, IsRecord
<1>2. e.resolution = r /\ e.first = d.first /\ e.last = d.last /\ e.id = d.id
  BY ONLY <1>1
<1>3. e.spatial = d.spatial /\ e.temporal = d.temporal /\ e.deps = d.deps
  BY ONLY <1>1
<1>4. e = [first |-> e.first, last |-> e.last, id |-> e.id, spatial |-> e.spatial,
           temporal |-> e.temporal, deps |-> e.deps, resolution |-> e.resolution]
  BY ONLY <1>1
<1> HIDE DEF e
<1>5. IsRecord(e)
  BY <1>2, <1>3, <1>4 DEF IsDescriptor, IsRecord
<1> QED BY <1>2, <1>3, <1>5 DEF IsDescriptor, e

\* A difference that is not 0 is one a descriptor may hold.
LEMMA DiffsAre ==
  ASSUME NEW f \in Nat, f <= 16384, f # 0
  PROVE  f \in Diffs
BY DEF Diffs

\* A list of dependencies within the bound keeps a descriptor a descriptor.
LEMMA DependenciesAreSet ==
  ASSUME NEW d, IsDescriptor(d), NEW s \in Seq(Diffs), Len(s) <= MaxDependencies
  PROVE  IsDescriptor([d EXCEPT !.deps = s])
<1> DEFINE e == [d EXCEPT !.deps = s]
<1>1. d = [first |-> d.first, last |-> d.last, id |-> d.id, spatial |-> d.spatial,
           temporal |-> d.temporal, deps |-> d.deps, resolution |-> d.resolution]
  BY DEF IsDescriptor, IsRecord
<1>2. e.deps = s /\ e.first = d.first /\ e.last = d.last /\ e.id = d.id
  BY ONLY <1>1
<1>3. e.spatial = d.spatial /\ e.temporal = d.temporal /\ e.resolution = d.resolution
  BY ONLY <1>1
<1>4. e = [first |-> e.first, last |-> e.last, id |-> e.id, spatial |-> e.spatial,
           temporal |-> e.temporal, deps |-> e.deps, resolution |-> e.resolution]
  BY ONLY <1>1
<1> HIDE DEF e
<1>5. IsRecord(e)
  BY <1>2, <1>3, <1>4 DEF IsDescriptor, IsRecord
<1> QED BY <1>2, <1>3, <1>5 DEF IsDescriptor, e

\* AddFrameDependencyDiff keeps a descriptor a descriptor.
LEMMA DependencyIsSet ==
  ASSUME NEW d, IsDescriptor(d), NEW f \in Nat, f <= 16384
  PROVE  IsDescriptor(AddFrameDependencyDiff(d, f).descriptor)
<1> DEFINE s == Append(d.deps, f)
           e == [d EXCEPT !.deps = s]
<1>1. CASE Len(d.deps) = MaxDependencies \/ f = 0
  BY <1>1 DEF AddFrameDependencyDiff, Result
<1>2. CASE ~ (Len(d.deps) = MaxDependencies \/ f = 0)
  <2>1. AddFrameDependencyDiff(d, f).descriptor = e
    BY <1>2 DEF AddFrameDependencyDiff, Result
  <2>2. f \in Diffs
    BY <1>2, DiffsAre
  <2>3. d.deps \in Seq(Diffs) /\ Len(d.deps) \in Nat /\ Len(d.deps) <= MaxDependencies
    BY DepsAre DEF IsDescriptor
  <2>4. s \in Seq(Diffs) /\ Len(s) = Len(d.deps) + 1
    BY <2>2, <2>3, AppendProperties
  <2>5. Len(s) <= MaxDependencies
    BY <1>2, <2>3, <2>4, DependenciesAssumption DEF DependenciesAssumption
  <2> HIDE DEF s
  <2>6. IsDescriptor(e)
    BY <2>4, <2>5, DependenciesAreSet
  <2> QED BY <2>1, <2>6
<1> QED BY <1>1, <1>2
-----------------------------------------------------------------------------
\* The invariant: the descriptor is one the writer can take, a datagram is what
\* the setters built or what a peer sent, and the receiver looked at it.
OwnDatagram(b, d, s) ==
  /\ s.kind = "Rtp" /\ s.ours /\ s.number \in Nat /\ s.number <= 65535
  /\ s.payload \in Seq(Nat) /\ s.payload # <<>> /\ s.marker \in BOOLEAN
  /\ IsBuilt(b, d, s.number, s.payload, s.marker)
PeerDatagram(b, s) ==
  \E peer \in PeerDatagrams : s = [kind |-> peer.kind, ours |-> FALSE] /\ b = peer.bytes
ReceivedFrom(b) ==
  IF InferPacketType(b) = "Rtp" THEN [kind |-> "Rtp", bytes |-> b, parsed |-> Parse(b)]
  ELSE [kind |-> InferPacketType(b)]
TransportInv ==
  /\ IsDescriptor(descriptor)
  /\ datagram = <<>> => sent = Nothing /\ received = Nothing
  /\ datagram # <<>> => OwnDatagram(datagram, descriptor, sent) \/ PeerDatagram(datagram, sent)
  /\ received = Nothing \/ \E cut \in BOOLEAN : received = ReceivedFrom(BufferOf(datagram, cut))

\* A setter leaves the rest alone.
LEMMA SetterKeeps ==
  ASSUME TransportInv, datagram = <<>>, NEW d, IsDescriptor(d), Becomes(d)
  PROVE  TransportInv'
<1>1. descriptor' = d /\ datagram' = <<>> /\ sent' = sent /\ received' = received
  BY DEF Becomes
<1>2. sent' = Nothing /\ received' = Nothing
  BY <1>1 DEF TransportInv
<1>3. Nothing' = Nothing
  BY DEF Nothing
<1> QED BY <1>1, <1>2, <1>3 DEF TransportInv

\* A payload is a sequence of bytes.
LEMMA PayloadIs ==
  ASSUME NEW payload \in Payloads
  PROVE  payload \in Seq(Nat) /\ payload # <<>>
<1>1. payload \in Seq(Byte) /\ payload # <<>>
  BY DatagramsAssumption DEF DatagramsAssumption
<1>2. Byte \subseteq Nat
  BY DEF Byte
<1> QED BY <1>1, <1>2, SeqMonotonic

\* A datagram that is built is an own one.
LEMMA SendKeeps ==
  ASSUME TransportInv, NEW n \in Nat, n <= 65535, NEW payload \in Seq(Nat), payload # <<>>,
         NEW marker \in BOOLEAN, SendRtp(n, payload, marker)
  PROVE  TransportInv'
<1>1. /\ datagram' = Built(descriptor, n, payload, marker).bytes
      /\ sent' = [kind |-> "Rtp", ours |-> TRUE, number |-> n, payload |-> payload,
                  marker |-> marker]
      /\ descriptor' = descriptor /\ received' = received /\ datagram = <<>>
  BY DEF SendRtp, Filling
<1>2. IsDescriptor(descriptor) /\ received = Nothing
  BY <1>1 DEF TransportInv
<1>3. IsBuilt(datagram', descriptor, n, payload, marker)
  BY <1>1, <1>2, BuiltIs
<1> DEFINE b == datagram'
           s == sent'
<1>4. s.kind = "Rtp" /\ s.ours /\ s.number = n /\ s.payload = payload /\ s.marker = marker
  BY <1>1
<1>5. IsBuilt(b, descriptor, n, payload, marker)
  BY <1>3
<1>6. b # <<>>
  <2>1. Len(b) = 18 + ValueSize(descriptor) + Padding(ValueSize(descriptor)) + Len(payload)
    BY <1>5 DEF IsBuilt, IsFilled
  <2>2. ValueSize(descriptor) \in Nat /\ Padding(ValueSize(descriptor)) \in Nat
    BY <1>2, SizesAre
  <2>3. Len(payload) \in Nat
    OBVIOUS
  <2> HIDE DEF b
  <2>4. Len(b) > 0
    BY <2>1, <2>2, <2>3
  <2> QED BY <2>4
<1> HIDE DEF b, s
<1>7. OwnDatagram(b, descriptor, s)
  BY <1>4, <1>5 DEF OwnDatagram
<1>8. OwnDatagram(datagram', descriptor', sent')
  BY <1>1, <1>7 DEF b, s
<1>9. IsDescriptor(descriptor') /\ received' = Nothing /\ datagram' # <<>>
  BY <1>1, <1>2, <1>6 DEF b
<1>10. Nothing' = Nothing
  BY DEF Nothing
<1> QED BY <1>8, <1>9, <1>10 DEF TransportInv

\* So is one of a peer.
LEMMA PeerKeeps ==
  ASSUME TransportInv, NEW peer \in PeerDatagrams, PeerSends(peer)
  PROVE  TransportInv'
<1>1. /\ datagram' = peer.bytes /\ sent' = [kind |-> peer.kind, ours |-> FALSE]
      /\ descriptor' = descriptor /\ received' = received /\ datagram = <<>>
  BY DEF PeerSends, Filling
<1>2. IsDescriptor(descriptor) /\ received = Nothing
  BY <1>1 DEF TransportInv
<1>3. Len(peer.bytes) \in 1 .. MaxDatagram /\ MaxDatagram \in Nat
  BY DatagramsAssumption DEF DatagramsAssumption
<1>4. peer.bytes # <<>>
  BY <1>3
<1>5. PeerDatagram(datagram', sent')
  BY <1>1 DEF PeerDatagram
<1>6. Nothing' = Nothing
  BY DEF Nothing
<1> QED BY <1>1, <1>2, <1>4, <1>5, <1>6 DEF TransportInv

\* And the receiver only looks.
LEMMA ReceiveKeeps ==
  ASSUME TransportInv, NEW cut \in BOOLEAN, OnRecvData(cut)
  PROVE  TransportInv'
<1>1. /\ descriptor' = descriptor /\ datagram' = datagram /\ sent' = sent /\ datagram # <<>>
      /\ received' = ReceivedFrom(BufferOf(datagram, cut))
  BY DEF OnRecvData, ReceivedFrom, Filling
<1>2. received' = ReceivedFrom(BufferOf(datagram', cut))
  BY <1>1
<1>3. \E c \in BOOLEAN : received' = ReceivedFrom(BufferOf(datagram', c))
  BY <1>2
<1> QED BY <1>1, <1>3 DEF TransportInv

\* TransportInv holds before anything is sent.
LEMMA TransportInvInit ==
  Init => TransportInv
BY FreshDescriptorIs DEF Init, TransportInv

\* One step for each setter and handler.
LEMMA TransportInvNext ==
  ASSUME TransportInv, [Next]_vars
  PROVE  TransportInv'
<1> USE DEF Filling
<1>0. IsDescriptor(descriptor)
  BY DEF TransportInv
<1>1. CASE SetFirstPacketInSubFrame
  <2> DEFINE yes == TRUE
  <2>1. yes \in BOOLEAN
    OBVIOUS
  <2>2. datagram = <<>> /\ Becomes([descriptor EXCEPT !.first = yes])
    BY <1>1 DEF SetFirstPacketInSubFrame
  <2> HIDE DEF yes
  <2> QED BY <1>0, <2>1, <2>2, FirstIsSet, SetterKeeps
<1>2. CASE SetLastPacketInSubFrame
  <2> DEFINE yes == TRUE
  <2>1. yes \in BOOLEAN
    OBVIOUS
  <2>2. datagram = <<>> /\ Becomes([descriptor EXCEPT !.last = yes])
    BY <1>2 DEF SetLastPacketInSubFrame
  <2> HIDE DEF yes
  <2> QED BY <1>0, <2>1, <2>2, LastIsSet, SetterKeeps
<1>3. ASSUME NEW t \in TemporalLayers, SetTemporalLayer(t)
      PROVE  TransportInv'
  <2>1. t \in 0 .. 8
    BY InputsAre
  <2>2. datagram = <<>> /\ Becomes([descriptor EXCEPT !.temporal = t])
    BY <1>3 DEF SetTemporalLayer
  <2> QED BY <1>0, <2>1, <2>2, TemporalIsSet, SetterKeeps
<1>4. ASSUME NEW m \in SpatialMasks, SetSpatialLayersBitmask(m)
      PROVE  TransportInv'
  <2>1. m \in Byte
    BY InputsAre
  <2>2. datagram = <<>> /\ Becomes([descriptor EXCEPT !.spatial = m])
    BY <1>4 DEF SetSpatialLayersBitmask
  <2> QED BY <1>0, <2>1, <2>2, SpatialIsSet, SetterKeeps
<1>5. ASSUME NEW n \in FrameIds, SetFrameId(n)
      PROVE  TransportInv'
  <2>1. n \in Nat /\ n <= 65535
    BY InputsAre
  <2>2. datagram = <<>> /\ Becomes([descriptor EXCEPT !.id = n])
    BY <1>5 DEF SetFrameId
  <2> QED BY <1>0, <2>1, <2>2, IdIsSet, SetterKeeps
<1>6. ASSUME NEW r \in Resolutions, SetResolution(r)
      PROVE  TransportInv'
  <2>1. /\ r = <<r[1], r[2]>> /\ r[1] \in Nat /\ r[1] <= 65535
        /\ r[2] \in Nat /\ r[2] <= 65535
    BY InputsAre
  <2>2. datagram = <<>> /\ Becomes([descriptor EXCEPT !.resolution = r])
    BY <1>6 DEF SetResolution
  <2> QED BY <1>0, <2>1, <2>2, ResolutionIsSet, SetterKeeps
<1>7. ASSUME NEW f \in FrameDiffs, AddDependency(f)
      PROVE  TransportInv'
  <2>1. f \in Nat /\ f <= 16384
    BY InputsAre
  <2>2. datagram = <<>> /\ Becomes(AddFrameDependencyDiff(descriptor, f).descriptor)
    BY <1>7 DEF AddDependency
  <2> QED BY <1>0, <2>1, <2>2, DependencyIsSet, SetterKeeps
<1>8. ASSUME NEW n \in SequenceNumbers, NEW payload \in Payloads, NEW marker \in BOOLEAN,
             SendRtp(n, payload, marker)
      PROVE  TransportInv'
  <2>1. SequenceNumbers \subseteq UInt16
    BY DatagramsAssumption DEF DatagramsAssumption
  <2>2. n \in Nat /\ n <= 65535
    BY <2>1, UInt16Is
  <2> QED BY <1>8, <2>2, PayloadIs, SendKeeps
<1>9. ASSUME NEW peer \in PeerDatagrams, PeerSends(peer)
      PROVE  TransportInv'
  BY <1>9, PeerKeeps
<1>10. ASSUME NEW cut \in BOOLEAN, OnRecvData(cut)
       PROVE  TransportInv'
  BY <1>10, ReceiveKeeps
<1>11. CASE NextPacket
  BY <1>11, FreshDescriptorIs DEF NextPacket, TransportInv
<1>12. CASE UNCHANGED vars
  BY <1>12 DEF vars, TransportInv
<1> QED BY <1>1, <1>2, <1>3, <1>4, <1>5, <1>6, <1>7, <1>8, <1>9, <1>10, <1>11, <1>12 DEF Next

\* TransportInv is an invariant of the transport.
LEMMA TransportInvAlways ==
  Spec => []TransportInv
<1>1. Init => TransportInv
  BY TransportInvInit
<1>2. TransportInv /\ [Next]_vars => TransportInv'
  BY TransportInvNext
<1> QED BY <1>1, <1>2, PTL DEF Spec
-----------------------------------------------------------------------------
\* The writer fills the space that was reserved for it, whatever was set: the
\* assertion of write_to_buff holds (extension.cpp:225).
THEOREM SizeIsWhatIsWrittenAlways ==
  Spec => []SizeIsWhatIsWritten
<1>1. TransportInv => SizeIsWhatIsWritten
  BY WriteToBuffIs DEF TransportInv, SizeIsWhatIsWritten, IsExtension
<1> QED BY <1>1, TransportInvAlways, PTL

\* What this program sent.
LEMMA OwnIs ==
  ASSUME TransportInv, Ours
  PROVE  datagram # <<>> /\ OwnDatagram(datagram, descriptor, sent)
<1>1. sent # Nothing /\ sent.ours
  BY DEF Ours
<1>2. datagram # <<>>
  BY <1>1 DEF TransportInv
<1>3. ~ PeerDatagram(datagram, sent)
  BY <1>1 DEF PeerDatagram
<1> QED BY <1>2, <1>3 DEF TransportInv

\* The element stands behind its header.
LEMMA ElementIsOnWire ==
  ASSUME NEW b, NEW d, IsDescriptor(d), NEW n, NEW payload, IsFilled(b, d, n, payload)
  PROVE  SubSeq(b, 19, 18 + ValueSize(d)) = WriteToBuff(d)
<1> DEFINE w == WriteToBuff(d)
           v == ValueSize(d)
           at == 18
<1>1. w \in Seq(Nat) /\ Len(w) = v
  BY WriteToBuffIs DEF IsExtension
<1>2. \A i \in 1 .. v : b[at + i] = w[i]
  BY DEF IsFilled
<1>3. at \in Nat /\ at + 1 = 19
  OBVIOUS
<1> HIDE DEF at, w, v
<1>4. \A i \in 1 .. Len(w) : b[at + i] = w[i]
  BY <1>1, <1>2
<1>5. SubSeq(b, at + 1, at + Len(w)) = w
  BY <1>1, <1>3, <1>4, SliceIs
<1>6. SubSeq(b, 19, at + v) = w
  BY <1>1, <1>3, <1>5
<1> QED BY <1>6 DEF at, w, v

\* What the format has bits for is read back.
LEMMA EncodableReads ==
  ASSUME NEW d, IsDescriptor(d), Encodable(d)
  PROVE  ReadFromBuff(WriteToBuff(d), FreshDescriptor) = Success(Carried(d))
<1>1. d.deps \in Seq(Nat)
  BY DepsAre
<1>2. d.temporal <= 7 /\ \A i \in 1 .. Len(d.deps) : d.deps[i] <= 16383
  BY <1>1 DEF Encodable
<1> QED BY <1>2, ReadGivesBack

\* Two bytes of the magic number, and the element as the receiver reads it.
StandsOnWire(b, d) ==
  /\ SubSeq(b, 13, 14) = <<16, 0>> /\ At(b, 16) = GenericFrameDescriptor00
  /\ SubSeq(b, 19, 18 + At(b, 17)) = WriteToBuff(d)
\* A packet that is filled carries the element where the receiver looks for it.
LEMMA SurvivesOnWire ==
  ASSUME NEW b, NEW d, IsDescriptor(d), NEW n, NEW payload, IsFilled(b, d, n, payload)
  PROVE  StandsOnWire(b, d)
<1>1. b[13] = 16 /\ b[14] = 0 /\ b[17] = 16 /\ b[18] = ValueSize(d)
  BY DEF IsFilled
<1>2. At(b, 16) = GenericFrameDescriptor00 /\ At(b, 17) = ValueSize(d)
  BY <1>1 DEF At, GenericFrameDescriptor00
<1>3. SubSeq(b, 13, 14) = <<16, 0>>
  <2> DEFINE s == <<16, 0>>
             at == 12
  <2>1. at \in Nat /\ s \in Seq(Nat) /\ Len(s) = 2 /\ s[1] = 16 /\ s[2] = 0
    OBVIOUS
  <2>2. b[at + 1] = 16 /\ b[at + 2] = 0
    BY <1>1
  <2>3. at + 1 = 13 /\ at + 2 = 14
    OBVIOUS
  <2> HIDE DEF s, at
  <2>4. \A i \in 1 .. Len(s) : b[at + i] = s[i]
    <3> TAKE i \in 1 .. Len(s)
    <3>1. i = 1 \/ i = 2
      BY <2>1
    <3> QED BY <2>1, <2>2, <3>1
  <2>5. SubSeq(b, at + 1, at + Len(s)) = s
    BY <2>1, <2>4, SliceIs
  <2>6. SubSeq(b, 13, 14) = s
    BY <2>1, <2>3, <2>5
  <2> QED BY <2>6 DEF s
<1> QED BY <1>2, <1>3, ElementIsOnWire DEF StandsOnWire

\* Whatever is set comes out of the wire format as it went in, for every
\* descriptor whose layer and differences have bits of their own (Encodable).
THEOREM DescriptorSurvivesAlways ==
  Spec => []DescriptorSurvives
<1>1. TransportInv => DescriptorSurvives
  <2> SUFFICES ASSUME TransportInv, Ours, Encodable(descriptor)
               PROVE  /\ SubSeq(datagram, 13, 14) = <<16, 0>>
                      /\ At(datagram, 16) = GenericFrameDescriptor00
                      /\ ReadFromBuff(WireElement, FreshDescriptor)
                           = Result(Carried(descriptor), TRUE)
    BY DEF DescriptorSurvives, ReadsBack
  <2> DEFINE b == datagram
             d == descriptor
             n == sent.number
             payload == sent.payload
  <2>1. IsDescriptor(d)
    BY DEF TransportInv
  <2>2. IsFilled(b, d, n, payload)
    BY OwnIs DEF OwnDatagram, IsBuilt
  <2> HIDE DEF b, d, n, payload
  <2>3. /\ SubSeq(b, 13, 14) = <<16, 0>> /\ At(b, 16) = GenericFrameDescriptor00
        /\ SubSeq(b, 19, 18 + At(b, 17)) = WriteToBuff(d)
    <3>1. StandsOnWire(b, d)
      BY <2>1, <2>2, SurvivesOnWire
    <3> QED BY <3>1 DEF StandsOnWire
  <2>4. WireElement = WriteToBuff(d)
    BY <2>3 DEF WireElement, b
  <2>5. ReadFromBuff(WriteToBuff(d), FreshDescriptor) = Success(Carried(d))
    BY <2>1, EncodableReads DEF d
  <2> QED BY <2>3, <2>4, <2>5 DEF Success, b, d
<1> QED BY <1>1, TransportInvAlways, PTL

\* Two bytes that stand in a buffer.
LEMMA PairIs ==
  ASSUME NEW b, NEW at \in Nat, NEW x \in Nat, NEW y \in Nat, b[at + 1] = x, b[at + 2] = y
  PROVE  SubSeq(b, at + 1, at + 2) = <<x, y>>
<1> DEFINE s == <<x, y>>
<1>1. s \in Seq(Nat) /\ Len(s) = 2 /\ s[1] = x /\ s[2] = y
  OBVIOUS
<1> HIDE DEF s
<1>2. \A i \in 1 .. Len(s) : b[at + i] = s[i]
  <2> TAKE i \in 1 .. Len(s)
  <2>1. i = 1 \/ i = 2
    BY <1>1
  <2> QED BY <1>1, <2>1
<1>3. SubSeq(b, at + 1, at + Len(s)) = s
  BY <1>1, <1>2, SliceIs
<1> QED BY <1>1, <1>3 DEF s

\* The time and the source, one behind the other.
LEMMA TimeAndSource ==
  ASSUME NEW b, NEW n, HasNumbers(b, n)
  PROVE  SubSeq(b, 5, 12) = Timestamp \o DefaultSsrc
<1> DEFINE s == Timestamp
           t == DefaultSsrc
           u == s \o t
           at == 4
<1>1. s \in Seq(Nat) /\ Len(s) = 4 /\ t \in Seq(Nat) /\ Len(t) = 4
  BY DEF DefaultSsrc, Timestamp
<1>2. \A i \in 1 .. 4 : b[4 + i] = s[i] /\ b[8 + i] = t[i]
  BY DEF HasNumbers
<1> HIDE DEF s, t
<1>3. IsJoined(u, s, t)
  BY <1>1, Joined
<1> HIDE DEF u
<1>4. /\ u \in Seq(Nat) /\ Len(u) = 8 /\ (\A i \in 1 .. 4 : u[i] = s[i])
      /\ \A i \in 1 .. 4 : u[4 + i] = t[i]
  BY <1>1, <1>3 DEF IsJoined
<1>5. at \in Nat /\ at + 1 = 5 /\ at + 8 = 12 /\ at = 4
  OBVIOUS
<1> HIDE DEF at
<1>6. \A i \in 1 .. Len(u) : b[at + i] = u[i]
  <2> TAKE i \in 1 .. Len(u)
  <2>1. CASE i <= 4
    <3>1. i \in 1 .. 4
      BY <1>4, <2>1
    <3>2. b[4 + i] = u[i]
      BY <1>2, <1>4, <3>1
    <3> QED BY <1>5, <3>2
  <2>2. CASE i > 4
    <3> DEFINE j == i - 4
    <3>1. j \in 1 .. 4 /\ 4 + j = i /\ 8 + j = at + i
      BY <1>4, <1>5, <2>2
    <3> HIDE DEF j
    <3>2. b[8 + j] = t[j] /\ u[4 + j] = t[j]
      BY <1>2, <1>4, <3>1
    <3> QED BY <3>1, <3>2
  <2> QED BY <1>4, <2>1, <2>2
<1>7. SubSeq(b, at + 1, at + Len(u)) = u
  BY <1>4, <1>5, <1>6, SliceIs
<1>8. SubSeq(b, 5, 12) = u
  BY <1>4, <1>5, <1>7
<1> QED BY <1>8 DEF u, s, t

\* The payload stands where the extension ends.
LEMMA PayloadIsOnWire ==
  ASSUME NEW b, NEW d, IsDescriptor(d), NEW n, NEW payload \in Seq(Nat),
         IsFilled(b, d, n, payload)
  PROVE  SubSeq(b, 17 + 4 * Words(ValueSize(d)), Len(b)) = payload
<1> DEFINE v == ValueSize(d)
           pad == Padding(v)
           words == Words(v)
           at == 18 + v + pad
           m == Len(payload)
<1>1. v \in Nat /\ pad \in Nat /\ 4 * words = v + 2 + pad /\ words \in Nat
  BY SizesAre
<1>2. Len(b) = at + m
  BY DEF IsFilled
<1>3. \A i \in 1 .. m : b[at + i] = payload[i]
  BY DEF IsFilled
<1> HIDE DEF v, pad, words
<1>4. at \in Nat /\ at + 1 = 17 + 4 * words
  BY <1>1
<1> HIDE DEF at
<1>5. SubSeq(b, at + 1, at + m) = payload
  BY <1>3, <1>4, SliceIs
<1> QED BY <1>2, <1>4, <1>5 DEF words, v

\* Between the element and the payload there is only padding.
OnlyPadding(e, v) == \A i \in DOMAIN e : i > 2 + v => e[i] = 0
\* Behind the element the extension holds zeros only.
LEMMA PaddingIsOnWire ==
  ASSUME NEW b, NEW d, IsDescriptor(d), NEW n, NEW payload \in Seq(Nat),
         IsFilled(b, d, n, payload)
  PROVE  OnlyPadding(SubSeq(b, 17, 16 + 4 * Words(ValueSize(d))), ValueSize(d))
<1> DEFINE v == ValueSize(d)
           pad == Padding(v)
           words == Words(v)
           lo == 17
           hi == 16 + 4 * words
           e == SubSeq(b, lo, hi)
           m == Len(payload)
<1>1. v \in Nat /\ pad \in Nat /\ 4 * words = v + 2 + pad /\ words \in Nat
  BY SizesAre
<1>2. b \in Seq(Nat) /\ Len(b) = 18 + v + pad + m
  BY DEF IsFilled
<1>3. \A i \in 1 .. pad : b[18 + v + i] = 0
  BY DEF IsFilled
<1>m. m \in Nat
  OBVIOUS
<1> HIDE DEF v, pad, words, m
<1>4. /\ lo \in Int /\ hi \in Int /\ lo <= hi /\ hi - lo + 1 = v + 2 + pad
      /\ hi <= Len(b) /\ lo >= 1 /\ lo = 17
  BY <1>1, <1>2, <1>m
<1> HIDE DEF lo, hi
<1>5. \A i \in lo .. hi : b[i] \in Nat
  <2> TAKE i \in lo .. hi
  <2>1. i \in 1 .. Len(b)
    BY <1>2, <1>4
  <2> QED BY <1>2, <2>1, ElementOfSeq
<1>6. /\ e \in Seq(Nat) /\ Len(e) = IF lo <= hi THEN hi - lo + 1 ELSE 0
      /\ \A i \in 1 .. hi - lo + 1 : e[i] = b[lo + i - 1]
  BY <1>4, <1>5, SubSeqProperties
<1> HIDE DEF e
<1>7. DOMAIN e = 1 .. v + 2 + pad /\ \A i \in 1 .. v + 2 + pad : e[i] = b[lo + i - 1]
  <2>1. Len(e) = v + 2 + pad
    BY <1>4, <1>6
  <2>2. DOMAIN e = 1 .. Len(e)
    BY <1>6, LenProperties
  <2> QED BY <1>4, <1>6, <2>1, <2>2
<1>8. \A i \in DOMAIN e : i > 2 + v => e[i] = 0
  <2> SUFFICES ASSUME NEW i \in 1 .. v + 2 + pad, i > 2 + v PROVE e[i] = 0
    BY <1>7
  <2> DEFINE k == i - 2 - v
  <2>1. k \in 1 .. pad /\ lo + i - 1 = 18 + v + k
    BY <1>1, <1>4
  <2> HIDE DEF k
  <2>2. b[18 + v + k] = 0
    BY <1>3, <2>1
  <2> QED BY <1>7, <2>1, <2>2
<1>9. OnlyPadding(e, v)
  BY <1>8 DEF OnlyPadding
<1> QED BY <1>9 DEF e, lo, hi, words, v

\* The fixed header, the end of the extension and the payload come out as they
\* went in, for every descriptor, number, payload and marker.
THEOREM PacketSurvivesAlways ==
  Spec => []PacketSurvives
<1>1. TransportInv => PacketSurvives
  <2> SUFFICES ASSUME TransportInv, Ours
      PROVE  /\ SubSeq(datagram, 1, 2) = <<144, DefaultPayloadType + Flag(sent.marker, 128)>>
             /\ Word(2) = sent.number
             /\ SubSeq(datagram, 5, 12) = Timestamp \o DefaultSsrc
             /\ WirePayload = sent.payload
             /\ \A i \in DOMAIN WireElements : i > 2 + ValueSize(descriptor) => WireElements[i] = 0
    BY DEF PacketSurvives
  <2> DEFINE b == datagram
             d == descriptor
             n == sent.number
             payload == sent.payload
             marker == sent.marker
             words == Words(ValueSize(d))
  <2>1. IsDescriptor(d)
    BY DEF TransportInv
  <2>2. /\ n \in Nat /\ n <= 65535 /\ payload \in Seq(Nat) /\ marker \in BOOLEAN
        /\ IsBuilt(b, d, n, payload, marker)
    BY OwnIs DEF OwnDatagram
  <2>w. Word(2) = 256 * b[3] + b[4] /\ Word(14) = 256 * b[15] + b[16]
    BY DEF Word, At
  <2>p. WirePayload = SubSeq(b, 17 + 4 * Word(14), Len(b))
    BY DEF WirePayload
  <2>e. WireElements = SubSeq(b, 17, 16 + 4 * Word(14))
    BY DEF WireElements
  <2> HIDE DEF b, d, n, payload, marker
  <2>3. IsFilled(b, d, n, payload) /\ b[2] = 127 + Flag(marker, 128) /\ HasNumbers(b, n)
    BY <2>2 DEF IsBuilt, IsFilled
  <2>4. words \in Nat
    BY <2>1, SizesAre
  <2>5. SubSeq(b, 1, 2) = <<144, DefaultPayloadType + Flag(marker, 128)>>
    <3> DEFINE x == 144
               y == 127 + Flag(marker, 128)
               at == 0
    <3>1. b[1] = 144
      BY <2>3 DEF IsFilled
    <3>2. y \in Nat
      BY <2>2 DEF Flag
    <3>3. b[at + 1] = x /\ b[at + 2] = y /\ x \in Nat /\ at \in Nat /\ at + 1 = 1 /\ at + 2 = 2
      BY <2>3, <3>1
    <3> HIDE DEF x, y, at
    <3>4. SubSeq(b, at + 1, at + 2) = <<x, y>>
      BY <3>2, <3>3, PairIs
    <3>5. SubSeq(b, 1, 2) = <<x, y>>
      BY <3>3, <3>4
    <3> QED BY <3>5 DEF x, y, DefaultPayloadType
  <2>6. Word(2) = n
    <3>1. b[3] = n \div 256 /\ b[4] = n % 256
      BY <2>3 DEF HasNumbers
    <3>2. 256 * (n \div 256) + (n % 256) = n
      BY <2>2, TwoBytes
    <3> QED BY <2>w, <3>1, <3>2
  <2>7. SubSeq(b, 5, 12) = Timestamp \o DefaultSsrc
    BY <2>3, TimeAndSource
  <2>8. Word(14) = words
    <3>1. b[15] = 0 /\ b[16] = words
      BY <2>3 DEF IsFilled
    <3> HIDE DEF words
    <3> QED BY <2>4, <2>w, <3>1
  <2>9. WirePayload = payload
    BY <2>1, <2>2, <2>3, <2>8, <2>p, PayloadIsOnWire
  <2>10. \A i \in DOMAIN WireElements : i > 2 + ValueSize(descriptor) => WireElements[i] = 0
    <3>1. OnlyPadding(SubSeq(b, 17, 16 + 4 * words), ValueSize(d))
      BY <2>1, <2>2, <2>3, PaddingIsOnWire
    <3>2. OnlyPadding(WireElements, ValueSize(d))
      BY <2>8, <2>e, <3>1
    <3> QED BY <3>2 DEF OnlyPadding, d
  <2> QED BY <2>5, <2>6, <2>7, <2>9, <2>10 DEF b, d, n, payload, marker
<1> QED BY <1>1, TransportInvAlways, PTL

\* The buffer of the receiver begins with the datagram, cut or not, and nothing
\* is behind it.
BeginsWith(c, b) ==
  /\ c \in Seq(Nat) /\ Len(c) \in Nat /\ Len(c) >= Len(b)
  /\ \A i \in 1 .. Len(b) : c[i] = b[i]
  /\ \A i \in 1 .. Len(c) : i > Len(b) => c[i] = 0
\* The buffer of the receiver begins with what came of the datagram.
LEMMA BufferIs ==
  ASSUME NEW b \in Seq(Nat), NEW cut \in BOOLEAN
  PROVE  BeginsWith(BufferOf(b, cut), b)
<1> DEFINE k == MaxDatagram - Len(b)
           z == Zeros(k)
           c == b \o z
<1>1. k \in Int /\ Len(b) \in Nat
  BY DatagramsAssumption DEF DatagramsAssumption
<1>2. z \in Seq(Nat) /\ Len(z) \in Nat /\ \A i \in 1 .. Len(z) : z[i] = 0
  <2> HIDE DEF k
  <2>1. CASE k \in Nat
    BY <2>1, ZerosAre
  <2>2. CASE k \notin Nat
    <3>1. 1 .. k = {}
      BY <1>1, <2>2
    <3>2. z = <<>>
      BY <3>1 DEF Zeros
    <3> HIDE DEF z
    <3>3. Len(z) = 0 /\ 1 .. Len(z) = {}
      BY <3>2
    <3> QED BY <3>2, <3>3, EmptySeq
  <2> QED BY <2>1, <2>2
<1> HIDE DEF z
<1>3. IsJoined(c, b, z)
  BY <1>2, Joined
<1> HIDE DEF c
<1>4. BeginsWith(c, b)
  <2>1. /\ c \in Seq(Nat) /\ Len(c) \in Nat /\ Len(c) = Len(b) + Len(z)
        /\ \A i \in 1 .. Len(b) : c[i] = b[i]
        /\ \A i \in 1 .. Len(z) : c[Len(b) + i] = z[i]
    BY <1>1, <1>2, <1>3 DEF IsJoined
  <2>2. \A i \in 1 .. Len(c) : i > Len(b) => c[i] = 0
    <3> SUFFICES ASSUME NEW i \in 1 .. Len(c), i > Len(b) PROVE c[i] = 0
      OBVIOUS
    <3> DEFINE j == i - Len(b)
    <3>1. j \in 1 .. Len(z) /\ Len(b) + j = i
      BY <1>1, <1>2, <2>1
    <3> HIDE DEF j
    <3>2. c[Len(b) + j] = z[j] /\ z[j] = 0
      BY <1>2, <2>1, <3>1
    <3> QED BY <3>1, <3>2
  <2> QED BY <1>1, <1>2, <2>1, <2>2 DEF BeginsWith
<1>5. BeginsWith(b, b)
  BY <1>1 DEF BeginsWith
<1>6. BufferOf(b, cut) = IF cut THEN b ELSE c
  BY DEF BufferOf, c, z
<1> QED BY <1>4, <1>5, <1>6

\* The first two bytes tell a packet of this program.
LEMMA OwnIsRtp ==
  ASSUME NEW b, NEW d, IsDescriptor(d), NEW s, OwnDatagram(b, d, s), NEW c, BeginsWith(c, b)
  PROVE  /\ b \in Seq(Nat) /\ Len(b) \in Nat /\ Len(b) >= 18 + ValueSize(d)
         /\ InferPacketType(c) = "Rtp"
<1> DEFINE v == ValueSize(d)
           pad == Padding(v)
           m == Len(s.payload)
<1>1. v \in Nat /\ pad \in Nat
  BY SizesAre
<1>2. m \in Nat
  BY DEF OwnDatagram
<1>3. /\ b \in Seq(Nat) /\ Len(b) = 18 + v + pad + m
      /\ b[1] = 144 /\ b[2] = 127 + Flag(s.marker, 128) /\ s.marker \in BOOLEAN
  BY DEF OwnDatagram, IsBuilt, IsFilled
<1> HIDE DEF v, pad, m
<1>4. Len(b) \in Nat /\ Len(b) >= 18 + v /\ 1 \in 1 .. Len(b) /\ 2 \in 1 .. Len(b)
  BY <1>1, <1>2, <1>3
<1> DEFINE x == c[1]
           y == c[2]
<1>5. x = 144 /\ y = 127 + Flag(s.marker, 128)
  BY ONLY <1>3, <1>4, BeginsWith(c, b) DEF BeginsWith
<1>6. Len(c) >= 12 /\ Len(c) \in Nat
  BY ONLY <1>1, <1>4, BeginsWith(c, b) DEF BeginsWith
<1> HIDE DEF x, y
<1>7. y = 127 \/ y = 255
  BY ONLY <1>3, <1>5 DEF Flag
<1>8. y % 128 = 127 /\ x \div 64 = 2
  BY ONLY <1>5, <1>7
<1>9. InferPacketType(c) = "Rtp"
  <2>1. IsRtcp(c) <=> Len(c) >= 4 /\ x \div 64 = 2 /\ 63 < y % 128 /\ y % 128 < 96
    BY DEF IsRtcp, Version, x, y
  <2>2. ~ IsRtcp(c)
    BY ONLY <1>8, <2>1
  <2>3. IsRtp(c)
    BY <1>6, <1>8 DEF IsRtp, Version, FixedHeaderSize, x
  <2> QED BY <2>2, <2>3 DEF InferPacketType
<1> QED BY <1>3, <1>4, <1>9 DEF v

\* So do those of a peer.
LEMMA PeerIsSorted ==
  ASSUME NEW peer \in PeerDatagrams, NEW c, BeginsWith(c, peer.bytes)
  PROVE  InferPacketType(c) = IF peer.kind = "Other" THEN "Unknown" ELSE peer.kind
<1> DEFINE b == peer.bytes
           x == c[1]
           y == c[2]
<1>1. /\ b \in Seq(Byte) /\ Len(b) \in 1 .. MaxDatagram
      /\ \/ peer.kind = "Rtp"  /\ Len(b) >= 12
            /\ IsMediaByte(b[1]) /\ ~ IsReserved(b[2] % 128)
         \/ peer.kind = "Rtcp" /\ Len(b) >= 4
            /\ IsMediaByte(b[1]) /\ 192 <= b[2] /\ b[2] <= 223
         \/ peer.kind = "Other" /\ ~ IsMediaByte(b[1])
  BY DatagramsAssumption DEF DatagramsAssumption
<1>2. MaxDatagram \in Nat
  BY DatagramsAssumption DEF DatagramsAssumption
<1>3. Len(b) \in Nat /\ Len(b) >= 1
  <2>1. Len(b) \in 1 .. MaxDatagram
    BY <1>1
  <2> HIDE DEF b
  <2> QED BY ONLY <1>2, <2>1
<1>4. Len(c) \in Nat /\ Len(c) >= Len(b) /\ \A i \in 1 .. Len(b) : c[i] = b[i]
  BY DEF BeginsWith
<1> HIDE DEF b
<1>5. b[1] \in Nat /\ b[1] <= 255 /\ x = b[1]
  <2>1. 1 \in 1 .. Len(b)
    BY <1>3
  <2>2. b[1] \in Byte
    BY <1>1, <2>1, ElementOfSeq
  <2> QED BY <1>4, <2>1, <2>2, ByteIs
<1>6. Len(b) >= 4 => y = b[2]
  BY <1>3, <1>4
<1> HIDE DEF x, y
<1>7. Version(c) = x \div 64
  BY DEF Version, x
<1>8. IsRtcp(c) <=> Len(c) >= 4 /\ Version(c) = 2 /\ 63 < y % 128 /\ y % 128 < 96
  BY DEF IsRtcp, y
<1>9. IsRtp(c) <=> Len(c) >= 12 /\ Version(c) = 2
  BY DEF IsRtp, FixedHeaderSize
<1>k. peer.kind = "Rtp" \/ peer.kind = "Rtcp" \/ peer.kind = "Other"
  BY <1>1, Zenon
<1>x. x \in Nat /\ x <= 255
  BY <1>5
<1>i. y \in Int => y % 128 \in Int
  OBVIOUS
<1>y. Len(b) >= 4 => y \in Nat
  <2> SUFFICES ASSUME Len(b) >= 4 PROVE y \in Nat
    OBVIOUS
  <2>1. 2 \in 1 .. Len(b)
    BY <1>3
  <2>2. b[2] \in Byte
    BY <1>1, <2>1, ElementOfSeq
  <2> QED BY <1>6, <2>2, ByteIs
<1>10. CASE peer.kind = "Rtp"
  <2>1. Len(b) >= 12 /\ IsMediaByte(b[1]) /\ ~ IsReserved(b[2] % 128)
    BY <1>1, <1>10, Zenon
  <2>2. x \div 64 = 2
    BY ONLY <1>5, <1>x, <2>1 DEF IsMediaByte
  <2>3. Len(c) >= 12 /\ Len(b) >= 4
    BY ONLY <1>3, <1>4, <2>1
  <2>4. ~ IsReserved(y % 128)
    BY ONLY <1>6, <2>1, <2>3
  <2>5. ~ IsRtcp(c)
    <3>1. y % 128 \in Int
      BY ONLY <1>i, <1>y, <2>3
    <3> QED BY ONLY <1>8, <2>4, <3>1 DEF IsReserved
  <2>6. IsRtp(c)
    BY ONLY <1>7, <1>9, <2>2, <2>3
  <2> QED BY <1>10, <2>5, <2>6 DEF InferPacketType
<1>11. CASE peer.kind = "Rtcp"
  <2>1. Len(b) >= 4 /\ IsMediaByte(b[1]) /\ 192 <= b[2] /\ b[2] <= 223
    BY <1>1, <1>11, Zenon
  <2>2. x \div 64 = 2
    BY ONLY <1>5, <1>x, <2>1 DEF IsMediaByte
  <2>3. y \in Nat /\ 192 <= y /\ y <= 223
    BY ONLY <1>6, <1>y, <2>1
  <2>4. 63 < y % 128 /\ y % 128 < 96
    BY ONLY <2>3
  <2>5. Len(c) >= 4
    BY ONLY <1>3, <1>4, <2>1
  <2>6. IsRtcp(c)
    BY ONLY <1>7, <1>8, <2>2, <2>4, <2>5
  <2> QED BY <1>11, <2>6 DEF InferPacketType
<1>12. CASE peer.kind = "Other"
  <2>1. ~ IsMediaByte(b[1])
    BY <1>1, <1>12, Zenon
  <2>2. x \div 64 # 2
    BY ONLY <1>5, <1>x, <2>1 DEF IsMediaByte
  <2>3. ~ IsRtcp(c) /\ ~ IsRtp(c)
    BY ONLY <1>7, <1>8, <1>9, <2>2
  <2> QED BY <1>12, <2>3 DEF InferPacketType
<1> QED BY <1>k, <1>10, <1>11, <1>12

\* What the receiver looked at.
LEMMA ReceivedIs ==
  ASSUME TransportInv, received # Nothing
  PROVE  \E cut \in BOOLEAN :
           /\ received = ReceivedFrom(BufferOf(datagram, cut))
           /\ received.kind = InferPacketType(BufferOf(datagram, cut))
<1>1. PICK cut \in BOOLEAN : received = ReceivedFrom(BufferOf(datagram, cut))
  BY DEF TransportInv
<1> DEFINE c == BufferOf(datagram, cut)
<1>2. received = ReceivedFrom(c)
  BY <1>1
<1> HIDE DEF c
<1>3. received.kind = InferPacketType(c)
  BY <1>2 DEF ReceivedFrom
<1> QED BY <1>2, <1>3 DEF c

\* Every datagram goes to the channel of its kind, whatever the marker is and
\* whether the buffer is cut; what is neither RTP nor RTCP reaches none
\* (Transport::OnRecvData).
THEOREM PacketsAreSortedAlways ==
  Spec => []PacketsAreSorted
<1>1. TransportInv => PacketsAreSorted
  <2> SUFFICES ASSUME TransportInv, received # Nothing
               PROVE  received.kind = IF sent.kind = "Other" THEN "Unknown" ELSE sent.kind
    BY DEF PacketsAreSorted
  <2>1. PICK cut \in BOOLEAN : received.kind = InferPacketType(BufferOf(datagram, cut))
    BY ReceivedIs
  <2>2. datagram # <<>> /\ IsDescriptor(descriptor)
    BY DEF TransportInv
  <2> DEFINE c == BufferOf(datagram, cut)
  <2>3. CASE OwnDatagram(datagram, descriptor, sent)
    <3>1. datagram \in Seq(Nat)
      BY <2>3 DEF OwnDatagram, IsBuilt, IsFilled
    <3>2. BeginsWith(c, datagram)
      BY <3>1, BufferIs
    <3>3. received.kind = InferPacketType(c)
      BY <2>1
    <3> HIDE DEF c
    <3>4. InferPacketType(c) = "Rtp"
      BY <2>2, <2>3, <3>2, OwnIsRtp
    <3>5. sent.kind = "Rtp"
      BY <2>3 DEF OwnDatagram
    <3> QED BY <3>3, <3>4, <3>5
  <2>4. CASE PeerDatagram(datagram, sent)
    <3>1. PICK peer \in PeerDatagrams :
            sent = [kind |-> peer.kind, ours |-> FALSE] /\ datagram = peer.bytes
      BY <2>4 DEF PeerDatagram
    <3>2. peer.bytes \in Seq(Byte)
      BY DatagramsAssumption DEF DatagramsAssumption
    <3>3. Byte \subseteq Nat
      BY DEF Byte
    <3>4. datagram \in Seq(Nat)
      BY <3>1, <3>2, <3>3, SeqMonotonic
    <3>5. BeginsWith(c, peer.bytes)
      BY <3>1, <3>4, BufferIs
    <3>6. received.kind = InferPacketType(c)
      BY <2>1
    <3> HIDE DEF c
    <3>7. InferPacketType(c) = IF peer.kind = "Other" THEN "Unknown" ELSE peer.kind
      BY <3>5, PeerIsSorted
    <3>8. sent.kind = peer.kind
      BY <3>1
    <3> QED BY <3>6, <3>7, <3>8
  <2> QED BY <2>2, <2>3, <2>4 DEF TransportInv
<1> QED BY <1>1, TransportInvAlways, PTL
-----------------------------------------------------------------------------
\* The parser of the receiver, on what begins with a packet of this program.

\* The header of the extension and of its element, as they stand there; behind
\* the element no byte is the id of one.
HasElement(c, v) ==
  /\ Len(c) \in Nat /\ Len(c) > 21 /\ v \in Nat /\ v <= 254
  /\ c[1] = 144 /\ c[13] = 16 /\ c[14] = 0 /\ c[16] # 0 /\ c[17] = 16 /\ c[18] = v
  /\ \A i \in 1 .. Len(c) : c[i] \in Nat /\ (i > 18 + v => c[i] # 16)
Start == [n |-> 0, entries |-> <<>>, more |-> TRUE, left |-> FALSE]
Info(v) == [offset |-> 18, length |-> v]

\* The parser reaches its loop, and takes the length for more than the buffer.
LEMMA ExtensionIs ==
  ASSUME NEW c, NEW v, HasElement(c, v)
  PROVE  /\ ExtensionAt(c) = 12 /\ ModeOf(c) = "TwoByte" /\ ExtensionBytes(c) = Unbounded
         /\ Parse(c) = ReadElements(c, Start)
<1>1. ExtensionAt(c) = 12
  BY DEF HasElement, ExtensionAt, CsrcsSize, FixedHeaderSize
<1>2. At(c, 12) = 16 /\ At(c, 13) = 0 /\ At(c, 15) # 0
  BY DEF HasElement, At
<1>3. ModeOf(c) = "TwoByte"
  <2> DEFINE magic == <<At(c, ExtensionAt(c)), At(c, ExtensionAt(c) + 1)>>
  <2>1. magic = <<16, 0>>
    BY <1>1, <1>2
  <2>2. <<16, 0>> # <<190, 222>>
    OBVIOUS
  <2>3. ModeOf(c) = CASE magic = <<190, 222>> -> "OneByte"
                      [] magic = <<16, 0>>    -> "TwoByte"
                      [] OTHER                -> "None"
    BY DEF ModeOf
  <2> HIDE DEF magic
  <2> QED BY <2>1, <2>2, <2>3
<1>4. ExtensionBytes(c) = Unbounded
  <2> DEFINE at == ExtensionAt(c) + 2
  <2>1. at + 1 = 15 /\ 1 \in 0 .. 4
    BY <1>1
  <2>2. \E i \in 0 .. 4 : At(c, at + i) # 0
    BY <1>2, <2>1
  <2> QED BY <2>2 DEF ExtensionBytes
<1>5. Bit(c[1], 16)
  BY DEF HasElement, Bit
<1>6. ~ Outside(c, ExtensionAt(c) + 1) /\ ~ Outside(c, ExtensionAt(c) + 9)
  BY <1>1 DEF HasElement, Outside
<1>7. Parse(c) = ReadElements(c, Start)
  <2> DEFINE a == Bit(c[1], 16)
             b == Outside(c, ExtensionAt(c) + 1)
             e == ModeOf(c) = "None"
             f == Outside(c, ExtensionAt(c) + 9)
             r == ReadElements(c, Start)
             s == [Start EXCEPT !.left = TRUE]
  <2>1. Parse(c) = CASE ~ a -> Start [] b -> s [] e -> Start [] f -> s [] OTHER -> r
    BY DEF Parse, Start
  <2>2. a /\ ~ b /\ ~ e /\ ~ f
    BY <1>3, <1>5, <1>6
  <2> HIDE DEF a, b, e, f, r, s
  <2>3. Parse(c) = r
    BY <2>1, <2>2
  <2> QED BY <2>3 DEF r
<1> QED BY <1>1, <1>3, <1>4, <1>7

\* The fields of the state of the loop.
AccFields == {"n", "entries", "more", "left"}
IsState(acc) == acc = [x \in AccFields |-> acc[x]]
\* The entry of the descriptor is the one of its element, which is behind.
HasEntry(acc, v) ==
  /\ IsState(acc) /\ acc.n \in Nat /\ acc.n >= v + 2
  /\ 16 \in DOMAIN acc.entries /\ acc.entries[16] = Info(v)

\* What a round makes of the state.
Stopped(acc) == [acc EXCEPT !.more = FALSE]
Left(acc) == [acc EXCEPT !.more = FALSE, !.left = TRUE]
Skipped(acc) == [acc EXCEPT !.n = @ + 1]
Added(acc, m, id, info) == [acc EXCEPT !.n = m, !.entries = Noted(@, id, info)]

\* An element is noted under its id, which is a byte of the buffer.
LEMMA AddedIs ==
  ASSUME NEW acc, IsState(acc), NEW m, NEW id, NEW info
  PROVE  LET s == Added(acc, m, id, info)
         IN  /\ IsState(s) /\ s.n = m
             /\ id \in DOMAIN s.entries /\ s.entries[id] = info
             /\ \A t \in DOMAIN acc.entries :
                  t # id => t \in DOMAIN s.entries /\ s.entries[t] = acc.entries[t]
<1> DEFINE s == Added(acc, m, id, info)
           e == acc.entries
           f == Noted(e, id, info)
<1>1. DOMAIN acc = AccFields
  BY DEF IsState
<1>2. IsState(s) /\ s.n = m /\ s.entries = f
  BY <1>1 DEF Added, IsState, AccFields
<1> HIDE DEF s, e
<1>3. f = [t \in DOMAIN e \union {id} |-> IF t = id THEN info ELSE e[t]]
  BY DEF Noted
<1> HIDE DEF f
<1>4. id \in DOMAIN f /\ f[id] = info
  BY <1>3
<1>5. \A t \in DOMAIN e : t # id => t \in DOMAIN f /\ f[t] = e[t]
  BY <1>3
<1> QED BY <1>2, <1>4, <1>5 DEF s, e

\* The length is taken for more than the buffer and the headers have two bytes:
\* a round leaves the buffer, skips a byte, stops or notes the element whose
\* header it reads.
LEMMA RoundIs ==
  ASSUME NEW c, NEW v, HasElement(c, v), NEW acc, acc.n \in Nat
  PROVE  LET r   == ReadElement(c, acc)
             pos == 16 + acc.n
         IN  \/ r = Stopped(acc) \/ r = Left(acc) \/ r = Skipped(acc)
             \/ /\ pos + 2 \in 1 .. Len(c)
                /\ r = Added(acc, acc.n + 2 + c[pos + 2], c[pos + 1],
                             [offset |-> pos + 2, length |-> c[pos + 2]])
<1> DEFINE one == ModeOf(c) = "OneByte"
           pos == ExtensionAt(c) + 4 + acc.n
           id == IF one THEN At(c, pos) \div 16 ELSE At(c, pos)
           length == IF one THEN 1 + (At(c, pos) % 16) ELSE At(c, pos + 1)
           after == acc.n + ElementHeader(ModeOf(c)) + length
           info == [offset |-> ValueOffset(c, acc.n), length |-> length]
           stop == Stopped(acc)
           leave == Left(acc)
           next == Skipped(acc)
           add == Added(acc, after, id, info)
           c1 == acc.n + ElementHeader(ModeOf(c)) >= ExtensionBytes(c)
           c2 == Outside(c, pos)
           c3 == At(c, pos) = 0
           c4 == ~ one /\ Outside(c, pos + 1)
           c5 == one /\ (id = 15 \/ (id = 0 /\ length # 1))
           c6 == after > ExtensionBytes(c)
           r == ReadElement(c, acc)
           p == 16 + acc.n
<1>1. r = CASE c1 -> stop [] c2 -> leave [] c3 -> next [] c4 -> leave
            [] c5 -> stop [] c6 -> stop [] OTHER -> add
  BY DEF ReadElement, Stopped, Left, Skipped, Added
<1>2. ExtensionAt(c) = 12 /\ ModeOf(c) = "TwoByte"
  BY ExtensionIs
<1>3. ~ one /\ ElementHeader(ModeOf(c)) = 2
  BY <1>2 DEF ElementHeader
<1>4. pos = p /\ p \in Nat
  BY <1>2
<1>5. id = c[p + 1] /\ length = c[p + 2] /\ after = acc.n + 2 + length
  <2>1. pos + 1 = p + 1 /\ (pos + 1) + 1 = p + 2
    BY <1>4
  <2> QED BY <1>3, <2>1 DEF At
<1>6. info = [offset |-> p + 2, length |-> c[p + 2]]
  BY <1>2, <1>3, <1>5 DEF ValueOffset
<1>7. ~ c4 => p + 2 \in 1 .. Len(c)
  <2>1. Len(c) \in Nat
    BY DEF HasElement
  <2> QED BY <1>3, <1>4, <2>1 DEF Outside
<1>8. add = Added(acc, acc.n + 2 + c[p + 2], c[p + 1],
                  [offset |-> p + 2, length |-> c[p + 2]])
  BY <1>5, <1>6
<1> HIDE DEF c1, c2, c3, c4, c5, c6, stop, leave, next, add, r
<1>9. r = stop \/ r = leave \/ r = next \/ (~ c4 /\ r = add)
  BY <1>1
<1> QED BY <1>7, <1>8, <1>9 DEF stop, leave, next, r

\* The first round notes the descriptor.
LEMMA FirstRound ==
  ASSUME NEW c, NEW v, HasElement(c, v)
  PROVE  HasEntry(ParseRound(c, Start), v)
<1> DEFINE acc == Start
           one == ModeOf(c) = "OneByte"
           pos == ExtensionAt(c) + 4 + acc.n
           id == IF one THEN At(c, pos) \div 16 ELSE At(c, pos)
           length == IF one THEN 1 + (At(c, pos) % 16) ELSE At(c, pos + 1)
           after == acc.n + ElementHeader(ModeOf(c)) + length
           info == [offset |-> ValueOffset(c, acc.n), length |-> length]
           stop == Stopped(acc)
           leave == Left(acc)
           next == Skipped(acc)
           add == Added(acc, after, id, info)
           c1 == acc.n + ElementHeader(ModeOf(c)) >= ExtensionBytes(c)
           c2 == Outside(c, pos)
           c3 == At(c, pos) = 0
           c4 == ~ one /\ Outside(c, pos + 1)
           c5 == one /\ (id = 15 \/ (id = 0 /\ length # 1))
           c6 == after > ExtensionBytes(c)
<1>1. ParseRound(c, acc) = ReadElement(c, acc)
  BY DEF ParseRound, Start
<1>2. ReadElement(c, acc) = CASE c1 -> stop [] c2 -> leave [] c3 -> next [] c4 -> leave
                              [] c5 -> stop [] c6 -> stop [] OTHER -> add
  BY DEF ReadElement, Stopped, Left, Skipped, Added
<1>3. ExtensionAt(c) = 12 /\ ModeOf(c) = "TwoByte" /\ ExtensionBytes(c) = Unbounded
  BY ExtensionIs
<1>4. ~ one /\ ElementHeader(ModeOf(c)) = 2
  BY <1>3 DEF ElementHeader
<1>5. acc.n = 0 /\ IsState(acc)
  BY DEF Start, AccFields, IsState
<1>6. pos = 16
  BY <1>3, <1>5
<1>7. At(c, pos) = 16 /\ At(c, pos + 1) = v /\ v \in Nat /\ v <= 254
  BY <1>6 DEF HasElement, At
<1>8. id = 16 /\ length = v /\ ValueOffset(c, acc.n) = 18 /\ after = v + 2
  BY <1>3, <1>4, <1>5, <1>7 DEF ValueOffset
<1>9. info = Info(v)
  BY <1>8 DEF Info
<1>10. ~ c1 /\ ~ c6
  BY <1>3, <1>4, <1>5, <1>7, <1>8 DEF Unbounded
<1>11. ~ c2 /\ ~ c4
  BY <1>6 DEF HasElement, Outside
<1>12. ~ c3 /\ ~ c5
  BY <1>4, <1>7
<1> HIDE DEF c1, c2, c3, c4, c5, c6, stop, leave, next, add
<1>13. ReadElement(c, acc) = add
  BY <1>2, <1>10, <1>11, <1>12
<1>14. add = Added(acc, v + 2, 16, Info(v))
  BY <1>8, <1>9 DEF add
<1> HIDE DEF acc, add
<1>15. IsState(add) /\ add.n = v + 2 /\ 16 \in DOMAIN add.entries /\ add.entries[16] = Info(v)
  BY <1>5, <1>14, AddedIs
<1>16. HasEntry(add, v)
  BY <1>7, <1>15 DEF HasEntry
<1> QED BY <1>1, <1>13, <1>16 DEF acc

\* No later round takes the entry over: the ids it reads are other bytes.
LEMMA LaterRound ==
  ASSUME NEW c, NEW v, HasElement(c, v), NEW acc, HasEntry(acc, v)
  PROVE  HasEntry(ParseRound(c, acc), v)
<1> DEFINE r == ReadElement(c, acc)
           n == acc.n
           pos == 16 + n
           id == c[pos + 1]
           size == c[pos + 2]
           info == [offset |-> pos + 2, length |-> size]
           add == Added(acc, n + 2 + size, id, info)
<1>1. /\ DOMAIN acc = AccFields /\ IsState(acc) /\ n \in Nat /\ n >= v + 2
      /\ 16 \in DOMAIN acc.entries /\ acc.entries[16] = Info(v)
  BY DEF HasEntry, IsState
<1>2. HasEntry(Stopped(acc), v) /\ HasEntry(Left(acc), v)
  BY <1>1 DEF HasEntry, IsState, Stopped, Left, AccFields
<1>3. HasEntry(Skipped(acc), v)
  <2>1. /\ IsState(Skipped(acc)) /\ Skipped(acc).n = n + 1
        /\ Skipped(acc).entries = acc.entries
    BY <1>1 DEF IsState, Skipped, AccFields
  <2>2. v \in Nat
    BY DEF HasElement
  <2> HIDE DEF n
  <2>3. n + 1 \in Nat /\ n + 1 >= v + 2
    BY <1>1, <2>2
  <2> QED BY <1>1, <2>1, <2>3 DEF HasEntry
<1>4. ASSUME pos + 2 \in 1 .. Len(c)
      PROVE  HasEntry(add, v)
  <2> HIDE DEF n
  <2>1. v \in Nat /\ Len(c) \in Nat /\ \A i \in 1 .. Len(c) : c[i] \in Nat /\ (i > 18 + v => c[i] # 16)
    BY DEF HasElement
  <2>2. pos + 1 \in 1 .. Len(c) /\ pos + 1 > 18 + v
    BY <1>1, <1>4, <2>1
  <2>3. size \in Nat /\ id # 16
    BY <1>4, <2>1, <2>2
  <2> HIDE DEF pos, id, size, info
  <2>4. n + 2 + size \in Nat /\ n + 2 + size >= v + 2
    BY <1>1, <2>1, <2>3
  <2>5. /\ IsState(add) /\ add.n = n + 2 + size
        /\ 16 \in DOMAIN add.entries /\ add.entries[16] = acc.entries[16]
    BY <1>1, <2>3, AddedIs
  <2> HIDE DEF add
  <2> QED BY <1>1, <2>4, <2>5 DEF HasEntry
<1>5. \/ r = Stopped(acc) \/ r = Left(acc) \/ r = Skipped(acc)
      \/ pos + 2 \in 1 .. Len(c) /\ r = add
  BY <1>1, RoundIs
<1>6. HasEntry(r, v)
  <2> HIDE DEF r, pos, add
  <2> QED BY <1>2, <1>3, <1>4, <1>5
<1> QED BY <1>6 DEF ParseRound, r

\* So the entry of the descriptor is the element that was written there.
LEMMA ParsedIs ==
  ASSUME NEW c, NEW v, HasElement(c, v)
  PROVE  HasEntry(Parse(c), v)
<1> DEFINE n == Len(c) + 1
<1>l. Len(c) \in Nat
  BY DEF HasElement
<1>1. n \in Nat /\ n >= 1 /\ n = Len(c) + 1
  BY <1>l
<1>2. PICK g : IsParsing(g, c, Start) /\ ReadElements(c, Start) = g[Len(c) + 1]
  BY <1>l, ParseRuns
<1>3. g = [k \in 0 .. n |-> IF k = 0 THEN Start ELSE ParseRound(c, g[k - 1])]
  BY <1>2 DEF IsParsing
<1> HIDE DEF n
<1>4. g[0] = Start /\ \A k \in 1 .. n : g[k] = ParseRound(c, g[k - 1])
  <2>1. 0 \in 0 .. n /\ \A k \in 1 .. n : k \in 0 .. n /\ k # 0
    BY <1>1
  <2>2. \A k \in 0 .. n : g[k] = IF k = 0 THEN Start ELSE ParseRound(c, g[k - 1])
    BY <1>3
  <2> QED BY <2>1, <2>2
<1> DEFINE Good == {k \in 0 .. n : k = 0 \/ HasEntry(g[k], v)}
<1>5. 0 \in Good /\ Good \in SUBSET (0 .. n)
  BY <1>1
<1>6. ASSUME NEW i \in 1 .. n, i - 1 \in Good PROVE i \in Good
  <2>1. CASE i - 1 = 0
    <3>1. g[i] = ParseRound(c, Start)
      BY <1>4, <2>1
    <3> QED BY <1>1, <3>1, FirstRound
  <2>2. CASE i - 1 # 0
    <3>1. HasEntry(g[i - 1], v) /\ g[i] = ParseRound(c, g[i - 1])
      BY <1>4, <1>6, <2>2
    <3>2. HasEntry(g[i], v)
      BY <3>1, LaterRound
    <3> QED BY <1>1, <3>2
  <2> QED BY <2>1, <2>2
<1>7. Good = 0 .. n
  <2> HIDE DEF Good
  <2> QED BY <1>1, <1>5, <1>6, AtTheEnd
<1>8. HasEntry(g[n], v)
  <2>1. n \in Good /\ n # 0
    BY <1>1, <1>7
  <2> QED BY <2>1
<1>9. Parse(c) = g[n]
  BY <1>1, <1>2, ExtensionIs
<1> QED BY <1>8, <1>9

\* Behind the element of a packet of this program there are padding and payload.
LEMMA IsBehind ==
  ASSUME NEW b, NEW d, IsDescriptor(d), NEW s, OwnDatagram(b, d, s), 16 \notin Range(s.payload)
  PROVE  \A i \in 1 .. Len(b) : i > 18 + ValueSize(d) => b[i] # 16
<1> DEFINE v == ValueSize(d)
           pad == Padding(v)
           payload == s.payload
           m == Len(payload)
<1>1. v \in Nat /\ pad \in Nat
  BY SizesAre
<1>2. /\ Len(b) = 18 + v + pad + m /\ payload \in Seq(Nat)
      /\ \A i \in 1 .. pad : b[18 + v + i] = 0
      /\ \A i \in 1 .. m : b[18 + v + pad + i] = payload[i]
  BY DEF OwnDatagram, IsBuilt, IsFilled
<1>3. m \in Nat /\ \A i \in 1 .. m : payload[i] # 16
  <2>1. m \in Nat /\ DOMAIN payload = 1 .. m
    BY <1>2, LenProperties
  <2>2. \A i \in DOMAIN payload : payload[i] \in Range(payload)
    BY DEF Range
  <2> HIDE DEF m, payload
  <2>3. \A i \in 1 .. m : payload[i] # 16
    <3>1. 16 \notin Range(payload)
      BY DEF payload
    <3> QED BY <2>1, <2>2, <3>1
  <2> QED BY <2>1, <2>3
<1> HIDE DEF v, pad, m, payload
<1> SUFFICES ASSUME NEW i \in 1 .. Len(b), i > 18 + v PROVE b[i] # 16
  BY DEF v
<1>4. CASE i <= 18 + v + pad
  <2> DEFINE j == i - 18 - v
  <2>1. j \in 1 .. pad /\ 18 + v + j = i
    BY <1>1, <1>4
  <2> HIDE DEF j
  <2>2. b[i] = 0
    BY <1>2, <2>1
  <2> QED BY <2>2
<1>5. CASE i > 18 + v + pad
  <2> DEFINE j == i - 18 - v - pad
  <2>1. j \in 1 .. m /\ 18 + v + pad + j = i
    BY <1>1, <1>2, <1>3, <1>5
  <2> HIDE DEF j
  <2>2. b[i] = payload[j] /\ payload[j] # 16
    BY <1>2, <1>3, <2>1
  <2> QED BY <2>2
<1> QED BY <1>1, <1>3, <1>4, <1>5

\* What begins with a packet of this program has its element.
LEMMA ElementArrives ==
  ASSUME NEW b, NEW d, IsDescriptor(d), NEW s, OwnDatagram(b, d, s),
         NEW c, BeginsWith(c, b), Len(c) > 21, 16 \notin Range(s.payload)
  PROVE  /\ HasElement(c, ValueSize(d))
         /\ SubSeq(c, 19, 18 + ValueSize(d)) = WriteToBuff(d)
<1> DEFINE v == ValueSize(d)
           w == WriteToBuff(d)
           at == 18
<1>1. v \in Nat /\ v >= 1 /\ v <= 254 /\ Words(v) \in Nat /\ Words(v) >= 1
  BY SizesAre
<1>2. Len(b) \in Nat /\ Len(b) >= 18 + v
  BY OwnIsRtp
<1>3. /\ b[1] = 144 /\ b[13] = 16 /\ b[14] = 0 /\ b[16] = Words(v) /\ b[17] = 16 /\ b[18] = v
      /\ \A i \in 1 .. v : b[18 + i] = w[i]
  BY DEF OwnDatagram, IsBuilt, IsFilled
<1>4. Len(c) \in Nat /\ \A i \in 1 .. Len(b) : c[i] = b[i]
  BY DEF BeginsWith
<1>5. w \in Seq(Nat) /\ Len(w) = v
  BY WriteToBuffIs DEF IsExtension
<1> HIDE DEF v, w
<1>6. \A i \in 1 .. 18 + v : c[i] = b[i]
  <2> TAKE i \in 1 .. 18 + v
  <2>1. i \in 1 .. Len(b)
    BY ONLY <1>1, <1>2
  <2> QED BY ONLY <1>4, <2>1
<1>7. /\ c[1] = 144 /\ c[13] = 16 /\ c[14] = 0 /\ c[16] = Words(v) /\ c[17] = 16 /\ c[18] = v
  <2>1. /\ b[1] = 144 /\ b[13] = 16 /\ b[14] = 0 /\ b[16] = Words(v) /\ b[17] = 16 /\ b[18] = v
    BY <1>3
  <2> QED BY ONLY <1>1, <1>6, <2>1
<1>b. \A i \in 1 .. Len(c) : c[i] \in Nat /\ (i > 18 + v => c[i] # 16)
  <2>1. \A i \in 1 .. Len(b) : i > 18 + v => b[i] # 16
    BY IsBehind DEF v
  <2>2. c \in Seq(Nat) /\ \A i \in 1 .. Len(c) : i > Len(b) => c[i] = 0
    BY DEF BeginsWith
  <2> TAKE i \in 1 .. Len(c)
  <2>3. c[i] \in Nat
    BY <2>2, ElementOfSeq
  <2>4. CASE i > Len(b)
    BY <2>2, <2>3, <2>4
  <2>5. CASE i <= Len(b)
    <3>1. i \in 1 .. Len(b)
      BY <1>2, <1>4, <2>5
    <3> QED BY <1>4, <2>1, <2>3, <3>1
  <2> QED BY <1>2, <1>4, <2>4, <2>5
<1>8. HasElement(c, v)
  BY <1>1, <1>4, <1>7, <1>b DEF HasElement
<1>9. \A i \in 1 .. v : c[18 + i] = w[i]
  <2>1. \A i \in 1 .. v : b[18 + i] = w[i]
    BY <1>3
  <2> TAKE i \in 1 .. v
  <2> DEFINE j == 18 + i
  <2>2. j \in 1 .. 18 + v
    BY ONLY <1>1
  <2> HIDE DEF j
  <2>3. c[j] = b[j]
    BY ONLY <1>6, <2>2
  <2> QED BY <2>1, <2>3 DEF j
<1>10. at \in Nat /\ at + 1 = 19 /\ at + v = 18 + v /\ \A i \in 1 .. v : c[at + i] = w[i]
  BY <1>9
<1> HIDE DEF at
<1>11. SubSeq(c, at + 1, at + v) = w
  BY <1>5, <1>10, SliceIs
<1>12. SubSeq(c, 19, 18 + v) = w
  BY <1>10, <1>11
<1> QED BY <1>8, <1>12 DEF v, w

\* What get_extension of the receiver reads from a packet of this program is the
\* sender's descriptor, for every descriptor with bits of its own and every
\* payload without a byte that is the descriptor's id, although the parser goes
\* on through padding and payload and takes entries over from what it finds
\* there (rtp.cpp:117-129, media_receiver_impl.cpp:115).
THEOREM DescriptorIsReceivedAlways ==
  Spec => []DescriptorIsReceived
<1>1. TransportInv => DescriptorIsReceived
  <2> SUFFICES ASSUME TransportInv, Ours, received # Nothing, Len(received.bytes) > 21,
                      Encodable(descriptor), GenericFrameDescriptor00 \notin Range(sent.payload)
      PROVE  GetExtension(received.bytes, received.parsed.entries)
               = Result(Carried(descriptor), TRUE)
    BY DEF DescriptorIsReceived, HasDescriptor, Descriptor00Read
  <2> DEFINE d == descriptor
             b == datagram
             s == sent
             v == ValueSize(d)
             entries == received.parsed.entries
  <2>1. IsDescriptor(d) /\ OwnDatagram(b, d, s) /\ Encodable(d)
    BY OwnIs DEF TransportInv
  <2>2. PICK cut \in BOOLEAN : received = ReceivedFrom(BufferOf(b, cut))
    BY ReceivedIs
  <2> DEFINE c == BufferOf(b, cut)
  <2>3. b \in Seq(Nat)
    BY <2>1 DEF OwnDatagram, IsBuilt, IsFilled
  <2>4. BeginsWith(c, b)
    BY <2>3, BufferIs
  <2>5. received = ReceivedFrom(c)
    BY <2>2
  <2>p. 16 \notin Range(s.payload)
    BY DEF GenericFrameDescriptor00
  <2> HIDE DEF b, c, s, d
  <2>6. InferPacketType(c) = "Rtp"
    BY <2>1, <2>4, OwnIsRtp
  <2>7. received.bytes = c /\ received.parsed = Parse(c)
    BY <2>5, <2>6 DEF ReceivedFrom
  <2>8. Len(c) > 21
    BY <2>7
  <2>9. HasElement(c, v) /\ SubSeq(c, 19, 18 + v) = WriteToBuff(d)
    BY <2>1, <2>4, <2>8, <2>p, ElementArrives
  <2>10. v \in Nat
    BY <2>9 DEF HasElement
  <2> HIDE DEF v
  <2>11. 16 \in DOMAIN entries /\ entries[16] = Info(v)
    BY <2>7, <2>9, ParsedIs DEF HasEntry
  <2> HIDE DEF entries
  <2>12. FindExtension(c, Info(v)) = WriteToBuff(d)
    <3>1. Info(v).offset + 1 = 19 /\ Info(v).offset + Info(v).length = 18 + v
      BY <2>10 DEF Info
    <3> QED BY <2>9, <3>1 DEF FindExtension
  <2>13. GetExtension(c, entries) = ReadFromBuff(WriteToBuff(d), FreshDescriptor)
    <3> DEFINE e16 == entries[16]
               read == ReadFromBuff(FindExtension(c, e16), FreshDescriptor)
    <3>1. GetExtension(c, entries) = read
      BY <2>11 DEF GetExtension, GenericFrameDescriptor00
    <3>2. FindExtension(c, e16) = WriteToBuff(d)
      BY <2>11, <2>12
    <3> HIDE DEF e16
    <3> QED BY <3>1, <3>2
  <2>14. ReadFromBuff(WriteToBuff(d), FreshDescriptor) = Result(Carried(d), TRUE)
    BY <2>1, EncodableReads DEF Success
  <2> QED BY <2>7, <2>13, <2>14 DEF entries, d
<1> QED BY <1>1, TransportInvAlways, PTL
=============================================================================
