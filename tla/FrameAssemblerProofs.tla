------------------------ MODULE FrameAssemblerProofs ------------------------
(***************************************************************************)
(* Inductive invariants of FrameAssembler, for every set of packets, every *)
(* even modulus and every pair of ring sizes the receiver could pass; and  *)
(* from the second part on what find_frames finds.                         *)
(***************************************************************************)
EXTENDS FrameAssembler, FiniteSetTheorems, SequenceTheorems, WellFoundedInduction, TLAPS
-----------------------------------------------------------------------------
\* Wrapping sequence numbers, for every even modulus M.

\* M is twice Half: what the arithmetic below needs of ModulusAssumption.
LEMMA HalfFacts == M \in Nat /\ Half \in Nat /\ M = 2 * Half /\ Half >= 2
BY ModulusAssumption DEF Half

\* Stepping by at most a cycle stays within the numbers.
LEMMA PlusMinusType ==
  ASSUME NEW a \in Num, NEW k \in 0 .. M
  PROVE  Plus(a, k) \in Num /\ Minus(a, k) \in Num
BY HalfFacts DEF Num, Plus, Minus

\* The two differences between different numbers add up to one cycle.
LEMMA DiffType ==
  ASSUME NEW a \in Num, NEW b \in Num
  PROVE  /\ ForwardDiff(a, b) \in Num
         /\ ForwardDiff(a, a) = 0
         /\ a # b => ForwardDiff(a, b) + ForwardDiff(b, a) = M
BY HalfFacts DEF Num, ForwardDiff

\* What AheadOf decides, as a distance: less than half a cycle ahead is ahead,
\* more than half is not, exactly half is decided by the values.
LEMMA AheadOfDistance ==
  ASSUME NEW a \in Num, NEW b \in Num
  PROVE  /\ AheadOf(a, b) => ForwardDiff(b, a) \in 1 .. Half
         /\ ~ AheadOf(a, b) => a = b \/ ForwardDiff(b, a) >= Half
         /\ ForwardDiff(b, a) \in 1 .. Half - 1 => AheadOf(a, b)
BY HalfFacts DEF Num, AheadOf, AheadOrAt, MinDiff, ForwardDiff, ReverseDiff

\* Of two different numbers exactly one is ahead: the comparator never calls
\* them equivalent (AheadOrAt, sequence_number_util.h:26-28).
THEOREM ExactlyOneAhead ==
  ASSUME NEW a \in Num, NEW b \in Num, a # b
  PROVE  AheadOf(a, b) <=> ~ AheadOf(b, a)
BY HalfFacts DEF Num, AheadOf, AheadOrAt, MinDiff, ForwardDiff, ReverseDiff

\* Unwrap follows a stream through any number of wrap-arounds: a number less
\* than half a cycle after (before) the last one is unwrapped to as much more
\* (less) than the last one was (sequence_number_util.h:94-109).
THEOREM UnwrapFollowsStream ==
  ASSUME NEW v \in Num, NEW n \in Int, NEW k \in 0 .. Half - 1
  PROVE  LET u == [value |-> v, unwrapped |-> n]
         IN  /\ Unwrap(u, Plus(v, k))  = [value |-> Plus(v, k), unwrapped |-> n + k]
             /\ Unwrap(u, Minus(v, k)) = [value |-> Minus(v, k), unwrapped |-> n - k]
<1> DEFINE u == [value |-> v, unwrapped |-> n]
<1>1. u.value = v /\ u.unwrapped = n /\ v # Fresh
  BY DEF Num, Fresh
<1>2. k = 0 \/ (AheadOrAt(Plus(v, k), v) /\ ~ AheadOrAt(Minus(v, k), v))
  BY HalfFacts DEF Num, Plus, Minus, AheadOrAt, MinDiff, ForwardDiff, ReverseDiff
<1>3. AheadOrAt(v, v) /\ Plus(v, 0) = v /\ Minus(v, 0) = v
  BY HalfFacts DEF Num, Plus, Minus, AheadOrAt, MinDiff, ForwardDiff, ReverseDiff
<1>4. ForwardDiff(v, Plus(v, k)) = k
  BY HalfFacts DEF Num, Plus, ForwardDiff
<1>5. ForwardDiff(v, Minus(v, k)) = IF k = 0 THEN 0 ELSE M - k
  BY HalfFacts DEF Num, Minus, ForwardDiff
<1>6. Unwrap(u, Plus(v, k)).unwrapped = n + k
  BY <1>1, <1>2, <1>3, <1>4, HalfFacts DEF Unwrap
<1>7. Unwrap(u, Minus(v, k)).unwrapped = n - k
  BY <1>1, <1>2, <1>3, <1>5, HalfFacts DEF Unwrap
<1> QED BY <1>6, <1>7 DEF Unwrap
-----------------------------------------------------------------------------
\* missing_packets_: the numbers it holds span less than half a cycle, and so its
\* comparator orders them, whatever arrives.

\* Where a number of a set that Spans around n lies, relative to n.
Offset(e, n) == IF Behind(e, n) <= PaddingAge THEN - Behind(e, n) ELSE Ahead(e, n)

\* Inside such a set the comparator compares offsets.
LEMMA BeforeIsOffsetOrder ==
  ASSUME NEW n \in Num, NEW S \in SUBSET Num, Spans(S, n),
         NEW e \in S, NEW f \in S
  PROVE  Before(e, f) <=> Offset(e, n) < Offset(f, n)
<1>1. e \in Num /\ f \in Num OBVIOUS
<1>2. /\ Behind(e, n) <= PaddingAge \/ Ahead(e, n) <= Half - PaddingAge
      /\ Behind(f, n) <= PaddingAge \/ Ahead(f, n) <= Half - PaddingAge
      /\ Behind(e, n) <= PaddingAge /\ Ahead(f, n) <= Half - PaddingAge =>
           Behind(e, n) + Ahead(f, n) < Half
      /\ Behind(f, n) <= PaddingAge /\ Ahead(e, n) <= Half - PaddingAge =>
           Behind(f, n) + Ahead(e, n) < Half
  BY DEF Spans
<1> QED
  BY <1>1, <1>2, HalfFacts, AgeAssumption
  DEF Num, Offset, Behind, Ahead, Before, AheadOf, AheadOrAt, MinDiff,
      ForwardDiff, ReverseDiff

\* A set that Spans is ordered by its comparator.
LEMMA SpanOrders ==
  ASSUME NEW n \in Num, NEW S \in SUBSET Num, Spans(S, n)
  PROVE  OrderedBy(S)
<1> SUFFICES ASSUME NEW a \in S, NEW b \in S, NEW c \in S,
                    Before(a, b), Before(b, c)
             PROVE  Before(a, c)
  BY DEF OrderedBy
<1>1. Offset(a, n) \in Int /\ Offset(b, n) \in Int /\ Offset(c, n) \in Int
  BY HalfFacts DEF Num, Offset, Behind, Ahead, ForwardDiff
<1>2. Offset(a, n) < Offset(b, n) /\ Offset(b, n) < Offset(c, n)
  BY BeforeIsOffsetOrder
<1>3. Offset(a, n) < Offset(c, n)
  BY <1>1, <1>2
<1> QED BY <1>3, BeforeIsOffsetOrder

\* A subset of a set that Spans does too.
LEMMA SpanShrinks ==
  ASSUME NEW n, NEW S, NEW T \in SUBSET S, Spans(S, n)
  PROVE  Spans(T, n)
BY DEF Spans

\* update_missing_packets for a number that is ahead of the newest one.
LEMMA SpanAdvances ==
  ASSUME NEW n \in Num, NEW S \in SUBSET Num, Spans(S, n),
         NEW s \in Num, AheadOf(s, n)
  PROVE  LET old  == Minus(s, PaddingAge)
             from == IF AheadOf(old, n) THEN old ELSE n
         IN  Spans((S \ BelowLowerBound(S, old))
                   \cup {e \in Num : ForwardDiff(from, e) \in 1 .. ForwardDiff(from, s) - 1}, s)
<1> DEFINE old  == Minus(s, PaddingAge)
           from == IF AheadOf(old, n) THEN old ELSE n
           d    == ForwardDiff(n, s)
           New  == {e \in Num : ForwardDiff(from, e) \in 1 .. ForwardDiff(from, s) - 1}
           Kept == S \ BelowLowerBound(S, old)
<1>1. d \in 1 .. Half
  BY AheadOfDistance
<1>2. old \in Num
  <2>1. PaddingAge \in 0 .. M
    BY HalfFacts, AgeAssumption
  <2> QED BY <2>1, PlusMinusType
<1>3. ASSUME NEW e \in New PROVE Behind(e, s) \in 1 .. PaddingAge - 1
  <2>1. CASE AheadOf(old, n)
    BY <2>1, <1>3, <1>2, HalfFacts, AgeAssumption
    DEF Num, Behind, ForwardDiff, Minus
  <2>2. CASE ~ AheadOf(old, n)
    <3>1. d <= PaddingAge
      BY <2>2, <1>1, <1>2, AheadOfDistance, HalfFacts, AgeAssumption
      DEF Num, ForwardDiff, Minus
    <3> QED
      BY <3>1, <2>2, <1>3, HalfFacts, AgeAssumption
      DEF Num, Behind, ForwardDiff
  <2> QED BY <2>1, <2>2
<1>4. ASSUME NEW e \in Kept
      PROVE  /\ e \in Num
             /\ \/ Behind(e, s) <= PaddingAge
                \/ Ahead(e, s) < Half - PaddingAge
                \/ /\ Ahead(e, s) = Half - PaddingAge
                   /\ d = Half
                   /\ Behind(e, n) = PaddingAge
  <2>1. e \in Num /\ e \in S
    OBVIOUS
  <2>2. ~ AheadOf(old, e)
    BY <2>1 DEF BelowLowerBound, Before
  <2>3. old = e \/ ForwardDiff(e, old) >= Half
    BY <2>1, <2>2, <1>2, AheadOfDistance
  <2>4. Behind(e, n) <= PaddingAge \/ Ahead(e, n) <= Half - PaddingAge
    BY <2>1 DEF Spans
  <2> QED
    BY <2>1, <2>3, <2>4, <1>1, HalfFacts, AgeAssumption
    DEF Num, Behind, Ahead, ForwardDiff, Minus
<1>5. ASSUME NEW e \in Kept, NEW f \in Kept,
             Behind(e, s) <= PaddingAge, Ahead(f, s) <= Half - PaddingAge
      PROVE  Behind(e, s) + Ahead(f, s) < Half
  <2>1. e \in Num /\ f \in Num /\ e \in S /\ f \in S
    OBVIOUS
  <2>2. Behind(e, s) \in Nat /\ Ahead(f, s) \in Nat
    BY <2>1, HalfFacts DEF Num, Behind, Ahead, ForwardDiff
  <2>3. CASE Ahead(f, s) < Half - PaddingAge
    BY <2>2, <2>3, <1>5, HalfFacts, AgeAssumption
  <2>4. CASE Ahead(f, s) = Half - PaddingAge
    <3>1. d = Half /\ Behind(f, n) = PaddingAge
      BY <2>1, <2>4, <1>4, HalfFacts, AgeAssumption
      DEF Num, Behind, Ahead, ForwardDiff
    <3>2. Behind(f, n) <= PaddingAge /\ Ahead(e, n) <= Half - PaddingAge =>
            Behind(f, n) + Ahead(e, n) < Half
      BY <2>1 DEF Spans
    <3>3. Behind(e, n) <= PaddingAge \/ Ahead(e, n) <= Half - PaddingAge
      BY <2>1 DEF Spans
    <3> QED
      BY <2>1, <2>4, <3>1, <3>2, <3>3, <1>5, HalfFacts, AgeAssumption
      DEF Num, Behind, Ahead, ForwardDiff
  <2> QED BY <1>5, <2>2, <2>3, <2>4, HalfFacts, AgeAssumption
<1>6. Spans(Kept \cup New, s)
  <2>1. ASSUME NEW e \in Kept \cup New
        PROVE  Behind(e, s) <= PaddingAge \/ Ahead(e, s) <= Half - PaddingAge
    <3>1. CASE e \in New
      BY <3>1, <1>3, AgeAssumption
    <3>2. CASE e \in Kept
      BY <3>2, <1>4, HalfFacts, AgeAssumption DEF Num, Ahead, ForwardDiff
    <3> QED BY <3>1, <3>2
  <2>2. ASSUME NEW e \in Kept \cup New, NEW f \in Kept \cup New,
               Behind(e, s) <= PaddingAge, Ahead(f, s) <= Half - PaddingAge
        PROVE  Behind(e, s) + Ahead(f, s) < Half
    <3>1. e \in Num /\ f \in Num
      OBVIOUS
    <3>2. CASE f \in New
      BY <3>1, <3>2, <2>2, <1>3, HalfFacts, AgeAssumption
      DEF Num, Behind, Ahead, ForwardDiff
    <3>3. CASE e \in New
      BY <3>1, <3>3, <2>2, <1>3, HalfFacts, AgeAssumption
      DEF Num, Behind, Ahead, ForwardDiff
    <3> QED BY <3>2, <3>3, <2>2, <1>5
  <2> QED BY <2>1, <2>2 DEF Spans
<1> QED BY <1>6
-----------------------------------------------------------------------------

\* A non-empty set of indexes below n has a largest element.
LEMMA LargestIndex ==
  ASSUME NEW n \in Nat, NEW S \in SUBSET (0 .. n - 1), S # {}
  PROVE  Max(S) \in S
<1> DEFINE T == {n - x : x \in S}
           R == OpToRel(<, Nat)
<1>1. IsWellFoundedOn(R, Nat)
  BY NatLessThanWellFounded
<1>2. T \subseteq Nat /\ T # {}
  OBVIOUS
<1>3. PICK t \in T : \A u \in T : ~ (<<u, t>> \in R)
  <2> HIDE DEF T, R
  <2> QED BY <1>1, <1>2, WFMin
<1>4. \A u \in T : ~ (u < t)
  BY <1>2, <1>3 DEF OpToRel
<1>5. PICK x \in S : t = n - x
  OBVIOUS
<1> HIDE DEF R
<1>6. ASSUME NEW y \in S PROVE x >= y
  <2>1. n - y \in T
    OBVIOUS
  <2> HIDE DEF T
  <2>2. ~ (n - y < n - x)
    BY <1>4, <1>5, <2>1
  <2> QED BY <2>2
<1> QED BY <1>6 DEF Max

\* The sizes between which the ring grows are positive numbers.
LEMMA SizeFacts ==
  ASSUME NEW n \in StartSize .. MaxSize
  PROVE  n \in Nat /\ n > 0
BY SizeAssumption

\* The slot of a number is a slot of the ring.
LEMMA IndexType ==
  ASSUME NEW n \in StartSize .. MaxSize, NEW s \in Num
  PROVE  Index(s, n) \in 0 .. n - 1
BY SizeFacts, HalfFacts DEF Index, Num

\* expand_buffer re-indexes into a ring of packets, each at its own slot.
LEMMA ExpandedRing ==
  ASSUME RingTypeOK
  PROVE  /\ ExpandedSize \in StartSize .. MaxSize
         /\ ExpandedBuffer \in Ring(ExpandedSize)
         /\ Placed(ExpandedBuffer, ExpandedSize)
<1> DEFINE n == ExpandedSize
           claims(i) == {j \in 0 .. size - 1 :
                           buffer[j] # None /\ Index(buffer[j].pkt.seq, n) = i}
<1>1. n \in StartSize .. MaxSize
  BY SizeAssumption DEF RingTypeOK, ExpandedSize
<1>2. ASSUME NEW i \in 0 .. n - 1, claims(i) # {}
      PROVE  /\ buffer[Max(claims(i))] \in Entry
             /\ Index(buffer[Max(claims(i))].pkt.seq, n) = i
  <2>1. size \in Nat
    BY SizeAssumption DEF RingTypeOK
  <2>2. Max(claims(i)) \in claims(i)
    BY <1>2, <2>1, LargestIndex
  <2> QED BY <2>2 DEF RingTypeOK, Ring
<1>3. ExpandedBuffer =
        [i \in 0 .. n - 1 |-> IF claims(i) = {} THEN None ELSE buffer[Max(claims(i))]]
  BY DEF ExpandedBuffer
<1>4. ExpandedBuffer \in Ring(n)
  BY <1>2, <1>3 DEF Ring
<1>5. Placed(ExpandedBuffer, n)
  BY <1>2, <1>3 DEF Placed
<1> QED BY <1>1, <1>4, <1>5

\* A packet keeps its sequence number and its type when it is handed out.
LEMMA HandedOutType ==
  ASSUME NEW n \in StartSize .. MaxSize, NEW b, NEW i \in 0 .. n - 1, b[i] \in Entry,
         Index(b[i].pkt.seq, n) = i, NEW end
  PROVE  /\ HandedOut(b, n, end, b[i].pkt.seq) \in Packet
         /\ HandedOut(b, n, end, b[i].pkt.seq).seq = b[i].pkt.seq
<1>1. b[i].pkt \in Packet /\ b[Index(b[i].pkt.seq, n)] = b[i]
  BY DEF Entry
<1> DEFINE f == (b[i].pkt.seq = Minus(end, FrameReach(b, n, end)))
           l == (b[i].pkt.seq = end)
<1>2. f \in BOOLEAN /\ l \in BOOLEAN
  OBVIOUS
<1>3. HandedOut(b, n, end, b[i].pkt.seq)
        = [b[i].pkt EXCEPT !.first = f, !.last = l]
  BY <1>1 DEF HandedOut
<1> HIDE DEF f, l
<1> QED BY <1>1, <1>2, <1>3 DEF Packet

\* find_frames leaves every slot empty or with the packet it had, and only ever
\* removes missing numbers.
LEMMA FindFramesRing ==
  ASSUME NEW n \in StartSize .. MaxSize, NEW b \in Ring(n), Placed(b, n),
         NEW m, NEW seq
  PROVE  /\ FindFrames(b, n, m, seq).buffer \in Ring(n)
         /\ Placed(FindFrames(b, n, m, seq).buffer, n)
         /\ FindFrames(b, n, m, seq).missing \subseteq m
         /\ \A i \in 0 .. n - 1 :
              LET e == FindFrames(b, n, m, seq).buffer[i]
              IN  e # None => b[i] # None /\ e.pkt.seq = b[i].pkt.seq
<1> DEFINE visited == Visited(b, n, seq)
           ends    == {j \in visited : b[Index(Plus(seq, j), n)].pkt.last}
           fatal   == {j \in ends : H264 \/ ~ AssertHolds(b, n, Plus(seq, j))}
           done    == {j \in ends : \A f \in fatal : j < f}
           marked  == {Plus(seq, j) : j \in {v \in visited : \A f \in fatal : v <= f}}
           framesOf(s) == {j \in done : s \in FrameSeqs(b, n, Plus(seq, j))}
           cont(e) == e.continuous \/ e.pkt.seq \in marked
           endOf(e)  == Plus(seq, Max(framesOf(e.pkt.seq)))
           slot(e) ==
             IF framesOf(e.pkt.seq) = {} THEN [e EXCEPT !.continuous = cont(e)]
             ELSE IF MovedFrom = "empty" THEN None
             ELSE [pkt |-> HandedOut(b, n, endOf(e), e.pkt.seq),
                   continuous |-> cont(e)]
           r == FindFrames(b, n, m, seq)
<1>1. /\ r.buffer = [i \in 0 .. n - 1 |-> IF b[i] = None THEN None ELSE slot(b[i])]
      /\ r.missing = m \ UNION {BelowUpperBound(m, Plus(seq, j)) : j \in done}
  BY DEF FindFrames
<1>2. ASSUME NEW i \in 0 .. n - 1, b[i] # None
      PROVE  /\ slot(b[i]) \in Entry \cup {None}
             /\ slot(b[i]) # None => slot(b[i]).pkt.seq = b[i].pkt.seq
  <2>1. b[i] \in Entry /\ Index(b[i].pkt.seq, n) = i
    BY <1>2 DEF Ring, Placed
  <2>2. cont(b[i]) \in BOOLEAN
    BY <2>1 DEF Entry
  <2> DEFINE c == cont(b[i])
             h == HandedOut(b, n, endOf(b[i]), b[i].pkt.seq)
  <2>3. h \in Packet /\ h.seq = b[i].pkt.seq
    <3> HIDE DEF endOf
    <3> QED BY <2>1, HandedOutType
  <2>4. \/ slot(b[i]) = [b[i] EXCEPT !.continuous = c]
        \/ slot(b[i]) = None
        \/ slot(b[i]) = [pkt |-> h, continuous |-> c]
    OBVIOUS
  <2> HIDE DEF c, h, slot
  <2>5. c \in BOOLEAN
    BY <2>2 DEF c
  <2> QED BY <2>1, <2>3, <2>4, <2>5 DEF Entry
<1> HIDE DEF slot, done, r
<1>3. r.buffer \in Ring(n)
  BY <1>1, <1>2 DEF Ring
<1>4. Placed(r.buffer, n)
  BY <1>1, <1>2 DEF Placed, Ring
<1>5. r.missing \subseteq m
  BY <1>1
<1>6. ASSUME NEW i \in 0 .. n - 1, r.buffer[i] # None
      PROVE  b[i] # None /\ r.buffer[i].pkt.seq = b[i].pkt.seq
  BY <1>1, <1>2, <1>6
<1> QED BY <1>3, <1>4, <1>5, <1>6 DEF r

\* update_missing_packets keeps the numbers it remembers within their span.
LEMMA UpdatedMissingSpans ==
  ASSUME RingTypeOK, MissingSpan, NEW seq \in Num
  PROVE  /\ UpdatedNewest(seq) \in Num
         /\ UpdatedMissing(seq) \subseteq Num
         /\ Spans(UpdatedMissing(seq), UpdatedNewest(seq))
<1>1. UpdatedNewest(seq) \in Num /\ UpdatedMissing(seq) \subseteq Num
  BY DEF RingTypeOK, UpdatedNewest, UpdatedMissing, Skipped
<1>2. CASE newest = None
  <2>1. UpdatedMissing(seq) = {}
    BY <1>2 DEF UpdatedMissing, MissingSpan
  <2> QED BY <1>1, <2>1 DEF Spans
<1>3. CASE newest # None /\ AheadOf(seq, newest)
  <2>1. newest \in Num /\ Spans(missing, newest)
    BY <1>3 DEF RingTypeOK, MissingSpan, Spans
  <2>2. UpdatedNewest(seq) = seq
    BY <1>3 DEF UpdatedNewest
  <2>3. Spans(UpdatedMissing(seq), seq)
    BY <1>3, <2>1, SpanAdvances DEF UpdatedMissing, Skipped, RingTypeOK
  <2> QED BY <1>1, <2>2, <2>3
<1>4. CASE newest # None /\ ~ AheadOf(seq, newest)
  <2>1. Spans(missing, newest)
    BY <1>4 DEF MissingSpan, Spans
  <2>2. UpdatedNewest(seq) = newest /\ UpdatedMissing(seq) = missing \ {seq}
    BY <1>4 DEF UpdatedNewest, UpdatedMissing
  <2> QED BY <1>1, <2>1, <2>2, SpanShrinks
<1> QED BY <1>2, <1>3, <1>4
-----------------------------------------------------------------------------
\* The inductive invariant: types, the place of every packet, and the span of
\* the missing numbers.
IInv == RingTypeOK /\ SlotPlacement /\ MissingSpan

\* The empty ring of the constructor.
LEMMA InitEstablishes == Init => IInv
<1> SUFFICES ASSUME Init PROVE IInv
  OBVIOUS
<1>1. size \in StartSize .. MaxSize
  BY SizeAssumption DEF Init
<1>2. buffer = [i \in 0 .. size - 1 |-> None]
  BY DEF Init, EmptyBuffer
<1>3. buffer \in Ring(size)
  BY <1>2 DEF Ring
<1>4. 0 \in Num
  BY HalfFacts DEF Num
<1>5. RingTypeOK
  BY <1>1, <1>3, <1>4 DEF Init, RingTypeOK
<1>6. SlotPlacement /\ MissingSpan
  BY <1>2 DEF Init, SlotPlacement, Placed, MissingSpan
<1> QED BY <1>5, <1>6 DEF IInv

\* insert from line 64 on, on a well-formed ring with a free slot.
LEMMA StorePreserves ==
  ASSUME IInv, NEW p \in Packets, NEW n \in StartSize .. MaxSize,
         NEW b \in Ring(n), Placed(b, n), Store(p, b, n)
  PROVE  IInv'
<1>1. p \in Packet /\ p.seq \in Num /\ p.ts \in Nat /\ p.key \in BOOLEAN
  BY PacketsAssumption DEF Packet
<1> DEFINE kept  == IF p.bare THEN None ELSE [pkt |-> p, continuous |-> FALSE]
           b2    == [b EXCEPT ![Index(p.seq, n)] = kept]
           found == FindFrames(b2, n, UpdatedMissing(p.seq), p.seq)
<1>2. Index(p.seq, n) \in 0 .. n - 1
  BY <1>1, IndexType
<1>3. kept \in Entry \cup {None} /\ (kept # None => kept.pkt.seq = p.seq)
  BY <1>1 DEF Entry
<1> HIDE DEF kept
<1>4. b2 \in Ring(n) /\ Placed(b2, n)
  BY <1>2, <1>3 DEF Ring, Placed
<1> HIDE DEF b2
<1>5. /\ found.buffer \in Ring(n)
      /\ Placed(found.buffer, n)
      /\ found.missing \subseteq UpdatedMissing(p.seq)
  BY <1>4, FindFramesRing
<1>6. /\ UpdatedNewest(p.seq) \in Num
      /\ UpdatedMissing(p.seq) \subseteq Num
      /\ Spans(UpdatedMissing(p.seq), UpdatedNewest(p.seq))
  BY <1>1, UpdatedMissingSpans DEF IInv
<1>7. Spans(found.missing, UpdatedNewest(p.seq)) /\ found.missing \subseteq Num
  BY <1>5, <1>6, SpanShrinks
<1>8. /\ firstReceived' = TRUE
      /\ firstSeq' = NotedFirst(p.seq)
      /\ keyTs' = IF p.key THEN p.ts ELSE keyTs
      /\ newest' = UpdatedNewest(p.seq)
      /\ size' = n
      /\ buffer' = found.buffer
      /\ missing' = found.missing
  BY DEF Store, found, b2, kept
<1> HIDE DEF found
<1>9. firstSeq' \in Num /\ keyTs' \in Nat \cup {None}
  BY <1>1, <1>8 DEF IInv, RingTypeOK, NotedFirst
<1>10. newest' \in Num /\ newest' # None
  BY <1>6, <1>8, NoneAssumption, HalfFacts DEF Num
<1>11. RingTypeOK'
  BY <1>5, <1>7, <1>8, <1>9, <1>10 DEF RingTypeOK, Ring
<1>12. SlotPlacement'
  BY <1>5, <1>8 DEF SlotPlacement, Placed
<1>13. MissingSpan'
  BY <1>7, <1>8, <1>10 DEF MissingSpan, Spans
<1> QED BY <1>11, <1>12, <1>13 DEF IInv

\* Every path through insert, and pop_assembled_frame.
LEMMA NextPreserves == IInv /\ [Next]_vars => IInv'
<1> SUFFICES ASSUME IInv, [Next]_vars PROVE IInv'
  OBVIOUS
<1> USE DEF IInv
<1>1. ASSUME NEW p \in Packets, InsertDuplicate(p) PROVE IInv'
  <2>1. p.seq \in Num
    BY PacketsAssumption DEF Packet
  <2> QED
    BY <1>1, <2>1
    DEF InsertDuplicate, RingTypeOK, SlotPlacement, MissingSpan, NotedFirst
<1>2. ASSUME NEW p \in Packets, InsertIntoFreeSlot(p) PROVE IInv'
  BY <1>2, StorePreserves DEF InsertIntoFreeSlot, RingTypeOK, SlotPlacement
<1>3. ASSUME NEW p \in Packets, InsertAfterExpanding(p) PROVE IInv'
  BY <1>3, ExpandedRing, StorePreserves DEF InsertAfterExpanding
<1>4. ASSUME NEW p \in Packets, InsertClears(p) PROVE IInv'
  <2>1. p.seq \in Num
    BY PacketsAssumption DEF Packet
  <2>2. size' = ExpandedSize /\ size' \in StartSize .. MaxSize
    BY <1>4, ExpandedRing DEF InsertClears
  <2>3. /\ buffer' = [i \in 0 .. size' - 1 |-> None]
        /\ missing' = {} /\ newest' = None /\ firstReceived' = FALSE
        /\ firstSeq' = NotedFirst(p.seq) /\ keyTs' = keyTs
    BY <1>4, <2>2 DEF InsertClears, EmptyBuffer
  <2>4. RingTypeOK'
    BY <2>1, <2>2, <2>3 DEF RingTypeOK, Ring, NotedFirst
  <2>5. SlotPlacement' /\ MissingSpan'
    BY <2>3 DEF SlotPlacement, Placed, MissingSpan
  <2> QED BY <2>4, <2>5
<1>5. CASE PopAssembledFrame
  BY <1>5 DEF PopAssembledFrame, stream, RingTypeOK, SlotPlacement, MissingSpan
<1>6. CASE UNCHANGED vars
  BY <1>6 DEF vars, RingTypeOK, SlotPlacement, MissingSpan
<1> QED BY <1>1, <1>2, <1>3, <1>4, <1>5, <1>6 DEF Next, Insert

\* Ring, placement and missing numbers keep their shape through insert and
\* pop_assembled_frame (frame_assembler.cpp:23-125, 152-321).
THEOREM IInvHolds == Spec => []IInv
BY InitEstablishes, NextPreserves, PTL DEF Spec

\* The types of the ring and of the bookkeeping around it.
THEOREM RingTypeCorrect == Spec => []RingTypeOK
<1>1. IInv => RingTypeOK
  BY DEF IInv
<1> QED BY <1>1, IInvHolds, PTL

\* Every packet sits in the slot where every lookup searches it, through
\* insertions, moves out of the ring, expansions and clears.
THEOREM PacketsStayPlaced == Spec => []SlotPlacement
<1>1. IInv => SlotPlacement
  BY DEF IInv
<1> QED BY <1>1, IInvHolds, PTL

\* missing_packets_ keeps its span, and with it an ordered comparator, for any
\* numbers in any order.
THEOREM MissingStaysInSpan == Spec => []MissingSpan
<1>1. IInv => MissingSpan
  BY DEF IInv
<1> QED BY <1>1, IInvHolds, PTL

\* missing_packets_ always is a set that DescendingSeqNumComp orders, as the
\* warning at sequence_number_util.h:77-78 asks of whoever fills it.
THEOREM MissingStaysOrdered == Spec => []MissingOrdered
<1>1. IInv => MissingOrdered
  <2> SUFFICES ASSUME IInv PROVE OrderedBy(missing)
    BY DEF MissingOrdered
  <2>1. CASE missing = {}
    BY <2>1 DEF OrderedBy
  <2>2. CASE missing # {}
    <3>1. newest \in Num /\ missing \in SUBSET Num /\ Spans(missing, newest)
      BY <2>2 DEF IInv, RingTypeOK, MissingSpan
    <3> QED BY <3>1, SpanOrders
  <2> QED BY <2>1, <2>2
<1> QED BY <1>1, IInvHolds, PTL
-----------------------------------------------------------------------------
(***************************************************************************)
(* What find_frames finds (frame_assembler.cpp:127-287): an inductive      *)
(* invariant of the ring and its continuous flags, and from it that the    *)
(* walk back stays within one frame, that every frame handed out is whole  *)
(* and that none is overlooked, for every set of packets, every even       *)
(* modulus and every arrival order, duplicates, expansions and clearings   *)
(* included.                                                               *)
(*                                                                         *)
(* The walk goes from slot to slot and the flags speak of sequence         *)
(* numbers: the slot before that of s is the slot of Pred(s) for every s   *)
(* exactly when the size of the ring divides the cycle.  Regular says so.  *)
(* The initial size of 512 is regular and the final one of 1000 is not,    *)
(* so that the theorems about the walk speak of the ring before it has     *)
(* been expanded, and of every size a caller may choose that divides the   *)
(* cycle; what happens at 1000 is shown by the run FrameAssemblerUneven.   *)
(***************************************************************************)

\* The slots of n follow the sequence numbers around the cycle, and a ring that
\* has grown to n slots keeps its packets apart.
Regular(n) == n < M /\ M % n = 0 /\ n % StartSize = 0

\* The ring by sequence number.
At(b, n, s) == b[Index(s, n)]
Reached(b, n, s) == Holds(b, n, s) /\ At(b, n, s).continuous
Linked(b, n, s) == /\ Holds(b, n, Pred(s))
                   /\ At(b, n, Pred(s)).pkt.ts = At(b, n, s).pkt.ts

\* What find_frames relies on, and establishes: whatever is marked continuous
\* reaches back to a first packet; it is not the end of a frame, for that would
\* have been handed out; and no packet is left that could be marked.
ReachesFirst(b, n) ==
  \A s \in Num : Reached(b, n, s) /\ ~ At(b, n, s).pkt.first =>
                 Linked(b, n, s) /\ Reached(b, n, Pred(s))
NoEndWaits(b, n) == \A s \in Num : Reached(b, n, s) => ~ At(b, n, s).pkt.last
Overlooked(b, n) ==
  {s \in Num : /\ Holds(b, n, s) /\ ~ Reached(b, n, s)
               /\ \/ At(b, n, s).pkt.first
                  \/ Linked(b, n, s) /\ Reached(b, n, Pred(s))}

\* Counting in steps of the ring's size: quotient and remainder are unique.
LEMMA Remainder ==
  ASSUME NEW n \in Nat, n > 0, NEW k \in Int, NEW r \in 0 .. n - 1
  PROVE  (n * k + r) % n = r
BY Z3

\* Going back less than once around a ring whose size divides the modulus is
\* going back as many numbers.
LEMMA IndexBack ==
  ASSUME NEW n \in Nat, n > 0, M % n = 0, NEW s \in Num, NEW k \in 0 .. n - 1, n <= M
  PROVE  Index(Minus(s, k), n) = IF Index(s, n) >= k THEN Index(s, n) - k
                                 ELSE Index(s, n) - k + n
<1>1. s \in Nat /\ M \in Nat
  BY HalfFacts DEF Num
<1>2. PICK q \in Int, m \in Int, r \in 0 .. n - 1 :
        r = s % n /\ s = n * q + r /\ M = n * m
  <2>1. s \div n \in Int /\ s % n \in 0 .. n - 1 /\ s = n * (s \div n) + (s % n)
    BY <1>1
  <2>2. M \div n \in Int /\ M = n * (M \div n) + (M % n)
    BY <1>1
  <2>3. M = n * (M \div n)
    BY <1>1, <2>2
  <2> QED BY <2>1, <2>2, <2>3
<1>3. n * (q + m) = n * q + n * m /\ n * (q - 1) = n * q - n
      /\ n * (q + m - 1) = n * q + n * m - n
  OBVIOUS
<1>4. CASE r >= k
  <2>1. r - k \in 0 .. n - 1 /\ q + m \in Int
    BY <1>4
  <2>2. (n * q + (r - k)) % n = r - k /\ (n * (q + m) + (r - k)) % n = r - k
    BY <2>1, Remainder
  <2>3. Minus(s, k) = n * q + (r - k) \/ Minus(s, k) = n * (q + m) + (r - k)
    <3> DEFINE x == n * q
               y == n * m
    <3> HIDE DEF x, y
    <3> QED BY <1>1, <1>2, <1>3 DEF Minus, x, y
  <2> QED BY <1>2, <1>4, <2>2, <2>3 DEF Index
<1>5. CASE r < k
  <2>1. r - k + n \in 0 .. n - 1 /\ q + m - 1 \in Int /\ q - 1 \in Int
    BY <1>5
  <2>2. /\ (n * (q - 1) + (r - k + n)) % n = r - k + n
        /\ (n * (q + m - 1) + (r - k + n)) % n = r - k + n
    BY <2>1, Remainder
  <2>3. \/ Minus(s, k) = n * (q - 1) + (r - k + n)
        \/ Minus(s, k) = n * (q + m - 1) + (r - k + n)
    BY <1>1, <1>2, <1>3 DEF Minus
  <2> QED BY <1>2, <1>5, <2>2, <2>3 DEF Index
<1> QED BY <1>2, <1>4, <1>5

\* A ring size that divides the modulus, as numbers of the model.
LEMMA RegularFacts ==
  ASSUME NEW n \in StartSize .. MaxSize, Regular(n)
  PROVE  n \in Nat /\ n > 0 /\ n < M /\ M % n = 0
BY SizeFacts DEF Regular

\* Then the slot before that of a number is the slot of its predecessor.
LEMMA SlotBefore ==
  ASSUME NEW n \in StartSize .. MaxSize, Regular(n), NEW s \in Num
  PROVE  PrevIndex(Index(s, n), n) = Index(Pred(s), n)
<1>1. n \in Nat /\ n > 0 /\ n < M /\ M % n = 0
  BY RegularFacts
<1>2. Index(s, n) \in 0 .. n - 1 /\ Pred(s) \in Num
  BY IndexType, PlusMinusType, HalfFacts DEF Pred
<1>3. CASE n = 1
  BY <1>2, <1>3, IndexType DEF PrevIndex
<1>4. CASE n > 1
  <2>1. 1 \in 0 .. n - 1 /\ n <= M
    BY <1>1, <1>4, HalfFacts
  <2>2. Index(Minus(s, 1), n) = IF Index(s, n) >= 1 THEN Index(s, n) - 1
                                ELSE Index(s, n) - 1 + n
    BY <1>1, <2>1, IndexBack
  <2> QED BY <1>1, <1>2, <2>2 DEF PrevIndex, Pred
<1> QED BY <1>1, <1>3, <1>4

\* Once around the ring leads back to the slot.
LEMMA OnceAround ==
  ASSUME NEW n \in StartSize .. MaxSize, Regular(n), NEW s \in Num
  PROVE  Index(Minus(s, n), n) = Index(s, n)
<1>1. n \in Nat /\ n > 0 /\ n < M /\ M % n = 0
  BY RegularFacts
<1>2. Index(s, n) \in 0 .. n - 1 /\ n - 1 \in 0 .. M /\ n - 1 \in 0 .. n - 1 /\ n <= M
  BY <1>1, IndexType, HalfFacts
<1>3. Minus(s, n) = Pred(Minus(s, n - 1))
  BY <1>1, HalfFacts DEF Pred, Minus, Num
<1>4. Index(Minus(s, n - 1), n) = IF Index(s, n) >= n - 1 THEN Index(s, n) - (n - 1)
                                  ELSE Index(s, n) - (n - 1) + n
  BY <1>1, <1>2, IndexBack
<1>5. PrevIndex(Index(Minus(s, n - 1), n), n) = Index(s, n)
  BY <1>1, <1>2, <1>4 DEF PrevIndex
<1>6. Minus(s, n - 1) \in Num
  BY <1>2, PlusMinusType
<1> QED BY <1>3, <1>5, <1>6, SlotBefore

\* In a ring of twice the size a number is in the same slot, or that many
\* slots further.
LEMMA DoubledIndex ==
  ASSUME NEW n \in Nat, n > 0, NEW s \in Nat
  PROVE  Index(s, 2 * n) % n = Index(s, n)
<1>1. PICK q \in Int, r \in 0 .. 2 * n - 1 : r = s % (2 * n) /\ s = (2 * n) * q + r
  OBVIOUS
<1>2. PICK k \in Int, t \in 0 .. n - 1 : t = r % n /\ r = n * k + t
  OBVIOUS
<1>3. s = n * (2 * q + k) + t
  BY <1>1, <1>2
<1>4. s % n = t
  BY <1>3, Remainder
<1> QED BY <1>1, <1>2, <1>4 DEF Index

\* A walk over consecutive numbers, forwards from seq and back from its end.
LEMMA Steps ==
  ASSUME NEW seq \in Num, NEW j \in 0 .. M - 1
  PROVE  /\ Plus(seq, j) \in Num
         /\ \A k \in 0 .. M - 1 : /\ Minus(Plus(seq, j), k) \in Num
                                  /\ Pred(Minus(Plus(seq, j), k)) = Minus(Plus(seq, j), k + 1)
         /\ \A k \in 0 .. j : Minus(Plus(seq, j), k) = Plus(seq, j - k)
         /\ \A k, l \in 0 .. M - 1 :
              Minus(Plus(seq, j), k) = Minus(Plus(seq, j), l) => k = l
BY HalfFacts DEF Num, Plus, Minus, Pred

\* A non-empty set of naturals has a smallest element.
LEMMA SmallestIndex ==
  ASSUME NEW S \in SUBSET Nat, S # {}
  PROVE  Min(S) \in S /\ \A x \in S : Min(S) <= x
<1> DEFINE R == OpToRel(<, Nat)
<1>1. IsWellFoundedOn(R, Nat)
  BY NatLessThanWellFounded
<1>2. PICK t \in S : \A u \in S : ~ (<<u, t>> \in R)
  <2> HIDE DEF R
  <2> QED BY <1>1, WFMin
<1>3. \A u \in S : ~ (u < t)
  BY <1>2 DEF OpToRel
<1>4. \A u \in S : t <= u
  BY <1>3
<1> QED BY <1>4 DEF Min

\* The walk to the front of a frame stops at the nearest first packet, or at the
\* end of the ring.
LEMMA ReachFacts ==
  ASSUME NEW n \in StartSize .. MaxSize, Regular(n), NEW b, NEW end \in Num
  PROVE  LET R == FrameReach(b, n, end)
         IN  /\ R \in 0 .. n - 1
             /\ \A k \in 0 .. n - 1 : At(b, n, Minus(end, k)) # None /\ k < R =>
                  ~ At(b, n, Minus(end, k)).pkt.first
             /\ R = n - 1 \/ (/\ At(b, n, Minus(end, R)) # None
                              /\ At(b, n, Minus(end, R)).pkt.first)
<1> DEFINE back(k) == IF Index(end, n) >= k THEN Index(end, n) - k ELSE Index(end, n) - k + n
           S == {n - 1} \cup {k \in 0 .. n - 1 : b[back(k)] # None /\ b[back(k)].pkt.first}
           R == FrameReach(b, n, end)
<1>1. n \in Nat /\ n > 0 /\ n < M /\ M % n = 0
  BY RegularFacts
<1>2. ASSUME NEW k \in 0 .. n - 1 PROVE b[back(k)] = At(b, n, Minus(end, k))
  <2>1. n <= M
    BY <1>1, HalfFacts
  <2> QED BY <1>1, <2>1, IndexBack DEF At
<1>3. R = Min(S)
  BY DEF FrameReach
<1>4. S \in SUBSET Nat /\ S # {} /\ \A x \in S : x \in 0 .. n - 1
  BY <1>1
<1>5. R \in S /\ \A x \in S : R <= x
  BY <1>3, <1>4, SmallestIndex
<1>6. \A k \in 0 .. n - 1 : b[back(k)] # None /\ k < R => ~ b[back(k)].pkt.first
  <2> SUFFICES ASSUME NEW k \in 0 .. n - 1, b[back(k)] # None, k < R, b[back(k)].pkt.first
               PROVE  FALSE
    OBVIOUS
  <2>1. k \in S
    OBVIOUS
  <2> QED BY <1>4, <1>5, <2>1
<1>7. R = n - 1 \/ (b[back(R)] # None /\ b[back(R)].pkt.first)
  BY <1>5
<1> HIDE DEF back, R, S
<1> QED BY <1>2, <1>4, <1>5, <1>6, <1>7 DEF R

\* The loop of find_frames visits consecutive numbers, each of them held.
LEMMA VisitedFacts ==
  ASSUME NEW n \in StartSize .. MaxSize, n < M, NEW b, NEW seq \in Num,
         NEW j \in Visited(b, n, seq)
  PROVE  /\ j \in 0 .. n - 1 /\ j \in 0 .. M - 1
         /\ PotentialNewFrame(b, n, seq)
         /\ \A i \in 1 .. j : PotentialNewFrameAfterPred(b, n, Plus(seq, i))
         /\ \A i \in 0 .. j : i \in Visited(b, n, seq) /\ Holds(b, n, Plus(seq, i))
<1>1. /\ j \in 0 .. n - 1 /\ PotentialNewFrame(b, n, seq)
      /\ \A i \in 1 .. j : PotentialNewFrameAfterPred(b, n, Plus(seq, i))
  BY DEF Visited
<1>2. j \in 0 .. M - 1
  BY <1>1, SizeFacts, HalfFacts
<1>3. ASSUME NEW i \in 0 .. j PROVE i \in Visited(b, n, seq)
  BY <1>1, SizeFacts DEF Visited
<1>4. ASSUME NEW i \in 0 .. j PROVE Holds(b, n, Plus(seq, i))
  <2>1. CASE i = 0
    <3>1. Plus(seq, 0) = seq
      BY HalfFacts DEF Plus, Num
    <3> QED BY <1>1, <2>1, <3>1 DEF PotentialNewFrame
  <2>2. CASE i # 0
    <3>1. i \in 1 .. j
      BY <1>1, <2>2
    <3> QED BY <1>1, <3>1 DEF PotentialNewFrameAfterPred
  <2> QED BY <2>1, <2>2
<1> QED BY <1>1, <1>2, <1>3, <1>4

\* The test of the slot before is a test of the preceding number.
LEMMA FollowsIsLinked ==
  ASSUME NEW n \in StartSize .. MaxSize, Regular(n), NEW b, NEW s \in Num
  PROVE  /\ FollowsInFrame(b, n, s) <=> Linked(b, n, s)
         /\ b[PrevIndex(Index(s, n), n)] = At(b, n, Pred(s))
         /\ Pred(s) \in Num
<1>1. Pred(s) \in Num
  BY PlusMinusType, HalfFacts DEF Pred
<1>2. PrevIndex(Index(s, n), n) = Index(Pred(s), n)
  BY SlotBefore
<1> QED BY <1>1, <1>2 DEF FollowsInFrame, Linked, Holds, At

\* One step of the walk back from the end of a frame: a packet that is not the
\* first one was linked to its predecessor when it was visited, or marked.
LEMMA WalkStep ==
  ASSUME NEW n \in StartSize .. MaxSize, Regular(n), NEW b, ReachesFirst(b, n),
         NEW seq \in Num, NEW j \in Visited(b, n, seq), NEW k \in 0 .. n - 1,
         ~ At(b, n, Minus(Plus(seq, j), k)).pkt.first,
         k > j => Reached(b, n, Minus(Plus(seq, j), k))
  PROVE  /\ Linked(b, n, Minus(Plus(seq, j), k))
         /\ k >= j => Reached(b, n, Minus(Plus(seq, j), k + 1))
<1> DEFINE end == Plus(seq, j)
           s == Minus(end, k)
<1>1. n \in Nat /\ n > 0 /\ n < M /\ M \in Nat
  BY RegularFacts, HalfFacts
<1>2. /\ j \in 0 .. n - 1 /\ j \in 0 .. M - 1 /\ PotentialNewFrame(b, n, seq)
      /\ \A i \in 1 .. j : PotentialNewFrameAfterPred(b, n, Plus(seq, i))
  BY <1>1, VisitedFacts
<1>3. k \in 0 .. M - 1
  BY <1>1
<1>4. s \in Num /\ Pred(s) = Minus(end, k + 1)
  BY <1>2, <1>3, Steps
<1>5. k <= j => s = Plus(seq, j - k)
  BY <1>2, Steps
<1> HIDE DEF s, end
<1>6. ~ At(b, n, s).pkt.first
  BY DEF s, end
<1>7. CASE k < j
  <2>1. j - k \in 1 .. j /\ s = Plus(seq, j - k)
    BY <1>2, <1>5, <1>7
  <2>2. PotentialNewFrameAfterPred(b, n, s)
    BY <1>2, <2>1
  <2>3. FollowsInFrame(b, n, s)
    BY <2>2, <1>6 DEF PotentialNewFrameAfterPred, At
  <2> QED BY <1>2, <1>4, <1>7, <2>3, FollowsIsLinked DEF s, end
<1>8. CASE k = j
  <2>1. s = seq
    <3>1. s = Plus(seq, 0)
      BY <1>2, <1>5, <1>8
    <3> QED BY <3>1, HalfFacts DEF Plus, Num
  <2>2. FollowsInFrame(b, n, s) /\ b[PrevIndex(Index(s, n), n)].continuous
    BY <1>2, <1>6, <2>1 DEF PotentialNewFrame, At
  <2>3. Linked(b, n, s) /\ At(b, n, Pred(s)).continuous
    BY <1>4, <2>2, FollowsIsLinked
  <2> QED BY <1>4, <2>3 DEF Linked, Reached, s, end
<1>9. CASE k > j
  <2>1. Linked(b, n, s) /\ Reached(b, n, Pred(s))
    BY <1>4, <1>6, <1>9 DEF ReachesFirst, s, end
  <2> QED BY <1>4, <2>1 DEF s, end
<1> QED BY <1>2, <1>7, <1>8, <1>9

\* The walk back from a visited end stays within its frame: every number up to
\* the first packet is held, and linked to the next.
LEMMA WalkBack ==
  ASSUME NEW n \in StartSize .. MaxSize, Regular(n), NEW b, ReachesFirst(b, n),
         NEW seq \in Num, NEW j \in Visited(b, n, seq)
  PROVE  LET end == Plus(seq, j)
             R   == FrameReach(b, n, end)
         IN  /\ end \in Num /\ R \in 0 .. n - 1
             /\ \A k \in 0 .. R : /\ Holds(b, n, Minus(end, k))
                                  /\ k > j => Reached(b, n, Minus(end, k))
                                  /\ At(b, n, Minus(end, k)).pkt.first <=> k = R
                                  /\ k < R => Linked(b, n, Minus(end, k))
<1> DEFINE end == Plus(seq, j)
           R == FrameReach(b, n, end)
           P(k) == /\ Holds(b, n, Minus(end, k))
                   /\ k > j => Reached(b, n, Minus(end, k))
           S == {k \in 0 .. R : ~ P(k)}
<1>1. n \in Nat /\ n > 0 /\ n < M /\ M \in Nat
  BY RegularFacts, HalfFacts
<1>2. j \in 0 .. n - 1 /\ j \in 0 .. M - 1 /\ Holds(b, n, end)
  <2>1. j \in 0 .. n - 1 /\ j \in 0 .. M - 1
        /\ \A i \in 0 .. j : Holds(b, n, Plus(seq, i))
    BY <1>1, VisitedFacts
  <2> QED BY <2>1
<1>3. end \in Num /\ \A k \in 0 .. M - 1 : /\ Minus(end, k) \in Num
                                           /\ Pred(Minus(end, k)) = Minus(end, k + 1)
  BY <1>2, Steps
<1> HIDE DEF end, R
<1>4. /\ R \in 0 .. n - 1
      /\ \A k \in 0 .. n - 1 : At(b, n, Minus(end, k)) # None /\ k < R =>
           ~ At(b, n, Minus(end, k)).pkt.first
      /\ R = n - 1 \/ At(b, n, Minus(end, R)).pkt.first
  BY <1>3, ReachFacts DEF R
<1>5. ASSUME NEW k \in 0 .. n - 1, P(k), ~ At(b, n, Minus(end, k)).pkt.first
      PROVE  Linked(b, n, Minus(end, k)) /\ P(k + 1)
  <2>1. /\ Linked(b, n, Minus(end, k))
        /\ k >= j => Reached(b, n, Minus(end, k + 1))
    BY <1>5, WalkStep DEF end
  <2>2. k \in 0 .. M - 1
    BY <1>1
  <2>3. Holds(b, n, Minus(end, k + 1))
    BY <1>3, <2>1, <2>2 DEF Linked
  <2>4. k + 1 > j => k >= j
    BY <1>2
  <2> QED BY <2>1, <2>3, <2>4
<1>6. P(0)
  BY <1>2, <1>3, HalfFacts DEF Minus, Num
<1>7. ASSUME NEW k \in 0 .. n - 1, P(k), k < R
      PROVE  ~ At(b, n, Minus(end, k)).pkt.first
  BY <1>4, <1>7 DEF Holds, At
<1>8. S = {}
  <2> SUFFICES ASSUME S # {} PROVE FALSE
    OBVIOUS
  <2>1. S \in SUBSET Nat
    BY <1>4
  <2>2. PICK k \in S : \A x \in S : k <= x
    <3> HIDE DEF S
    <3> QED BY <2>1, SmallestIndex
  <2>3. k \in 0 .. R /\ ~ P(k)
    OBVIOUS
  <2> HIDE DEF P
  <2>4. k # 0 /\ k - 1 \in 0 .. R /\ k - 1 < R /\ k - 1 \in 0 .. n - 1 /\ k - 1 + 1 = k
    BY <2>3, <1>4, <1>6
  <2>5. P(k - 1)
    <3> SUFFICES ASSUME ~ P(k - 1) PROVE FALSE
      OBVIOUS
    <3>1. k - 1 \in S
      BY <2>4
    <3>2. k <= k - 1
      BY <2>2, <3>1
    <3> QED BY <2>3, <1>4, <3>2
  <2> QED BY <1>5, <1>7, <2>3, <2>4, <2>5
<1>9. At(b, n, Minus(end, R)).pkt.first
  <2> SUFFICES ASSUME R = n - 1, ~ At(b, n, Minus(end, R)).pkt.first PROVE FALSE
    BY <1>4
  <2>1. P(R)
    BY <1>4, <1>8
  <2>2. P(R + 1) /\ R + 1 = n
    BY <1>4, <1>5, <2>1
  <2>3. Holds(b, n, Minus(end, n))
    BY <2>2
  <2>4. Minus(end, n) = end
    BY <1>2, <1>3, <2>3, OnceAround DEF Holds
  <2> QED BY <1>1, <1>3, <2>4, HalfFacts DEF Minus, Num
<1>10. ASSUME NEW k \in 0 .. R
       PROVE  /\ P(k)
              /\ At(b, n, Minus(end, k)).pkt.first <=> k = R
              /\ k < R => Linked(b, n, Minus(end, k))
  <2>1. P(k) /\ k \in 0 .. n - 1
    BY <1>4, <1>8
  <2> HIDE DEF P
  <2>2. CASE k = R
    BY <1>9, <2>1, <2>2, <1>4
  <2>3. CASE k < R
    BY <1>5, <1>7, <2>1, <2>3, <1>4
  <2> QED BY <2>2, <2>3, <1>4
<1> QED BY <1>3, <1>4, <1>10 DEF end, R

\* Stepping back and forth between neighbours.
LEMMA Neighbours ==
  ASSUME NEW s \in Num, NEW e \in Num
  PROVE  /\ Pred(s) \in Num
         /\ \A v \in 0 .. M - 2 : Pred(s) = Plus(e, v) => s = Plus(e, v + 1)
         /\ \A v \in 1 .. M - 1 : s = Plus(e, v) => Pred(s) = Plus(e, v - 1)
         /\ \A k \in 1 .. M - 1 : Pred(s) = Minus(e, k) => s = Minus(e, k - 1)
         /\ Minus(e, 0) = e /\ Plus(e, 0) = e
BY HalfFacts DEF Num, Plus, Minus, Pred

\* What the loop of find_frames visits, marks and hands out when neither the
\* assertion nor the variant stops it.
Ends(b, n, seq) == {j \in Visited(b, n, seq) : At(b, n, Plus(seq, j)).pkt.last}
Marked(b, n, seq) == {Plus(seq, j) : j \in Visited(b, n, seq)}
Taken(b, n, seq) == UNION {FrameSeqs(b, n, Plus(seq, j)) : j \in Ends(b, n, seq)}

\* A slot that holds e, once find_frames is through with it.
FramesOf(b, n, seq, s) == {j \in Ends(b, n, seq) : s \in FrameSeqs(b, n, Plus(seq, j))}
ContinuousAfter(b, n, seq, e) == e.continuous \/ e.pkt.seq \in Marked(b, n, seq)
SlotAfter(b, n, seq, e) ==
  LET frames == FramesOf(b, n, seq, e.pkt.seq)
  IN  IF frames = {} THEN [e EXCEPT !.continuous = ContinuousAfter(b, n, seq, e)]
      ELSE IF MovedFrom = "empty" THEN None
      ELSE [pkt |-> HandedOut(b, n, Plus(seq, Max(frames)), e.pkt.seq),
            continuous |-> ContinuousAfter(b, n, seq, e)]
RingAfter(b, n, seq) ==
  [i \in 0 .. n - 1 |-> IF b[i] = None THEN None ELSE SlotAfter(b, n, seq, b[i])]

\* The assertion on the walk holds for every end that is visited.
LEMMA WalkAsserts ==
  ASSUME NEW n \in StartSize .. MaxSize, Regular(n), NEW b, ReachesFirst(b, n),
         NEW seq \in Num, NEW j \in Visited(b, n, seq)
  PROVE  AssertHolds(b, n, Plus(seq, j))
<1>1. LET R == FrameReach(b, n, Plus(seq, j))
      IN  \A k \in 0 .. R : Holds(b, n, Minus(Plus(seq, j), k))
  BY WalkBack
<1> QED BY <1>1 DEF AssertHolds, FrameSeqs

\* find_frames on such a ring.
LEMMA Found ==
  ASSUME NEW n \in StartSize .. MaxSize, Regular(n), NEW b, ReachesFirst(b, n),
         NEW m, NEW seq \in Num
  PROVE  LET r == FindFrames(b, n, m, seq)
         IN  /\ r.failure # "assert"
             /\ r.failure = "none" => r.buffer = RingAfter(b, n, seq)
<1> DEFINE visited == Visited(b, n, seq)
           ends    == {j \in visited : b[Index(Plus(seq, j), n)].pkt.last}
           fatal   == {j \in ends : H264 \/ ~ AssertHolds(b, n, Plus(seq, j))}
           done    == {j \in ends : \A f \in fatal : j < f}
           marked  == {Plus(seq, j) : j \in {v \in visited : \A f \in fatal : v <= f}}
           fo(s) == {j \in done : s \in FrameSeqs(b, n, Plus(seq, j))}
           sl(e) ==
             LET s == e.pkt.seq
                 c == e.continuous \/ s \in marked
             IN  IF fo(s) = {} THEN [e EXCEPT !.continuous = c]
                 ELSE IF MovedFrom = "empty" THEN None
                 ELSE [pkt |-> HandedOut(b, n, Plus(seq, Max(fo(s))), s),
                       continuous |-> c]
           r == FindFrames(b, n, m, seq)
<1>1. /\ r.buffer = [i \in 0 .. n - 1 |-> IF b[i] = None THEN None ELSE sl(b[i])]
      /\ r.failure = IF fatal = {} THEN "none"
                     ELSE IF H264 THEN "bad_variant_access" ELSE "assert"
  BY DEF FindFrames
<1>2. H264 \/ fatal = {}
  BY WalkAsserts
<1>3. ends = Ends(b, n, seq)
  BY DEF Ends, At
<1>4. fatal = {} => done = Ends(b, n, seq) /\ marked = Marked(b, n, seq)
  BY <1>3 DEF Marked
<1>5. r.failure # "assert" /\ (r.failure = "none" => fatal = {})
  <2> HIDE DEF fatal, r
  <2> QED BY <1>1, <1>2
<1>6. ASSUME fatal = {}, NEW e PROVE sl(e) = SlotAfter(b, n, seq, e)
  <2>1. \A s : fo(s) = FramesOf(b, n, seq, s)
    BY <1>4, <1>6 DEF FramesOf
  <2> HIDE DEF fo
  <2>2. e.continuous \/ e.pkt.seq \in marked <=> ContinuousAfter(b, n, seq, e)
    BY <1>4, <1>6 DEF ContinuousAfter
  <2> HIDE DEF fatal, done, marked
  <2> QED BY <2>1, <2>2 DEF SlotAfter, ContinuousAfter
<1> HIDE DEF fatal, done, marked, fo, sl, r
<1>7. fatal = {} => r.buffer = RingAfter(b, n, seq)
  BY <1>1, <1>6 DEF RingAfter
<1> QED BY <1>5, <1>7 DEF r

\* Without the codec nothing stops the loop.
LEMMA FoundWithoutCodec ==
  ASSUME NEW n \in StartSize .. MaxSize, Regular(n), NEW b, ReachesFirst(b, n),
         NEW m, NEW seq \in Num, H264 = FALSE
  PROVE  FindFrames(b, n, m, seq).failure = "none"
<1>1. {j \in {i \in Visited(b, n, seq) : b[Index(Plus(seq, i), n)].pkt.last} :
         H264 \/ ~ AssertHolds(b, n, Plus(seq, j))} = {}
  BY WalkAsserts
<1> QED BY <1>1 DEF FindFrames

\* Handing a packet out with its frame does not change which packet is first.
LEMMA HandedOutFirst ==
  ASSUME NEW n \in StartSize .. MaxSize, Regular(n), NEW b \in Ring(n), ReachesFirst(b, n),
         NEW seq \in Num, NEW j \in Visited(b, n, seq),
         NEW s \in FrameSeqs(b, n, Plus(seq, j))
  PROVE  LET h == HandedOut(b, n, Plus(seq, j), s)
         IN  /\ At(b, n, s) \in Entry /\ s \in Num
             /\ h \in Packet /\ h.id = At(b, n, s).pkt.id /\ h.seq = s
             /\ h.ts = At(b, n, s).pkt.ts /\ h.first = At(b, n, s).pkt.first
<1> DEFINE end == Plus(seq, j)
           R == FrameReach(b, n, end)
           p == At(b, n, s).pkt
           f == (s = Minus(end, R))
           l == (s = end)
<1>1. n \in Nat /\ n > 0 /\ n < M /\ M \in Nat
  BY RegularFacts, HalfFacts
<1>2. end \in Num /\ R \in 0 .. n - 1
      /\ \A k \in 0 .. R : /\ Holds(b, n, Minus(end, k))
                           /\ At(b, n, Minus(end, k)).pkt.first <=> k = R
  BY WalkBack
<1>3. PICK k \in 0 .. R : s = Minus(end, k)
  BY DEF FrameSeqs
<1>4. k \in 0 .. M - 1 /\ R \in 0 .. M - 1
  BY <1>1, <1>2
<1>5. s \in Num /\ (f <=> k = R)
  <2>1. j \in 0 .. M - 1
    BY <1>1, VisitedFacts
  <2> HIDE DEF R
  <2>2. Minus(end, k) \in Num /\ (Minus(end, k) = Minus(end, R) => k = R)
    BY <1>4, <2>1, Steps
  <2> HIDE DEF end
  <2> QED BY <1>3, <2>2
<1>6. At(b, n, s) \in Entry /\ p.seq = s /\ (p.first <=> k = R)
  <2>1. Index(s, n) \in 0 .. n - 1
    BY <1>5, IndexType
  <2> QED BY <1>2, <1>3, <2>1 DEF Holds, At, Ring
<1>7. f \in BOOLEAN /\ l \in BOOLEAN /\ HandedOut(b, n, end, s) = [p EXCEPT !.first = f, !.last = l]
  BY DEF HandedOut, At
<1>8. p \in Packet
  BY <1>6 DEF Entry
<1>9. f = p.first
  <2>1. p.first \in BOOLEAN
    BY <1>8 DEF Packet
  <2> HIDE DEF f, p
  <2> QED BY <1>5, <1>6, <1>7, <2>1
<1> HIDE DEF f, l, p, end
<1>10. /\ HandedOut(b, n, end, s) \in Packet
       /\ HandedOut(b, n, end, s).id = p.id
       /\ HandedOut(b, n, end, s).seq = p.seq
       /\ HandedOut(b, n, end, s).ts = p.ts
       /\ HandedOut(b, n, end, s).first = f
  BY <1>7, <1>8 DEF Packet
<1> QED BY <1>5, <1>6, <1>9, <1>10 DEF end, p

\* What find_frames does to one number of the ring.
LEMMA FoundAt ==
  ASSUME NEW n \in StartSize .. MaxSize, Regular(n), NEW b \in Ring(n), Placed(b, n),
         ReachesFirst(b, n), NEW m, NEW seq \in Num,
         FindFrames(b, n, m, seq).failure = "none", NEW s \in Num
  PROVE  LET c == FindFrames(b, n, m, seq).buffer
         IN  /\ Holds(c, n, s) =>
                  /\ Holds(b, n, s)
                  /\ At(c, n, s).pkt.ts = At(b, n, s).pkt.ts
                  /\ At(c, n, s).pkt.id = At(b, n, s).pkt.id
                  /\ At(c, n, s).pkt.first = At(b, n, s).pkt.first
                  /\ At(c, n, s).continuous <=>
                       At(b, n, s).continuous \/ s \in Marked(b, n, seq)
                  /\ MovedFrom = "empty" =>
                       s \notin Taken(b, n, seq) /\ At(c, n, s).pkt = At(b, n, s).pkt
             /\ Holds(b, n, s) =>
                  \/ Holds(c, n, s)
                  \/ MovedFrom = "empty" /\ s \in Taken(b, n, seq)
<1> DEFINE c == FindFrames(b, n, m, seq).buffer
           i == Index(s, n)
           e == b[i]
           fo(t) == FramesOf(b, n, seq, t)
           cont(x) == ContinuousAfter(b, n, seq, x)
           h(x) == HandedOut(b, n, Plus(seq, Max(fo(x.pkt.seq))), x.pkt.seq)
           slot(x) == SlotAfter(b, n, seq, x)
<1>1. n \in Nat /\ n > 0 /\ n < M /\ i \in 0 .. n - 1
  BY RegularFacts, IndexType
<1>2. c = [k \in 0 .. n - 1 |-> IF b[k] = None THEN None ELSE slot(b[k])]
  BY Found DEF RingAfter
<1>3. At(c, n, s) = IF e = None THEN None ELSE slot(e)
  BY <1>1, <1>2 DEF At
<1>4. CASE e = None
  BY <1>3, <1>4 DEF Holds, At
<1>5. CASE e # None /\ e.pkt.seq # s
  <2>1. FindFrames(b, n, m, seq).buffer \in Ring(n) /\ Placed(FindFrames(b, n, m, seq).buffer, n)
    BY FindFramesRing
  <2>2. slot(e) # None => slot(e).pkt.seq = e.pkt.seq
    <3>1. e \in Entry /\ Index(e.pkt.seq, n) = i
      BY <1>1, <1>5 DEF Ring, Placed
    <3>2. h(e).seq = e.pkt.seq
      BY <1>1, <3>1, HandedOutType
    <3> HIDE DEF h, fo, cont, e
    <3> QED BY <3>1, <3>2 DEF Entry, SlotAfter, h, fo, cont
  <2>3. ~ Holds(c, n, s) /\ ~ Holds(b, n, s)
    <3> HIDE DEF slot, c
    <3> QED BY <1>3, <1>5, <2>2 DEF Holds, At
  <2> QED BY <2>3
<1>6. CASE e # None /\ e.pkt.seq = s
  <2>1. e \in Entry /\ Holds(b, n, s) /\ e = At(b, n, s)
    BY <1>1, <1>6 DEF Ring, Holds, At
  <2>2. cont(e) \in BOOLEAN /\ (cont(e) <=> e.continuous \/ s \in Marked(b, n, seq))
    BY <1>6, <2>1 DEF Entry, ContinuousAfter
  <2>3. s \in Taken(b, n, seq) <=> fo(s) # {}
    BY DEF Taken, FramesOf
  <2>4. CASE fo(s) = {}
    <3>1. slot(e) = [e EXCEPT !.continuous = cont(e)]
      BY <1>6, <2>4 DEF SlotAfter
    <3> HIDE DEF slot, cont, fo, e
    <3>2. slot(e) \in Entry /\ slot(e).pkt = e.pkt /\ slot(e).continuous = cont(e)
      BY <2>1, <2>2, <3>1 DEF Entry
    <3>3. At(c, n, s) = slot(e) /\ slot(e) # None
      BY <1>3, <1>6, <3>2, NoneAssumption
    <3> HIDE DEF c
    <3> QED BY <1>6, <2>1, <2>2, <2>3, <2>4, <3>2, <3>3 DEF Holds, At, c
  <2>5. CASE fo(s) # {} /\ MovedFrom = "empty"
    <3>1. slot(e) = None
      BY <1>6, <2>5 DEF SlotAfter
    <3> HIDE DEF slot, cont, fo, e
    <3>2. ~ Holds(c, n, s)
      BY <1>3, <3>1 DEF Holds, At, c
    <3> QED BY <2>3, <2>5, <3>2
  <2>6. CASE fo(s) # {} /\ MovedFrom # "empty"
    <3>1. slot(e) = [pkt |-> h(e), continuous |-> cont(e)]
      BY <1>6, <2>6 DEF SlotAfter
    <3>2. fo(s) \in SUBSET (0 .. n - 1)
      BY DEF FramesOf, Ends, Visited
    <3>3. Max(fo(s)) \in fo(s)
      BY <1>1, <2>6, <3>2, LargestIndex
    <3>4. /\ h(e) \in Packet /\ h(e).seq = s /\ h(e).ts = e.pkt.ts /\ h(e).id = e.pkt.id
          /\ h(e).first = e.pkt.first
      <4>1. PICK j \in Visited(b, n, seq) : j = Max(fo(s)) /\ s \in FrameSeqs(b, n, Plus(seq, j))
        BY <3>3 DEF FramesOf, Ends
      <4>2. h(e) = HandedOut(b, n, Plus(seq, j), s)
        BY <1>6, <4>1
      <4> HIDE DEF h, e, fo
      <4> QED BY <2>1, <4>1, <4>2, HandedOutFirst
    <3> HIDE DEF slot, cont, fo, e, h
    <3>5. /\ slot(e) \in Entry /\ slot(e).pkt = h(e) /\ slot(e).continuous = cont(e)
      BY <2>2, <3>1, <3>4 DEF Entry
    <3>6. At(c, n, s) = slot(e) /\ slot(e) # None
      BY <1>3, <1>6, <3>5, NoneAssumption
    <3> HIDE DEF c
    <3> QED BY <2>1, <2>2, <2>6, <3>4, <3>5, <3>6 DEF Holds, At, c
  <2> QED BY <2>4, <2>5, <2>6
<1> QED BY <1>4, <1>5, <1>6

\* All three.  When moving a packet copies it, handed out ends stay in the ring.
WalkOK(b, n) ==
  /\ ReachesFirst(b, n)
  /\ MovedFrom = "empty" => NoEndWaits(b, n) /\ Overlooked(b, n) = {}

\* The ring after find_frames: nothing marked has lost its predecessor.
LEMMA FoundReachesFirst ==
  ASSUME NEW n \in StartSize .. MaxSize, Regular(n), NEW b \in Ring(n), Placed(b, n),
         ReachesFirst(b, n), MovedFrom = "empty" => NoEndWaits(b, n),
         NEW m, NEW seq \in Num, FindFrames(b, n, m, seq).failure = "none"
  PROVE  ReachesFirst(FindFrames(b, n, m, seq).buffer, n)
<1> DEFINE c == FindFrames(b, n, m, seq).buffer
<1> SUFFICES ASSUME NEW s \in Num, Reached(c, n, s), ~ At(c, n, s).pkt.first
             PROVE  Linked(c, n, s) /\ Reached(c, n, Pred(s))
  BY DEF ReachesFirst
<1>1. n \in Nat /\ n > 0 /\ n < M /\ M \in Nat /\ Pred(s) \in Num
  BY RegularFacts, HalfFacts, Neighbours
<1>2. \A t \in Num :
        /\ Holds(c, n, t) =>
             /\ Holds(b, n, t)
             /\ At(c, n, t).pkt.ts = At(b, n, t).pkt.ts
             /\ At(c, n, t).pkt.first = At(b, n, t).pkt.first
             /\ At(c, n, t).continuous <=>
                  At(b, n, t).continuous \/ t \in Marked(b, n, seq)
             /\ MovedFrom = "empty" => t \notin Taken(b, n, seq)
        /\ Holds(b, n, t) =>
             Holds(c, n, t) \/ (MovedFrom = "empty" /\ t \in Taken(b, n, seq))
  BY FoundAt
<1> HIDE DEF c
<1>3. /\ Holds(b, n, s) /\ ~ At(b, n, s).pkt.first
      /\ At(b, n, s).continuous \/ s \in Marked(b, n, seq)
      /\ MovedFrom = "empty" => s \notin Taken(b, n, seq)
  BY <1>2 DEF Reached
<1>4. /\ Linked(b, n, s)
      /\ At(b, n, Pred(s)).continuous \/ Pred(s) \in Marked(b, n, seq)
      /\ MovedFrom = "empty" => ~ At(b, n, Pred(s)).pkt.last
  <2>1. CASE At(b, n, s).continuous
    <3>1. Linked(b, n, s) /\ Reached(b, n, Pred(s))
      BY <1>3, <2>1 DEF ReachesFirst, Reached
    <3> QED BY <1>1, <3>1 DEF NoEndWaits, Reached
  <2>2. ASSUME NEW v \in Visited(b, n, seq), s = Plus(seq, v), v = 0
        PROVE  /\ Linked(b, n, s) /\ Reached(b, n, Pred(s))
    <3>1. s = seq /\ PotentialNewFrame(b, n, s)
      BY <2>2, <1>1, VisitedFacts, Neighbours
    <3> QED BY <3>1, <1>3, FollowsIsLinked DEF PotentialNewFrame, At, Linked, Reached
  <2>3. ASSUME NEW v \in Visited(b, n, seq), s = Plus(seq, v), v # 0
        PROVE  /\ Linked(b, n, s) /\ Pred(s) \in Marked(b, n, seq)
               /\ MovedFrom = "empty" => ~ At(b, n, Pred(s)).pkt.last
    <3>1. /\ v \in 0 .. M - 1 /\ \A i \in 1 .. v : PotentialNewFrameAfterPred(b, n, Plus(seq, i))
          /\ \A i \in 0 .. v : i \in Visited(b, n, seq)
      BY <1>1, VisitedFacts
    <3>2. v \in 1 .. M - 1 /\ v \in 1 .. v /\ v - 1 \in 0 .. v
      BY <2>3, <3>1
    <3>3. PotentialNewFrameAfterPred(b, n, s) /\ v - 1 \in Visited(b, n, seq)
      BY <2>3, <3>1, <3>2
    <3>4. Pred(s) = Plus(seq, v - 1)
      BY <2>3, <3>2, Neighbours
    <3> QED BY <1>3, <3>3, <3>4, FollowsIsLinked DEF PotentialNewFrameAfterPred, Marked, At
  <2>4. CASE s \in Marked(b, n, seq)
    <3>1. PICK v \in Visited(b, n, seq) : s = Plus(seq, v)
      BY <2>4 DEF Marked
    <3>2. CASE v = 0
      BY <2>2, <3>1, <3>2, <1>1 DEF NoEndWaits, Reached
    <3> QED BY <2>3, <3>1, <3>2
  <2> QED BY <1>3, <2>1, <2>4
<1>5. ASSUME MovedFrom = "empty", Pred(s) \in Taken(b, n, seq) PROVE FALSE
  <2>1. PICK j \in Ends(b, n, seq) : Pred(s) \in FrameSeqs(b, n, Plus(seq, j))
    BY <1>5 DEF Taken
  <2>2. j \in Visited(b, n, seq) /\ At(b, n, Plus(seq, j)).pkt.last
    BY DEF Ends
  <2> DEFINE end == Plus(seq, j)
             R == FrameReach(b, n, end)
  <2>3. end \in Num /\ R \in 0 .. n - 1
    BY <2>2, WalkBack
  <2>4. PICK k \in 0 .. R : Pred(s) = Minus(end, k)
    BY <2>1 DEF FrameSeqs
  <2> HIDE DEF end, R
  <2>5. k = 0 => Pred(s) = end
    BY <2>3, <2>4, Neighbours
  <2>6. k # 0 => s = Minus(end, k - 1) /\ k - 1 \in 0 .. R
    <3> SUFFICES ASSUME k # 0 PROVE s = Minus(end, k - 1) /\ k - 1 \in 0 .. R
      OBVIOUS
    <3>1. k \in 1 .. M - 1 /\ k - 1 \in 0 .. R
      BY <2>3, <1>1
    <3> QED BY <2>3, <2>4, <3>1, Neighbours
  <2>7. k # 0 => s \in Taken(b, n, seq)
    BY <2>2, <2>6 DEF Taken, FrameSeqs, Ends, end, R
  <2> QED BY <1>3, <1>4, <1>5, <2>2, <2>5, <2>7 DEF end
<1>6. Holds(b, n, Pred(s)) /\ At(b, n, Pred(s)).pkt.ts = At(b, n, s).pkt.ts
  BY <1>4 DEF Linked
<1>7. Holds(c, n, Pred(s))
  BY <1>1, <1>2, <1>5, <1>6
<1> QED BY <1>1, <1>2, <1>4, <1>6, <1>7 DEF Linked, Reached

\* The end of a frame that is marked is taken out with its frame.
LEMMA FoundTakesEnds ==
  ASSUME NEW n \in StartSize .. MaxSize, Regular(n), NEW b \in Ring(n), Placed(b, n),
         ReachesFirst(b, n), NoEndWaits(b, n), MovedFrom = "empty",
         NEW m, NEW seq \in Num, FindFrames(b, n, m, seq).failure = "none"
  PROVE  NoEndWaits(FindFrames(b, n, m, seq).buffer, n)
<1> DEFINE c == FindFrames(b, n, m, seq).buffer
<1> SUFFICES ASSUME NEW s \in Num, Reached(c, n, s), At(c, n, s).pkt.last PROVE FALSE
  BY DEF NoEndWaits
<1>1. /\ Holds(b, n, s) /\ At(b, n, s).pkt.last /\ s \notin Taken(b, n, seq)
      /\ At(b, n, s).continuous \/ s \in Marked(b, n, seq)
  BY FoundAt DEF Reached
<1>2. PICK j \in Visited(b, n, seq) : s = Plus(seq, j)
  BY <1>1 DEF NoEndWaits, Reached, Marked
<1>3. j \in Ends(b, n, seq)
  BY <1>1, <1>2 DEF Ends
<1>4. FrameReach(b, n, s) \in 0 .. n - 1 /\ s = Minus(s, 0)
  BY <1>2, WalkBack, Neighbours
<1>5. s \in FrameSeqs(b, n, s)
  BY <1>4 DEF FrameSeqs
<1> QED BY <1>1, <1>2, <1>3, <1>5 DEF Taken

\* The loop goes on as long as there is a number to mark: it overlooks none,
\* whatever waited behind the packet that was inserted.
LEMMA FoundOverlooksNone ==
  ASSUME NEW n \in StartSize .. MaxSize, Regular(n), NEW b \in Ring(n), Placed(b, n),
         ReachesFirst(b, n), MovedFrom = "empty",
         NEW m, NEW seq \in Num, FindFrames(b, n, m, seq).failure = "none",
         Overlooked(b, n) \subseteq {seq}
  PROVE  Overlooked(FindFrames(b, n, m, seq).buffer, n) = {}
<1> DEFINE c == FindFrames(b, n, m, seq).buffer
<1> SUFFICES ASSUME NEW s \in Num, Holds(c, n, s), ~ Reached(c, n, s),
                    \/ At(c, n, s).pkt.first
                    \/ Linked(c, n, s) /\ Reached(c, n, Pred(s))
             PROVE  FALSE
  BY DEF Overlooked
<1>1. n \in Nat /\ n > 0 /\ n < M /\ M \in Nat /\ Pred(s) \in Num
  BY RegularFacts, HalfFacts, Neighbours
<1>2. \A t \in Num :
        Holds(c, n, t) =>
             /\ Holds(b, n, t) /\ At(c, n, t).pkt = At(b, n, t).pkt
             /\ At(c, n, t).continuous <=>
                  At(b, n, t).continuous \/ t \in Marked(b, n, seq)
             /\ t \notin Taken(b, n, seq)
  BY FoundAt
<1> HIDE DEF c
<1>3. /\ Holds(b, n, s) /\ ~ Reached(b, n, s) /\ s \notin Marked(b, n, seq)
      /\ At(c, n, s).pkt = At(b, n, s).pkt
  BY <1>2 DEF Reached
<1>4. ASSUME PotentialNewFrame(b, n, s), s = seq PROVE FALSE
  <2>1. 0 \in Visited(b, n, seq)
    BY <1>1, <1>4 DEF Visited
  <2>2. Plus(seq, 0) = seq
    BY Neighbours
  <2>3. seq \in Marked(b, n, seq)
    BY <2>1, <2>2, Zenon DEF Marked
  <2> QED BY <1>3, <1>4, <2>3
<1>5. ~ At(b, n, s).pkt.first
  <2> SUFFICES ASSUME At(b, n, s).pkt.first PROVE FALSE
    OBVIOUS
  <2>1. s \in Overlooked(b, n)
    BY <1>3 DEF Overlooked
  <2>2. PotentialNewFrame(b, n, s)
    BY <1>3 DEF PotentialNewFrame, At
  <2> QED BY <1>4, <2>1, <2>2
<1>6. /\ Linked(b, n, s) /\ Pred(s) \notin Taken(b, n, seq)
      /\ Reached(b, n, Pred(s)) \/ Pred(s) \in Marked(b, n, seq)
  <2>1. Linked(c, n, s) /\ Holds(c, n, Pred(s)) /\ At(c, n, Pred(s)).continuous
    BY <1>3, <1>5 DEF Reached
  <2> QED BY <1>1, <1>2, <1>3, <2>1 DEF Linked, Reached
<1>7. ~ Reached(b, n, Pred(s))
  <2> SUFFICES ASSUME Reached(b, n, Pred(s)) PROVE FALSE
    OBVIOUS
  <2>1. s \in Overlooked(b, n)
    BY <1>3, <1>6 DEF Overlooked
  <2>2. PotentialNewFrame(b, n, s)
    BY <1>3, <1>6, FollowsIsLinked DEF PotentialNewFrame, Reached
  <2> QED BY <1>4, <2>1, <2>2
<1>8. PICK v \in Visited(b, n, seq) : Pred(s) = Plus(seq, v)
  BY <1>6, <1>7 DEF Marked
<1>9. /\ v \in 0 .. n - 1 /\ PotentialNewFrame(b, n, seq)
      /\ \A i \in 1 .. v : PotentialNewFrameAfterPred(b, n, Plus(seq, i))
  BY <1>1, VisitedFacts
<1>10. s = Plus(seq, v + 1)
  <2>1. v \in 0 .. M - 2
    BY <1>1, <1>9
  <2> QED BY <1>8, <2>1, Neighbours
<1>11. ~ At(b, n, Pred(s)).pkt.last
  <2> SUFFICES ASSUME At(b, n, Pred(s)).pkt.last PROVE FALSE
    OBVIOUS
  <2>1. v \in Ends(b, n, seq)
    BY <1>8 DEF Ends
  <2>2. FrameReach(b, n, Pred(s)) \in 0 .. n - 1 /\ Pred(s) = Minus(Pred(s), 0)
    BY <1>1, <1>8, WalkBack, Neighbours
  <2>3. Pred(s) \in FrameSeqs(b, n, Pred(s))
    BY <2>2 DEF FrameSeqs
  <2> QED BY <1>6, <1>8, <2>1, <2>3 DEF Taken
<1>12. PotentialNewFrameAfterPred(b, n, s)
  BY <1>3, <1>6, <1>11, FollowsIsLinked DEF PotentialNewFrameAfterPred
<1>13. CASE v < n - 1
  <2>1. v + 1 \in 0 .. n - 1 /\ \A i \in 1 .. v + 1 : i \in 1 .. v \/ i = v + 1
    BY <1>1, <1>9, <1>13
  <2>2. v + 1 \in Visited(b, n, seq)
    BY <1>9, <1>10, <1>12, <2>1 DEF Visited
  <2> QED BY <1>3, <1>10, <2>2 DEF Marked
<1>14. CASE v = n - 1
  <2>1. s = Plus(seq, n) /\ Minus(s, n) = seq /\ s # seq
    BY <1>1, <1>10, <1>14, HalfFacts DEF Plus, Minus, Num
  <2>2. Index(seq, n) = Index(s, n)
    BY <2>1, OnceAround
  <2> QED BY <1>3, <1>9, <2>1, <2>2 DEF PotentialNewFrame, Holds
<1> QED BY <1>1, <1>9, <1>13, <1>14

-----------------------------------------------------------------------------
\* The ring with the packet p put into a free slot.
Kept(p) == IF p.bare THEN None ELSE [pkt |-> p, continuous |-> FALSE]
WithPacket(b, n, p) == [b EXCEPT ![Index(p.seq, n)] = Kept(p)]

\* The new packet is the only one that may wait to be marked.
LEMMA InsertedWalk ==
  ASSUME NEW n \in StartSize .. MaxSize, NEW b \in Ring(n),
         WalkOK(b, n), NEW p \in Packets, b[Index(p.seq, n)] = None
  PROVE  LET d == WithPacket(b, n, p)
         IN  /\ p.seq \in Num /\ d \in Ring(n) /\ (Placed(b, n) => Placed(d, n))
             /\ \A t \in Num : /\ Holds(d, n, t) <=> Holds(b, n, t) \/ (t = p.seq /\ ~ p.bare)
                               /\ Holds(b, n, t) => At(d, n, t) = At(b, n, t)
             /\ ~ p.bare => At(d, n, p.seq) = Kept(p)
             /\ ReachesFirst(d, n)
             /\ MovedFrom = "empty" => NoEndWaits(d, n) /\ Overlooked(d, n) \subseteq {p.seq}
<1> DEFINE d == WithPacket(b, n, p)
<1>1. p \in Packet /\ p.seq \in Num /\ Index(p.seq, n) \in 0 .. n - 1
  BY PacketsAssumption, IndexType DEF Packet
<1>2. /\ Kept(p) \in Entry \cup {None} /\ (Kept(p) # None => Kept(p).pkt = p /\ ~ Kept(p).continuous)
      /\ Kept(p) = None <=> p.bare
  <2>1. CASE p.bare
    <3>1. Kept(p) = None
      BY <2>1 DEF Kept
    <3> QED BY <2>1, <3>1
  <2>2. CASE ~ p.bare
    <3>1. Kept(p) = [pkt |-> p, continuous |-> FALSE]
      BY <2>2 DEF Kept
    <3>2. Kept(p) \in Entry /\ Kept(p).pkt = p /\ ~ Kept(p).continuous
      BY <1>1, <3>1 DEF Entry
    <3> QED BY <2>2, <3>2, NoneAssumption
  <2> QED BY <2>1, <2>2
<1>3. d \in Ring(n) /\ (Placed(b, n) => Placed(d, n))
  BY <1>1, <1>2 DEF Ring, Placed, WithPacket
<1>4. ASSUME NEW t \in Num
      PROVE  /\ Holds(d, n, t) <=> Holds(b, n, t) \/ (t = p.seq /\ ~ p.bare)
             /\ Holds(b, n, t) => At(d, n, t) = At(b, n, t) /\ t # p.seq
             /\ Reached(d, n, t) <=> Reached(b, n, t)
  <2>1. Index(t, n) \in 0 .. n - 1
    BY IndexType
  <2>2. At(d, n, t) = IF Index(t, n) = Index(p.seq, n) THEN Kept(p) ELSE At(b, n, t)
    BY <1>1, <2>1 DEF WithPacket, At, Ring
  <2> HIDE DEF d
  <2> QED BY <1>2, <2>2 DEF Holds, At, Reached
<1>5. \A t \in Num : Pred(t) \in Num
  BY Neighbours
<1>6. ~ p.bare => At(d, n, p.seq) = Kept(p)
  BY <1>1 DEF At, WithPacket, Ring
<1> HIDE DEF d
<1>7. ReachesFirst(d, n)
  BY <1>4, <1>5 DEF WalkOK, ReachesFirst, Linked, Reached
<1>8. ASSUME MovedFrom = "empty" PROVE NoEndWaits(d, n) /\ Overlooked(d, n) \subseteq {p.seq}
  <2>1. NoEndWaits(d, n)
    BY <1>4, <1>8 DEF WalkOK, NoEndWaits, Reached
  <2>2. ASSUME NEW s \in Overlooked(d, n), s # p.seq PROVE FALSE
    <3>1. /\ s \in Num /\ Holds(d, n, s) /\ ~ Reached(d, n, s)
          /\ At(d, n, s).pkt.first \/ (Linked(d, n, s) /\ Reached(d, n, Pred(s)))
      BY DEF Overlooked
    <3>2. Holds(b, n, s) /\ ~ Reached(b, n, s) /\ At(d, n, s) = At(b, n, s)
      BY <1>4, <2>2, <3>1
    <3>3. Reached(d, n, Pred(s)) => Reached(b, n, Pred(s)) /\ At(d, n, Pred(s)) = At(b, n, Pred(s))
      BY <1>4, <1>5, <3>1 DEF Reached
    <3>4. s \in Overlooked(b, n)
      BY <3>1, <3>2, <3>3 DEF Overlooked, Linked, Reached
    <3> QED BY <1>8, <3>4 DEF WalkOK
  <2> QED BY <2>1, <2>2
<1> QED BY <1>1, <1>3, <1>4, <1>6, <1>7, <1>8 DEF d

\* Re-indexing into a ring of twice the size neither loses nor adds a packet.
LEMMA DoubledRing ==
  ASSUME RingTypeOK, SlotPlacement, ExpandedSize = 2 * size, NEW t \in Num
  PROVE  /\ Holds(ExpandedBuffer, ExpandedSize, t) <=> Holds(buffer, size, t)
         /\ Holds(buffer, size, t) =>
              At(ExpandedBuffer, ExpandedSize, t) = At(buffer, size, t)
<1> DEFINE n == ExpandedSize
           claims(i) == {j \in 0 .. size - 1 :
                           buffer[j] # None /\ Index(buffer[j].pkt.seq, n) = i}
<1>1. size \in Nat /\ size > 0 /\ n \in StartSize .. MaxSize /\ n = 2 * size
  BY ExpandedRing, SizeFacts DEF RingTypeOK
<1>2. ExpandedBuffer =
        [i \in 0 .. n - 1 |-> IF claims(i) = {} THEN None ELSE buffer[Max(claims(i))]]
  BY DEF ExpandedBuffer
<1>3. /\ Index(t, n) \in 0 .. n - 1 /\ Index(t, size) \in 0 .. size - 1
      /\ Index(t, n) % size = Index(t, size)
  <2>1. t \in Nat
    BY HalfFacts DEF Num
  <2> QED BY <1>1, <2>1, IndexType, DoubledIndex DEF RingTypeOK
<1>4. ASSUME NEW j \in claims(Index(t, n)) PROVE j = Index(t, size)
  <2>1. j \in 0 .. size - 1 /\ buffer[j] # None /\ Index(buffer[j].pkt.seq, n) = Index(t, n)
    OBVIOUS
  <2>2. buffer[j].pkt.seq \in Num /\ Index(buffer[j].pkt.seq, size) = j
    BY <2>1 DEF RingTypeOK, Ring, Entry, Packet, SlotPlacement, Placed
  <2>3. buffer[j].pkt.seq \in Nat
    BY <2>2, HalfFacts DEF Num
  <2>4. Index(buffer[j].pkt.seq, n) % size = j
    BY <1>1, <2>2, <2>3, DoubledIndex
  <2> QED BY <1>3, <2>1, <2>4
<1>5. claims(Index(t, n)) # {} => Max(claims(Index(t, n))) = Index(t, size)
  <2>1. claims(Index(t, n)) \in SUBSET (0 .. size - 1)
    OBVIOUS
  <2> HIDE DEF claims, n
  <2> QED BY <1>1, <1>4, <2>1, LargestIndex
<1>6. Index(t, size) \in claims(Index(t, n)) <=>
        buffer[Index(t, size)] # None /\ Index(buffer[Index(t, size)].pkt.seq, n) = Index(t, n)
  BY <1>3
<1>7. At(ExpandedBuffer, n, t) =
        IF claims(Index(t, n)) = {} THEN None ELSE At(buffer, size, t)
  BY <1>2, <1>3, <1>5 DEF At
<1> HIDE DEF claims, n
<1>8. CASE Holds(buffer, size, t)
  <2>1. claims(Index(t, n)) # {}
    BY <1>6, <1>8 DEF Holds
  <2> QED BY <1>7, <1>8, <2>1 DEF Holds, At, n
<1>9. CASE ~ Holds(buffer, size, t)
  BY <1>7, <1>9 DEF Holds, At, n
<1> QED BY <1>8, <1>9

\* The inductive invariant of the walk.  It claims nothing of a ring whose size
\* does not divide the modulus: there the neighbour of a slot is not always the
\* slot of the preceding number.
WalkInv ==
  /\ IInv
  /\ size \in {StartSize, MaxSize}
  /\ Regular(size) => /\ failure # "assert" /\ (H264 = FALSE => failure = "none")
                      /\ failure = "none" => WalkOK(buffer, size)

\* The constructor's ring is empty.
LEMMA WalkInit == Init => WalkInv
<1> SUFFICES ASSUME Init PROVE WalkInv
  OBVIOUS
<1>1. IInv /\ size = StartSize /\ failure = "none"
  BY InitEstablishes DEF Init
<1>2. \A i \in 0 .. size - 1 : buffer[i] = None
  BY <1>1 DEF Init, EmptyBuffer
<1>3. ASSUME NEW s \in Num PROVE ~ Holds(buffer, size, s)
  BY <1>1, <1>2, IndexType DEF IInv, RingTypeOK, Holds
<1>4. WalkOK(buffer, size)
  BY <1>3 DEF WalkOK, ReachesFirst, NoEndWaits, Overlooked, Reached
<1> QED BY <1>1, <1>4 DEF WalkInv

\* What insert stores, in terms of the ring with the packet in it.
LEMMA StoreFound ==
  ASSUME NEW p \in Packets, NEW n, NEW b, Store(p, b, n)
  PROVE  LET found == FindFrames(WithPacket(b, n, p), n, UpdatedMissing(p.seq), p.seq)
         IN  /\ size' = n /\ buffer' = found.buffer /\ missing' = found.missing
             /\ newest' = UpdatedNewest(p.seq)
             /\ assembled' = found.frames /\ failure' = found.failure
BY DEF Store, WithPacket, Kept

\* insert from line 64 on keeps the walk sound.
LEMMA StoreKeepsWalk ==
  ASSUME NEW p \in Packets, NEW n \in StartSize .. MaxSize, NEW b \in Ring(n),
         Placed(b, n), b[Index(p.seq, n)] = None, Regular(n), WalkOK(b, n), Store(p, b, n)
  PROVE  /\ failure' # "assert" /\ (H264 = FALSE => failure' = "none")
         /\ failure' = "none" => WalkOK(buffer', n)
<1> DEFINE d == WithPacket(b, n, p)
           m == UpdatedMissing(p.seq)
           found == FindFrames(d, n, m, p.seq)
<1>1. /\ p.seq \in Num /\ d \in Ring(n) /\ Placed(d, n) /\ ReachesFirst(d, n)
      /\ MovedFrom = "empty" => NoEndWaits(d, n) /\ Overlooked(d, n) \subseteq {p.seq}
  BY InsertedWalk
<1>2. buffer' = found.buffer /\ failure' = found.failure
  BY StoreFound
<1> HIDE DEF d, m
<1>3. found.failure # "assert" /\ (H264 = FALSE => found.failure = "none")
  <2>1. found.failure # "assert"
    BY <1>1, Found
  <2>2. ASSUME H264 = FALSE PROVE found.failure = "none"
    BY <1>1, <2>2, FoundWithoutCodec
  <2> QED BY <2>1, <2>2
<1>4. ASSUME found.failure = "none" PROVE WalkOK(found.buffer, n)
  <2>1. ReachesFirst(found.buffer, n)
    BY <1>1, <1>4, FoundReachesFirst
  <2>2. ASSUME MovedFrom = "empty"
        PROVE  NoEndWaits(found.buffer, n) /\ Overlooked(found.buffer, n) = {}
    BY <1>1, <1>4, <2>2, FoundTakesEnds, FoundOverlooksNone
  <2> QED BY <2>1, <2>2 DEF WalkOK
<1> QED BY <1>2, <1>3, <1>4

\* The ring grows at most once, to the maximum size.
LEMMA GrowsToMax ==
  ASSUME size \in {StartSize, MaxSize}
  PROVE  /\ ExpandedSize = MaxSize
         /\ Regular(MaxSize) => Regular(size) /\ (MaxSize = size \/ MaxSize = 2 * size)
<1>1. ExpandedSize = MaxSize
  BY SizeAssumption DEF ExpandedSize
<1>2. ASSUME Regular(MaxSize), size # MaxSize PROVE Regular(size) /\ MaxSize = 2 * size
  <2>1. size = StartSize /\ StartSize \in Nat /\ StartSize > 0 /\ MaxSize % StartSize = 0
        /\ StartSize < MaxSize /\ MaxSize <= 2 * StartSize /\ MaxSize \in Nat
    BY <1>2, SizeAssumption DEF Regular
  <2>2. MaxSize = 2 * StartSize
    <3>1. CASE MaxSize < 2 * StartSize
      <4>1. MaxSize - StartSize \in 0 .. StartSize - 1
        BY <2>1, <3>1
      <4>2. (StartSize * 1 + (MaxSize - StartSize)) % StartSize = MaxSize - StartSize
        BY <2>1, <4>1, Remainder
      <4> QED BY <2>1, <4>2
    <3> QED BY <2>1, <3>1
  <2>3. Index(M, 2 * StartSize) % StartSize = Index(M, StartSize)
    BY <2>1, DoubledIndex, HalfFacts
  <2>4. 0 % StartSize = 0 /\ StartSize % StartSize = 0
    BY <2>1
  <2> QED BY <1>2, <2>1, <2>2, <2>3, <2>4, HalfFacts DEF Index, Regular
<1> QED BY <1>1, <1>2

\* After expanding, the walk is as sound as before.
LEMMA DoubledWalk ==
  ASSUME WalkInv, failure = "none", Regular(ExpandedSize)
  PROVE  /\ ExpandedSize \in StartSize .. MaxSize /\ ExpandedBuffer \in Ring(ExpandedSize)
         /\ Placed(ExpandedBuffer, ExpandedSize)
         /\ size < MaxSize => WalkOK(ExpandedBuffer, ExpandedSize)
<1>1. RingTypeOK /\ SlotPlacement
  BY DEF WalkInv, IInv
<1>2. /\ ExpandedSize \in StartSize .. MaxSize /\ ExpandedBuffer \in Ring(ExpandedSize)
      /\ Placed(ExpandedBuffer, ExpandedSize)
  BY <1>1, ExpandedRing
<1>3. ASSUME size < MaxSize PROVE WalkOK(ExpandedBuffer, ExpandedSize)
  <2>1. size \in Nat
    BY <1>1, SizeFacts DEF RingTypeOK
  <2>2. Regular(size) /\ ExpandedSize = 2 * size
    BY <1>3, <2>1, GrowsToMax DEF WalkInv
  <2>3. WalkOK(buffer, size)
    BY <2>2 DEF WalkInv
  <2>4. ASSUME NEW t \in Num
        PROVE  /\ Holds(ExpandedBuffer, ExpandedSize, t) <=> Holds(buffer, size, t)
               /\ Holds(buffer, size, t) =>
                    At(ExpandedBuffer, ExpandedSize, t) = At(buffer, size, t)
               /\ Pred(t) \in Num
    BY <1>1, <2>2, DoubledRing, Neighbours
  <2>5. ASSUME NEW t \in Num
        PROVE  Reached(ExpandedBuffer, ExpandedSize, t) <=> Reached(buffer, size, t)
    BY <2>4 DEF Reached
  <2>6. ReachesFirst(ExpandedBuffer, ExpandedSize)
    BY <2>3, <2>4, <2>5 DEF WalkOK, ReachesFirst, Linked, Reached
  <2>7. MovedFrom = "empty" => NoEndWaits(ExpandedBuffer, ExpandedSize)
    BY <2>3, <2>4, <2>5 DEF WalkOK, NoEndWaits, Reached
  <2>8. Overlooked(ExpandedBuffer, ExpandedSize) \subseteq Overlooked(buffer, size)
    BY <2>4, <2>5 DEF Overlooked, Linked
  <2> QED BY <2>3, <2>6, <2>7, <2>8 DEF WalkOK
<1> QED BY <1>2, <1>3

\* Every path through insert, and pop_assembled_frame.
LEMMA WalkNext == WalkInv /\ [Next]_vars => WalkInv'
<1> SUFFICES ASSUME WalkInv, [Next]_vars PROVE WalkInv'
  OBVIOUS
<1>1. IInv'
  BY NextPreserves DEF WalkInv
<1>2. RingTypeOK /\ SlotPlacement
  BY DEF WalkInv, IInv
<1>3. CASE UNCHANGED <<size, buffer, failure>>
  BY <1>1, <1>3 DEF WalkInv
<1>4. ASSUME NEW p \in Packets, InsertIntoFreeSlot(p) PROVE WalkInv'
  <2>1. /\ failure = "none" /\ Store(p, buffer, size) /\ buffer[Index(p.seq, size)] = None
        /\ size' = size
    BY <1>4, StoreFound DEF InsertIntoFreeSlot, Ready
  <2>2. size \in StartSize .. MaxSize /\ buffer \in Ring(size) /\ Placed(buffer, size)
    BY <1>2 DEF RingTypeOK, SlotPlacement
  <2>3. Regular(size) => /\ failure' # "assert" /\ (H264 = FALSE => failure' = "none")
                         /\ failure' = "none" => WalkOK(buffer', size)
    BY <2>1, <2>2, StoreKeepsWalk DEF WalkInv
  <2> QED BY <1>1, <2>1, <2>3 DEF WalkInv
<1>5. ASSUME NEW p \in Packets, InsertAfterExpanding(p) PROVE WalkInv'
  <2>1. /\ failure = "none" /\ Store(p, ExpandedBuffer, ExpandedSize) /\ size < MaxSize
        /\ ExpandedBuffer[Index(p.seq, ExpandedSize)] = None
        /\ size' = ExpandedSize
    BY <1>5, StoreFound DEF InsertAfterExpanding, Ready
  <2>2. size' = MaxSize
    BY <2>1, GrowsToMax DEF WalkInv
  <2>3. Regular(ExpandedSize) =>
             /\ failure' # "assert" /\ (H264 = FALSE => failure' = "none")
             /\ failure' = "none" => WalkOK(buffer', ExpandedSize)
    BY <2>1, DoubledWalk, StoreKeepsWalk
  <2> QED BY <1>1, <2>1, <2>2, <2>3 DEF WalkInv
<1>6. ASSUME NEW p \in Packets, InsertClears(p) PROVE WalkInv'
  <2>1. failure' = "none" /\ size' = MaxSize /\ buffer' = EmptyBuffer(MaxSize)
    BY <1>6, GrowsToMax DEF InsertClears, Ready, WalkInv
  <2>2. MaxSize \in StartSize .. MaxSize
    BY SizeAssumption
  <2>3. ASSUME NEW s \in Num PROVE ~ Holds(buffer', MaxSize, s)
    BY <2>1, <2>2, IndexType DEF Holds, EmptyBuffer
  <2>4. WalkOK(buffer', MaxSize)
    BY <2>3 DEF WalkOK, ReachesFirst, NoEndWaits, Overlooked, Reached
  <2> QED BY <1>1, <2>1, <2>4 DEF WalkInv
<1> QED
  BY <1>3, <1>4, <1>5, <1>6
  DEF Next, Insert, InsertDuplicate, PopAssembledFrame, vars

\* A continuous packet reaches its first packet, and no end of a frame that
\* could be handed out waits, through every insert, expansion and clearing
\* (frame_assembler.cpp:127-287).
THEOREM WalkInvHolds == Spec => []WalkInv
BY WalkInit, WalkNext, PTL DEF Spec

\* As long as the size of the ring divides the cycle, as 512 does, the walk of
\* find_frames stays within one frame and its assertion never fires.
THEOREM WalkNeverAsserts == Spec => [](Regular(size) => AssertNeverFires)
<1>1. WalkInv => (Regular(size) => AssertNeverFires)
  BY DEF WalkInv, AssertNeverFires
<1> QED BY <1>1, WalkInvHolds, PTL

\* As long as the size of the ring divides the cycle, a packet that is marked
\* continuous has all of its frame before it in the ring.
THEOREM ContinuityReachesBack == Spec => [](Regular(size) => ContinuousReachesFirst)
<1>1. WalkInv => (Regular(size) => ContinuousReachesFirst)
  <2> SUFFICES ASSUME WalkInv, Regular(size), failure = "none", NEW i \in 0 .. size - 1,
                      buffer[i] # None, buffer[i].continuous, ~ buffer[i].pkt.first
               PROVE  /\ FollowsInFrame(buffer, size, buffer[i].pkt.seq)
                      /\ buffer[PrevIndex(i, size)].continuous
    BY DEF ContinuousReachesFirst
  <2> DEFINE s == buffer[i].pkt.seq
  <2>1. size \in StartSize .. MaxSize /\ s \in Num /\ Index(s, size) = i
    BY DEF WalkInv, IInv, RingTypeOK, Ring, Entry, Packet, SlotPlacement, Placed
  <2>2. Reached(buffer, size, s) /\ ~ At(buffer, size, s).pkt.first
    BY <2>1 DEF Reached, Holds, At
  <2>3. Linked(buffer, size, s) /\ Reached(buffer, size, Pred(s))
    BY <2>1, <2>2 DEF WalkInv, WalkOK, ReachesFirst
  <2> HIDE DEF s
  <2>4. FollowsInFrame(buffer, size, s) /\ buffer[PrevIndex(i, size)].continuous
    BY <2>1, <2>3, FollowsIsLinked DEF Reached
  <2> QED BY <2>4 DEF s
<1> QED BY <1>1, WalkInvHolds, PTL

-----------------------------------------------------------------------------
\* The k-th smallest element of a set of indexes is one of them, ...
LEMMA NthIsElement ==
  ASSUME NEW n \in Nat, NEW S \in SUBSET (0 .. n - 1), NEW k \in 1 .. Cardinality(S)
  PROVE  Nth(S, k) \in S
<1> DEFINE B(x) == {i \in S : i < x}
           T == {x \in 0 .. n : Cardinality(B(x)) >= k}
<1>1. IsFiniteSet(S) /\ \A x : IsFiniteSet(B(x)) /\ Cardinality(B(x)) \in Nat
  <2>1. IsFiniteSet(0 .. n - 1)
    BY FS_Interval
  <2> QED BY <2>1, FS_Subset, FS_CardinalityType
<1>2. B(n) = S /\ B(0) = {}
  <2>1. \A i \in S : i \in Int /\ i < n /\ ~ (i < 0)
    OBVIOUS
  <2> QED BY <2>1
<1> HIDE DEF B
<1>3. n \in T /\ T \in SUBSET Nat
  BY <1>2, FS_CardinalityType, <1>1
<1>4. PICK x \in T : \A y \in T : x <= y
  <2> HIDE DEF T
  <2> QED BY <1>3, SmallestIndex
<1>5. x \in 0 .. n /\ Cardinality(B(x)) >= k
  OBVIOUS
<1>6. x # 0
  BY <1>2, <1>5, FS_EmptySet
<1>7. x - 1 \in 0 .. n /\ x - 1 \notin T
  BY <1>4, <1>5, <1>6
<1>8. ~ Cardinality(B(x - 1)) >= k
  BY <1>7
<1>9. B(x) = B(x - 1) \/ (x - 1 \in S /\ x - 1 \notin B(x - 1) /\ B(x) = B(x - 1) \cup {x - 1})
  <2>1. \A i \in S : i \in Int /\ (i < x <=> i < x - 1 \/ i = x - 1)
    BY <1>5
  <2>2. ~ (x - 1 < x - 1)
    BY <1>5
  <2>3. CASE x - 1 \in S
    BY <2>1, <2>2, <2>3 DEF B
  <2>4. CASE x - 1 \notin S
    <3>1. \A i \in S : i < x <=> i < x - 1
      BY <2>1, <2>4
    <3> QED BY <3>1 DEF B
  <2> QED BY <2>3, <2>4
<1>10. x - 1 \in S /\ Cardinality(B(x)) = Cardinality(B(x - 1)) + 1
  BY <1>1, <1>5, <1>8, <1>9, FS_AddElement
<1>11. Cardinality(B(x - 1)) = k - 1
  BY <1>1, <1>5, <1>8, <1>10
<1>12. \E j \in S : Cardinality({i \in S : i < j}) = k - 1
  BY <1>10, <1>11 DEF B
<1> QED BY <1>12 DEF Nth

\* ... and every element is the k-th smallest for some k.
LEMMA NthIsOnto ==
  ASSUME NEW n \in Nat, NEW S \in SUBSET (0 .. n - 1), NEW x \in S
  PROVE  \E k \in 1 .. Cardinality(S) : Nth(S, k) = x
<1> DEFINE B(y) == {i \in S : i < y}
           k == Cardinality(B(x)) + 1
<1>1. IsFiniteSet(S) /\ \A y : IsFiniteSet(B(y)) /\ Cardinality(B(y)) \in Nat
  <2>1. IsFiniteSet(0 .. n - 1)
    BY FS_Interval
  <2> QED BY <2>1, FS_Subset, FS_CardinalityType
<1>2. ASSUME NEW y \in S, NEW z \in S, y < z PROVE Cardinality(B(y)) < Cardinality(B(z))
  <2>1. B(y) \cup {y} \subseteq B(z) /\ y \notin B(y)
    <3>1. ~ (y < y) /\ \A i \in S : i < y => i < z
      BY <1>2
    <3> QED BY <1>2, <3>1
  <2>2. Cardinality(B(y) \cup {y}) = Cardinality(B(y)) + 1
    BY <1>1, <2>1, FS_AddElement
  <2>3. Cardinality(B(y) \cup {y}) <= Cardinality(B(z))
    BY <1>1, <2>1, FS_Subset
  <2> HIDE DEF B
  <2> QED BY <1>1, <2>2, <2>3
<1>3. k \in 1 .. Cardinality(S)
  <2>1. B(x) \cup {x} \subseteq S /\ x \notin B(x)
    OBVIOUS
  <2>2. Cardinality(B(x) \cup {x}) = Cardinality(B(x)) + 1
    BY <1>1, <2>1, FS_AddElement
  <2>3. Cardinality(B(x) \cup {x}) <= Cardinality(S) /\ Cardinality(S) \in Nat
    BY <1>1, <2>1, FS_Subset, FS_CardinalityType
  <2> HIDE DEF B
  <2> QED BY <1>1, <2>2, <2>3
<1>4. ASSUME NEW j \in S, Cardinality({i \in S : i < j}) = k - 1 PROVE j = x
  <2>1. j \in Int /\ x \in Int /\ Cardinality(B(j)) = Cardinality(B(x))
    BY <1>1, <1>4
  <2> HIDE DEF B
  <2> QED BY <1>1, <1>2, <2>1
<1>5. Cardinality({i \in S : i < x}) = k - 1
  BY <1>1
<1> HIDE DEF k, B
<1>6. Nth(S, k) = x
  BY <1>4, <1>5 DEF Nth
<1> QED BY <1>3, <1>6

\* The frames that find_frames hands out end at numbers it visited.
LEMMA FoundFrames ==
  ASSUME NEW n \in StartSize .. MaxSize, NEW b, NEW m, NEW seq,
         NEW k \in DOMAIN FindFrames(b, n, m, seq).frames
  PROVE  \E j \in Ends(b, n, seq) :
           /\ FindFrames(b, n, m, seq).frames[k] = FramePackets(b, n, Plus(seq, j))
           /\ FindFrames(b, n, m, seq).missing \cap BelowUpperBound(m, Plus(seq, j)) = {}
           /\ FindFrames(b, n, m, seq).missing \subseteq m
<1> DEFINE ends  == {j \in Visited(b, n, seq) : b[Index(Plus(seq, j), n)].pkt.last}
           fatal == {j \in ends : H264 \/ ~ AssertHolds(b, n, Plus(seq, j))}
           done  == {j \in ends : \A f \in fatal : j < f}
           r     == FindFrames(b, n, m, seq)
<1>1. /\ r.frames = [i \in 1 .. Cardinality(done) |-> FramePackets(b, n, Plus(seq, Nth(done, i)))]
      /\ r.missing = m \ UNION {BelowUpperBound(m, Plus(seq, j)) : j \in done}
  BY DEF FindFrames
<1>2. done \subseteq Ends(b, n, seq) /\ done \in SUBSET (0 .. n - 1)
  BY DEF Ends, At, Visited
<1> HIDE DEF done, r
<1>3. k \in 1 .. Cardinality(done)
  BY <1>1 DEF r
<1>4. Nth(done, k) \in done
  BY <1>2, <1>3, SizeFacts, NthIsElement
<1>5. r.frames[k] = FramePackets(b, n, Plus(seq, Nth(done, k)))
  BY <1>1, <1>3
<1>6. r.missing \cap BelowUpperBound(m, Plus(seq, Nth(done, k))) = {} /\ r.missing \subseteq m
  BY <1>1, <1>4
<1> QED BY <1>2, <1>4, <1>5, <1>6 DEF r

\* The number a frame ends with is that of its last packet.
LEMMA FrameEnds ==
  ASSUME NEW n \in StartSize .. MaxSize, NEW b, NEW end \in Num,
         FrameReach(b, n, end) \in Nat
  PROVE  LET f == FramePackets(b, n, end)
             R == FrameReach(b, n, end)
         IN  /\ DOMAIN f = 1 .. R + 1 /\ Len(f) = R + 1 /\ f # <<>>
             /\ \A k \in DOMAIN f : f[k] = HandedOut(b, n, end, Minus(end, R + 1 - k))
             /\ Last(f) = HandedOut(b, n, end, end)
<1> DEFINE f == FramePackets(b, n, end)
           R == FrameReach(b, n, end)
<1>1. f = [k \in 1 .. R + 1 |-> HandedOut(b, n, end, Minus(end, R + 1 - k))]
  BY DEF FramePackets
<1> HIDE DEF f, R
<1>2. DOMAIN f = 1 .. R + 1 /\ Len(f) = R + 1 /\ f # <<>>
  BY <1>1 DEF R
<1>3. Last(f) = HandedOut(b, n, end, Minus(end, 0))
  <2>1. R + 1 \in 1 .. R + 1 /\ R + 1 - (R + 1) = 0
    BY DEF R
  <2> QED BY <1>1, <1>2, <2>1 DEF Last
<1> QED BY <1>1, <1>2, <1>3, Neighbours DEF f, R

\* The packets are told apart by their ids.
UniqueIds == \A p, q \in Packets : p.id = q.id => p = q
\* What the ring holds is what the network delivered.
HeldAreSent(b, n) == \A i \in 0 .. n - 1 : b[i] # None => b[i].pkt \in Packets

\* A frame as it was sent.
WholeFrame(f) ==
  /\ f # <<>>
  /\ \A i \in DOMAIN f :
       /\ f[i].ts = f[1].ts
       /\ Sent(f[i]).first <=> i = 1
       /\ Sent(f[i]).last <=> i = Len(f)
       /\ i > 1 => f[i].seq = Succ(f[i - 1].seq)

\* What ends at a visited end is a whole frame.
LEMMA FrameIsWhole ==
  ASSUME NEW n \in StartSize .. MaxSize, Regular(n), NEW b \in Ring(n),
         ReachesFirst(b, n), NoEndWaits(b, n), HeldAreSent(b, n),
         MovedFrom = "empty", UniqueIds,
         NEW seq \in Num, NEW j \in Ends(b, n, seq)
  PROVE  WholeFrame(FramePackets(b, n, Plus(seq, j)))
<1> DEFINE end == Plus(seq, j)
           R == FrameReach(b, n, end)
           f == FramePackets(b, n, end)
           num(q) == Minus(end, q)
           pkt(q) == At(b, n, num(q)).pkt
<1>1. n \in Nat /\ n > 0 /\ n < M /\ M \in Nat
  BY RegularFacts, HalfFacts
<1>2. j \in Visited(b, n, seq) /\ At(b, n, end).pkt.last
  BY DEF Ends
<1>3. /\ end \in Num /\ R \in 0 .. n - 1
      /\ \A k \in 0 .. R : /\ Holds(b, n, num(k))
                           /\ k > j => Reached(b, n, num(k))
                           /\ At(b, n, num(k)).pkt.first <=> k = R
                           /\ k < R => Linked(b, n, num(k))
  BY <1>2, WalkBack
<1>4. /\ j \in 0 .. n - 1 /\ j \in 0 .. M - 1
      /\ \A i \in 1 .. j : PotentialNewFrameAfterPred(b, n, Plus(seq, i))
  BY <1>1, <1>2, VisitedFacts
<1>5. /\ \A k \in 0 .. M - 1 : num(k) \in Num /\ Pred(num(k)) = num(k + 1)
      /\ \A k \in 0 .. j : num(k) = Plus(seq, j - k)
      /\ \A k, l \in 0 .. M - 1 : num(k) = num(l) => k = l
      /\ num(0) = end
  BY <1>3, <1>4, Steps, Neighbours
<1>6. /\ DOMAIN f = 1 .. R + 1 /\ Len(f) = R + 1 /\ f # <<>>
      /\ \A k \in DOMAIN f : f[k] = HandedOut(b, n, end, num(R + 1 - k))
  BY <1>3, FrameEnds
<1>7. ASSUME NEW k \in 0 .. R
      PROVE  /\ num(k) \in FrameSeqs(b, n, end) /\ num(k) \in Num
             /\ pkt(k) \in Packets /\ pkt(k).seq = num(k)
  <2>1. num(k) \in FrameSeqs(b, n, end)
    BY DEF FrameSeqs
  <2>2. num(k) \in Num /\ Holds(b, n, num(k))
    BY <1>1, <1>3, <1>5
  <2>3. Index(num(k), n) \in 0 .. n - 1
    BY <2>2, IndexType
  <2> HIDE DEF num
  <2>4. pkt(k) \in Packets /\ pkt(k).seq = num(k)
    BY <2>2, <2>3 DEF Holds, At, HeldAreSent
  <2> QED BY <2>1, <2>2, <2>4
<1> HIDE DEF num, end, f, R
<1>8. ASSUME NEW i \in DOMAIN f
      PROVE  LET q == R + 1 - i
             IN  /\ q \in 0 .. R /\ Sent(f[i]) = pkt(q)
                 /\ f[i].seq = num(q) /\ f[i].ts = pkt(q).ts
  <2> DEFINE q == R + 1 - i
             h == f[i]
  <2>1. q \in 0 .. R /\ h = HandedOut(b, n, end, num(q))
    BY <1>3, <1>6
  <2>2. /\ pkt(q) \in Packets /\ h.id = pkt(q).id /\ h.seq = num(q) /\ h.ts = pkt(q).ts
    BY <1>2, <1>7, <2>1, HandedOutFirst DEF end
  <2> HIDE DEF q, h, pkt
  <2>3. Sent(h) = pkt(q)
    <3>1. pkt(q) \in Packets /\ pkt(q).id = h.id
      BY <2>2
    <3>2. \A p \in Packets : p.id = h.id => p = pkt(q)
      BY <3>1 DEF UniqueIds
    <3> QED BY <3>1, <3>2 DEF Sent
  <2> QED BY <2>1, <2>2, <2>3 DEF q, h
<1>9. \A q \in 0 .. R : pkt(q).ts = pkt(0).ts
  <2> DEFINE S == {q \in 0 .. R : pkt(q).ts # pkt(0).ts}
  <2> SUFFICES ASSUME S # {} PROVE FALSE
    OBVIOUS
  <2>1. S \in SUBSET Nat
    BY <1>3
  <2>2. PICK q \in S : \A x \in S : q <= x
    <3> HIDE DEF S
    <3> QED BY <2>1, SmallestIndex
  <2>3. q \in 0 .. R /\ q # 0 /\ pkt(q).ts # pkt(0).ts
    OBVIOUS
  <2>4. q - 1 \in 0 .. R /\ q - 1 < R /\ q - 1 \in 0 .. M - 1 /\ q - 1 + 1 = q
    BY <1>1, <1>3, <2>3
  <2>5. Linked(b, n, num(q - 1)) /\ Pred(num(q - 1)) = num(q)
    BY <1>3, <1>5, <2>4
  <2>6. pkt(q - 1).ts = pkt(q).ts
    BY <2>5 DEF Linked
  <2>7. q - 1 \in S
    BY <2>3, <2>4, <2>6
  <2> HIDE DEF S
  <2> QED BY <2>2, <2>3, <2>7, <1>3
<1>10. ASSUME NEW q \in 0 .. R PROVE pkt(q).last <=> q = 0
  <2>1. CASE q = 0
    BY <1>2, <1>5, <2>1 DEF end
  <2>2. CASE q # 0 /\ q > j
    BY <1>3, <1>7, <2>2 DEF NoEndWaits
  <2>3. CASE q # 0 /\ q <= j
    <3>1. q - 1 \in 0 .. R /\ q - 1 < R /\ q - 1 \in 0 .. M - 1 /\ q - 1 + 1 = q
          /\ q - 1 \in 0 .. j /\ j - (q - 1) \in 1 .. j
      BY <1>1, <1>3, <1>4, <2>3
    <3>2. Pred(num(q - 1)) = num(q) /\ num(q - 1) = Plus(seq, j - (q - 1)) /\ num(q - 1) \in Num
      BY <1>5, <3>1
    <3>3. PotentialNewFrameAfterPred(b, n, num(q - 1)) /\ ~ At(b, n, num(q - 1)).pkt.first
      BY <1>3, <1>4, <3>1, <3>2
    <3>4. ~ At(b, n, num(q)).pkt.last
      BY <3>2, <3>3, FollowsIsLinked DEF PotentialNewFrameAfterPred, At
    <3> QED BY <2>3, <3>4
  <2>4. q \in Int /\ j \in Int
    BY <1>3, <1>4
  <2> QED BY <2>1, <2>2, <2>3, <2>4
<1>11. ASSUME NEW i \in DOMAIN f
       PROVE  /\ f[i].ts = f[1].ts
              /\ Sent(f[i]).first <=> i = 1
              /\ Sent(f[i]).last <=> i = Len(f)
              /\ i > 1 => f[i].seq = Succ(f[i - 1].seq)
  <2>1. i \in 1 .. R + 1 /\ R \in Nat /\ 1 \in DOMAIN f
    BY <1>3, <1>6
  <2>2. f[i].ts = pkt(0).ts /\ f[1].ts = pkt(0).ts
    BY <1>8, <1>9, <2>1
  <2>3. Sent(f[i]).first <=> R + 1 - i = R
    BY <1>3, <1>8
  <2>4. Sent(f[i]).last <=> R + 1 - i = 0
    BY <1>8, <1>10
  <2>5. ASSUME i > 1 PROVE f[i].seq = Succ(f[i - 1].seq)
    <3>1. i - 1 \in DOMAIN f /\ R + 1 - (i - 1) = (R + 1 - i) + 1
          /\ R + 1 - i \in 0 .. M - 1
      BY <1>1, <1>3, <1>6, <2>1, <2>5
    <3>2. f[i].seq = num(R + 1 - i) /\ f[i - 1].seq = Pred(num(R + 1 - i)) /\ num(R + 1 - i) \in Num
      BY <1>5, <1>8, <3>1
    <3> QED BY <3>2, HalfFacts DEF Succ, Pred, Plus, Minus, Num
  <2>6. (R + 1 - i = R <=> i = 1) /\ (R + 1 - i = 0 <=> i = Len(f))
    BY <1>6, <2>1
  <2> QED BY <2>2, <2>3, <2>4, <2>5, <2>6
<1> QED BY <1>6, <1>11 DEF WholeFrame, f, end

\* assembled_frames_ is a queue of frames.
Queue(s) == s \in Seq(Range(s))

\* Taking the front off a queue leaves what was behind it.
LEMMA QueueTail ==
  ASSUME NEW s, Queue(s), s # <<>>
  PROVE  /\ Queue(Tail(s))
         /\ \A k \in DOMAIN Tail(s) : \E l \in DOMAIN s : Tail(s)[k] = s[l]
<1> DEFINE S == Range(s)
           t == Tail(s)
<1>1. /\ s \in Seq(S) /\ t \in Seq(S) /\ Len(t) = Len(s) - 1 /\ Len(s) \in Nat
      /\ DOMAIN s = 1 .. Len(s) /\ DOMAIN t = 1 .. Len(t)
      /\ \A i \in 1 .. Len(t) : t[i] = s[i + 1]
  BY HeadTailProperties, LenProperties DEF Queue
<1> HIDE DEF t, S
<1>2. t \in Seq(Range(t))
  <2>1. t \in [1 .. Len(t) -> Range(t)] /\ Len(t) \in Nat
    <3>1. t \in [1 .. Len(t) -> S] /\ Len(t) \in Nat
      BY <1>1, LenProperties
    <3> QED BY <3>1 DEF Range
  <2> QED BY <2>1
<1>3. \A k \in DOMAIN t : k + 1 \in DOMAIN s /\ t[k] = s[k + 1]
  BY <1>1
<1> QED BY <1>2, <1>3 DEF Queue, t

\* find_frames queues frames.
LEMMA FoundQueue ==
  ASSUME NEW n \in StartSize .. MaxSize, NEW b, NEW m, NEW seq
  PROVE  Queue(FindFrames(b, n, m, seq).frames)
<1> DEFINE ends  == {j \in Visited(b, n, seq) : b[Index(Plus(seq, j), n)].pkt.last}
           fatal == {j \in ends : H264 \/ ~ AssertHolds(b, n, Plus(seq, j))}
           done  == {j \in ends : \A f \in fatal : j < f}
           s     == FindFrames(b, n, m, seq).frames
<1>1. s = [i \in 1 .. Cardinality(done) |-> FramePackets(b, n, Plus(seq, Nth(done, i)))]
  BY DEF FindFrames
<1>2. Cardinality(done) \in Nat
  <2>1. done \in SUBSET (0 .. n - 1) /\ IsFiniteSet(0 .. n - 1)
    BY FS_Interval, SizeFacts DEF Visited
  <2> HIDE DEF done
  <2> QED BY <2>1, FS_Subset, FS_CardinalityType
<1> HIDE DEF done, s
<1>3. s \in [1 .. Cardinality(done) -> Range(s)]
  BY <1>1 DEF Range
<1> QED BY <1>2, <1>3 DEF Queue, s

\* The size of the ring and the queue bound every walk.
LEMMA ReachType ==
  ASSUME NEW n \in StartSize .. MaxSize, NEW b, NEW end
  PROVE  FrameReach(b, n, end) \in Nat
<1> DEFINE back(k) == IF Index(end, n) >= k THEN Index(end, n) - k ELSE Index(end, n) - k + n
           S == {n - 1} \cup {k \in 0 .. n - 1 : b[back(k)] # None /\ b[back(k)].pkt.first}
<1>1. FrameReach(b, n, end) = Min(S)
  BY DEF FrameReach
<1>2. S \in SUBSET Nat /\ S # {}
  BY SizeFacts
<1> HIDE DEF S
<1> QED BY <1>1, <1>2, SmallestIndex

\* No number that stays missing is at or before the end of a frame in the queue.
LEMMA StoredFramesPassMissing ==
  ASSUME NEW p \in Packets, NEW n \in StartSize .. MaxSize, NEW b \in Ring(n),
         Placed(b, n), Store(p, b, n)
  PROVE  FramesPassMissing' /\ Queue(assembled')
<1> DEFINE d == WithPacket(b, n, p)
           m == UpdatedMissing(p.seq)
           r == FindFrames(d, n, m, p.seq)
<1>1. missing' = r.missing /\ assembled' = r.frames
  BY StoreFound
<1>2. d \in Ring(n) /\ Placed(d, n)
  <2>1. p \in Packet /\ p.seq \in Num /\ Index(p.seq, n) \in 0 .. n - 1
    BY PacketsAssumption, IndexType DEF Packet
  <2>2. Kept(p) \in Entry \cup {None} /\ (Kept(p) # None => Kept(p).pkt = p)
    BY <2>1 DEF Kept, Entry
  <2> QED BY <2>1, <2>2 DEF WithPacket, Ring, Placed
<1> HIDE DEF d, m
<1>3. Queue(r.frames)
  BY FoundQueue
<1>4. ASSUME NEW k \in DOMAIN r.frames, NEW e \in r.missing
      PROVE  AheadOf(e, Last(r.frames[k]).seq)
  <2>1. PICK j \in Ends(d, n, p.seq) :
           /\ r.frames[k] = FramePackets(d, n, Plus(p.seq, j))
           /\ r.missing \cap BelowUpperBound(m, Plus(p.seq, j)) = {}
           /\ r.missing \subseteq m
    BY <1>4, FoundFrames
  <2> DEFINE end == Plus(p.seq, j)
             i == Index(end, n)
  <2>2. Holds(d, n, end)
    <3>1. /\ j \in 0 .. n - 1 /\ PotentialNewFrame(d, n, p.seq)
          /\ \A l \in 1 .. j : PotentialNewFrameAfterPred(d, n, Plus(p.seq, l))
      BY DEF Ends, Visited
    <3>2. CASE j = 0
      <4>1. p.seq \in Num
        BY PacketsAssumption DEF Packet
      <4> QED BY <3>1, <3>2, <4>1, Neighbours DEF PotentialNewFrame
    <3>3. CASE j # 0
      <4>1. j \in 1 .. j
        BY <3>1, <3>3
      <4> QED BY <3>1, <4>1 DEF PotentialNewFrameAfterPred
    <3> QED BY <3>2, <3>3
  <2>3. i \in 0 .. n - 1 /\ d[i] \in Entry /\ d[i].pkt.seq = end /\ end \in Num
    <3>1. d[i] # None /\ d[i].pkt.seq = end
      BY <2>2 DEF Holds
    <3>2. i \in 0 .. n - 1
      <4>1. n \in Nat /\ n > 0 /\ end \in Int
        <5>1. p.seq \in Num /\ j \in 0 .. n - 1
          BY PacketsAssumption DEF Packet, Ends, Visited
        <5> QED BY <5>1, SizeFacts, HalfFacts DEF Num, Plus
      <4> QED BY <4>1 DEF Index
    <3> QED BY <1>2, <3>1, <3>2 DEF Ring, Entry, Packet
  <2> HIDE DEF end
  <2>4. HandedOut(d, n, end, end).seq = end
    BY <2>3, HandedOutType
  <2>5. Last(r.frames[k]) = HandedOut(d, n, end, end)
    BY <2>1, <2>3, ReachType, FrameEnds DEF end
  <2>6. e \in m /\ ~ (e \in BelowUpperBound(m, end))
    BY <1>4, <2>1 DEF end
  <2> QED BY <2>4, <2>5, <2>6 DEF BelowUpperBound, Before
<1> HIDE DEF r
<1> QED BY <1>1, <1>3, <1>4 DEF FramesPassMissing

\* While a frame is handed out, no number at or before its end is reported
\* missing, whatever the size of the ring (frame_assembler.cpp:281-282).
THEOREM FramesLeaveMissingBehind == Spec => []FramesPassMissing
<1> DEFINE Inv == FramesPassMissing /\ Queue(assembled)
<1>1. Init => Inv
  <2> SUFFICES ASSUME assembled = <<>> PROVE Inv
    BY DEF Init
  <2> QED BY DEF FramesPassMissing, Queue
<1>2. IInv /\ Inv /\ [Next]_vars => Inv'
  <2> SUFFICES ASSUME IInv, Inv, [Next]_vars PROVE Inv'
    OBVIOUS
  <2>1. /\ size \in StartSize .. MaxSize /\ buffer \in Ring(size) /\ Placed(buffer, size)
        /\ RingTypeOK
    BY DEF IInv, RingTypeOK, SlotPlacement
  <2>2. ASSUME NEW p \in Packets, Insert(p) PROVE Inv'
    <3>1. CASE assembled' = assembled /\ assembled = <<>>
      BY <3>1 DEF FramesPassMissing
    <3>2. CASE Store(p, buffer, size)
      BY <2>1, <3>2, StoredFramesPassMissing
    <3>3. CASE Store(p, ExpandedBuffer, ExpandedSize)
      BY <2>1, <3>3, ExpandedRing, StoredFramesPassMissing
    <3> QED
      BY <2>2, <3>1, <3>2, <3>3
      DEF Insert, InsertDuplicate, InsertIntoFreeSlot, InsertAfterExpanding, InsertClears, Ready
  <2>3. CASE PopAssembledFrame
    <3>1. assembled # <<>> /\ assembled' = Tail(assembled) /\ missing' = missing
      BY <2>3 DEF PopAssembledFrame
    <3>2. Queue(assembled') /\ \A k \in DOMAIN assembled' :
            \E l \in DOMAIN assembled : assembled'[k] = assembled[l]
      BY <3>1, QueueTail
    <3> QED BY <3>1, <3>2 DEF FramesPassMissing
  <2>4. CASE UNCHANGED vars
    BY <2>4 DEF vars, FramesPassMissing, Queue
  <2> QED BY <2>2, <2>3, <2>4 DEF Next
<1>3. Inv => FramesPassMissing
  OBVIOUS
<1> HIDE DEF Inv
<1> QED BY <1>1, <1>2, <1>3, IInvHolds, PTL DEF Spec

\* Moved-out packets leave nothing behind: what is in the ring was delivered.
LEMMA FoundHeldAreSent ==
  ASSUME NEW n \in StartSize .. MaxSize, NEW b \in Ring(n), HeldAreSent(b, n),
         MovedFrom = "empty", NEW m, NEW seq
  PROVE  HeldAreSent(FindFrames(b, n, m, seq).buffer, n)
<1> DEFINE visited == Visited(b, n, seq)
           ends    == {j \in visited : b[Index(Plus(seq, j), n)].pkt.last}
           fatal   == {j \in ends : H264 \/ ~ AssertHolds(b, n, Plus(seq, j))}
           done    == {j \in ends : \A f \in fatal : j < f}
           marked  == {Plus(seq, j) : j \in {v \in visited : \A f \in fatal : v <= f}}
           framesOf(s) == {j \in done : s \in FrameSeqs(b, n, Plus(seq, j))}
           cont(e) == e.continuous \/ e.pkt.seq \in marked
           slot(e) ==
             IF framesOf(e.pkt.seq) = {} THEN [e EXCEPT !.continuous = cont(e)]
             ELSE IF MovedFrom = "empty" THEN None
             ELSE [pkt |-> HandedOut(b, n, Plus(seq, Max(framesOf(e.pkt.seq))), e.pkt.seq),
                   continuous |-> cont(e)]
           r == FindFrames(b, n, m, seq)
<1>1. r.buffer = [i \in 0 .. n - 1 |-> IF b[i] = None THEN None ELSE slot(b[i])]
  BY DEF FindFrames
<1>2. ASSUME NEW i \in 0 .. n - 1, b[i] # None
      PROVE  slot(b[i]) = None \/ slot(b[i]).pkt \in Packets
  <2>1. b[i] \in Entry /\ b[i].pkt \in Packets
    BY <1>2 DEF Ring, HeldAreSent
  <2>2. slot(b[i]) = [b[i] EXCEPT !.continuous = cont(b[i])] \/ slot(b[i]) = None
    OBVIOUS
  <2> HIDE DEF slot, cont
  <2> QED BY <2>1, <2>2 DEF Entry
<1> HIDE DEF slot, r
<1>3. HeldAreSent(r.buffer, n)
  BY <1>1, <1>2 DEF HeldAreSent
<1> QED BY <1>3 DEF r

\* What insert queues from line 64 on are whole frames.
LEMMA StoreQueuesWholeFrames ==
  ASSUME NEW p \in Packets, NEW n \in StartSize .. MaxSize, NEW b \in Ring(n),
         Placed(b, n), b[Index(p.seq, n)] = None, HeldAreSent(b, n), Store(p, b, n),
         MovedFrom = "empty", UniqueIds
  PROVE  /\ HeldAreSent(buffer', n)
         /\ Regular(n) /\ WalkOK(b, n) =>
              \A k \in DOMAIN assembled' : WholeFrame(assembled'[k])
<1> DEFINE d == WithPacket(b, n, p)
           m == UpdatedMissing(p.seq)
           r == FindFrames(d, n, m, p.seq)
<1>1. buffer' = r.buffer /\ assembled' = r.frames
  BY StoreFound
<1>2. /\ p.seq \in Num /\ d \in Ring(n) /\ HeldAreSent(d, n)
  <2>1. p \in Packet /\ p.seq \in Num /\ Index(p.seq, n) \in 0 .. n - 1
    BY PacketsAssumption, IndexType DEF Packet
  <2>2. Kept(p) \in Entry \cup {None} /\ (Kept(p) # None => Kept(p).pkt = p)
    BY <2>1 DEF Kept, Entry
  <2> QED BY <2>1, <2>2 DEF WithPacket, Ring, HeldAreSent
<1>3. ASSUME Regular(n), WalkOK(b, n) PROVE ReachesFirst(d, n) /\ NoEndWaits(d, n)
  BY <1>3, InsertedWalk
<1> HIDE DEF d, m
<1>4. HeldAreSent(r.buffer, n)
  BY <1>2, FoundHeldAreSent
<1>5. ASSUME Regular(n), WalkOK(b, n), NEW k \in DOMAIN r.frames
      PROVE  WholeFrame(r.frames[k])
  <2>1. PICK j \in Ends(d, n, p.seq) : r.frames[k] = FramePackets(d, n, Plus(p.seq, j))
    BY <1>5, FoundFrames
  <2>2. WholeFrame(FramePackets(d, n, Plus(p.seq, j)))
    BY <1>2, <1>3, <1>5, FrameIsWhole
  <2> QED BY <2>1, <2>2
<1> HIDE DEF r
<1> QED BY <1>1, <1>4, <1>5

\* The packets in the ring and the frames in the queue.
WholeInv ==
  /\ WalkInv
  /\ HeldAreSent(buffer, size)
  /\ Queue(assembled)
  /\ Regular(size) => \A k \in DOMAIN assembled : WholeFrame(assembled[k])

\* Nothing is in the ring or the queue at first.
LEMMA WholeInit == Init => WholeInv
<1> SUFFICES ASSUME Init PROVE WholeInv
  OBVIOUS
<1>1. WalkInv /\ assembled = <<>> /\ \A i \in 0 .. size - 1 : buffer[i] = None
  BY WalkInit DEF Init, EmptyBuffer
<1> QED BY <1>1 DEF WholeInv, HeldAreSent, Queue

\* Every insert and pop leaves delivered packets in the ring and whole frames in
\* the queue.
LEMMA WholeNext ==
  ASSUME MovedFrom = "empty", UniqueIds, WholeInv, [Next]_vars
  PROVE  WholeInv'
<1>1. WalkInv' /\ WalkInv
  BY WalkNext DEF WholeInv
<1>2. /\ size \in StartSize .. MaxSize /\ buffer \in Ring(size) /\ Placed(buffer, size)
      /\ RingTypeOK
  BY <1>1 DEF WalkInv, IInv, RingTypeOK, SlotPlacement
<1>3. ASSUME NEW p \in Packets, InsertIntoFreeSlot(p) PROVE WholeInv'
  <2>1. /\ failure = "none" /\ Store(p, buffer, size) /\ buffer[Index(p.seq, size)] = None
        /\ size' = size
    BY <1>3, StoreFound DEF InsertIntoFreeSlot, Ready
  <2>2. Regular(size) => WalkOK(buffer, size)
    BY <1>1, <2>1 DEF WalkInv
  <2>3. Queue(assembled')
    BY <1>2, <2>1, StoredFramesPassMissing
  <2> QED BY <1>1, <1>2, <2>1, <2>2, <2>3, StoreQueuesWholeFrames DEF WholeInv
<1>4. ASSUME NEW p \in Packets, InsertAfterExpanding(p) PROVE WholeInv'
  <2>1. /\ failure = "none" /\ Store(p, ExpandedBuffer, ExpandedSize) /\ size < MaxSize
        /\ ExpandedBuffer[Index(p.seq, ExpandedSize)] = None
        /\ size' = ExpandedSize
    BY <1>4, StoreFound DEF InsertAfterExpanding, Ready
  <2>2. /\ ExpandedSize \in StartSize .. MaxSize /\ ExpandedBuffer \in Ring(ExpandedSize)
        /\ Placed(ExpandedBuffer, ExpandedSize)
    BY <1>2, ExpandedRing
  <2>3. Regular(ExpandedSize) => WalkOK(ExpandedBuffer, ExpandedSize)
    BY <1>1, <2>1, DoubledWalk
  <2>4. Queue(assembled')
    BY <2>1, <2>2, StoredFramesPassMissing
  <2>5. HeldAreSent(ExpandedBuffer, ExpandedSize)
    <3> DEFINE claims(i) == {j \in 0 .. size - 1 :
                               buffer[j] # None /\ Index(buffer[j].pkt.seq, ExpandedSize) = i}
    <3>1. ExpandedBuffer = [i \in 0 .. ExpandedSize - 1 |->
             IF claims(i) = {} THEN None ELSE buffer[Max(claims(i))]]
      BY DEF ExpandedBuffer
    <3>2. ASSUME NEW i, claims(i) # {} PROVE buffer[Max(claims(i))].pkt \in Packets
      <4>1. claims(i) \in SUBSET (0 .. size - 1) /\ size \in Nat
        BY <1>2, SizeFacts
      <4>2. Max(claims(i)) \in claims(i)
        BY <3>2, <4>1, LargestIndex
      <4> QED BY <4>2 DEF WholeInv, HeldAreSent
    <3> HIDE DEF claims
    <3> QED BY <3>1, <3>2 DEF HeldAreSent
  <2> QED BY <1>1, <2>1, <2>2, <2>3, <2>4, <2>5, StoreQueuesWholeFrames DEF WholeInv
<1>5. ASSUME NEW p \in Packets, InsertClears(p) PROVE WholeInv'
  <2>1. assembled' = <<>> /\ buffer' = EmptyBuffer(size')
    BY <1>5 DEF InsertClears, Ready
  <2> QED BY <1>1, <2>1 DEF WholeInv, HeldAreSent, EmptyBuffer, Queue
<1>6. CASE PopAssembledFrame
  <2>1. /\ assembled # <<>> /\ assembled' = Tail(assembled)
        /\ buffer' = buffer /\ size' = size
    BY <1>6 DEF PopAssembledFrame
  <2>2. Queue(assembled') /\ \A k \in DOMAIN assembled' :
          \E l \in DOMAIN assembled : assembled'[k] = assembled[l]
    BY <2>1, QueueTail DEF WholeInv
  <2> QED BY <1>1, <2>1, <2>2 DEF WholeInv
<1>7. CASE UNCHANGED <<size, buffer, assembled>>
  BY <1>1, <1>7 DEF WholeInv
<1> QED BY <1>3, <1>4, <1>5, <1>6, <1>7 DEF Next, Insert, InsertDuplicate, vars

\* As long as the size of the ring divides the cycle, every frame that is handed
\* out is one whole frame as it was sent: consecutive packets of one timestamp
\* from a first one to a last one and no other first or last between
\* (frame_assembler.cpp:159-280).  A moved-from packet is empty.
THEOREM FramesComeOutWhole ==
  ASSUME MovedFrom = "empty", UniqueIds
  PROVE  Spec => [](Regular(size) => FramesAreWhole)
<1>1. WholeInv => (Regular(size) => FramesAreWhole)
  BY DEF WholeInv, FramesAreWhole, WholeFrame
<1>2. WholeInv /\ [Next]_vars => WholeInv'
  BY WholeNext
<1> QED BY <1>1, <1>2, WholeInit, PTL DEF Spec

\* How the sender cuts a frame: consecutive packets of one timestamp, from one
\* with the first flag to one with the last flag.
CutIntoFrames ==
  \A a \in Packets : \E s \in Num, l \in 0 .. M - 1 :
    \E frame \in [0 .. l -> FrameOf(a)] :
      /\ frame[0].first /\ frame[l].last
      /\ \A k \in 0 .. l : frame[k].seq = Plus(s, k)

\* As long as the size of the ring divides the cycle, find_frames overlooks no
\* frame: in whatever order its packets came, with whatever duplicates and
\* however often the ring grew or was cleared in between, at least one of them
\* is still to come, or has been handed out (frame_assembler.cpp:127-287).
THEOREM NoFrameIsOverlooked ==
  ASSUME MovedFrom = "empty", UniqueIds, H264 = FALSE, CutIntoFrames
  PROVE  Spec => [](Regular(size) => NoCompleteFrameWaits)
<1>1. ASSUME WholeInv, Regular(size) PROVE NoCompleteFrameWaits
  <2> SUFFICES ASSUME NEW a \in Packets, \A p \in FrameOf(a) : InRing(p) PROVE FALSE
    BY DEF NoCompleteFrameWaits
  <2>1. /\ size \in StartSize .. MaxSize /\ HeldAreSent(buffer, size)
        /\ ReachesFirst(buffer, size) /\ NoEndWaits(buffer, size)
        /\ Overlooked(buffer, size) = {}
    BY <1>1 DEF WholeInv, WalkInv, WalkOK, IInv, RingTypeOK
  <2>2. PICK s \in Num, l \in 0 .. M - 1 : \E frame \in [0 .. l -> FrameOf(a)] :
          /\ frame[0].first /\ frame[l].last
          /\ \A k \in 0 .. l : frame[k].seq = Plus(s, k)
    BY DEF CutIntoFrames
  <2>3. PICK frame \in [0 .. l -> FrameOf(a)] :
          /\ frame[0].first /\ frame[l].last
          /\ \A k \in 0 .. l : frame[k].seq = Plus(s, k)
    BY <2>2
  <2>4. ASSUME NEW k \in 0 .. l
        PROVE  /\ Plus(s, k) \in Num /\ Holds(buffer, size, Plus(s, k))
               /\ At(buffer, size, Plus(s, k)).pkt = frame[k] /\ frame[k].ts = a.ts
    <3>1. /\ frame[k] \in Packets /\ frame[k].ts = a.ts /\ frame[k].seq = Plus(s, k)
          /\ InRing(frame[k])
      BY <2>3 DEF FrameOf
    <3>2. Plus(s, k) \in Num
      BY <3>1, PacketsAssumption DEF Packet
    <3>3. Index(Plus(s, k), size) \in 0 .. size - 1
      BY <2>1, <3>2, IndexType
    <3>4. /\ Holds(buffer, size, Plus(s, k))
          /\ At(buffer, size, Plus(s, k)).pkt.id = frame[k].id
      BY <3>1 DEF InRing, At
    <3>5. At(buffer, size, Plus(s, k)).pkt \in Packets
      BY <2>1, <3>3, <3>4 DEF Holds, At, HeldAreSent
    <3>6. At(buffer, size, Plus(s, k)).pkt = frame[k]
      BY <3>1, <3>4, <3>5 DEF UniqueIds
    <3> QED BY <3>1, <3>2, <3>4, <3>6
  <2> DEFINE S == {k \in 0 .. l : ~ Reached(buffer, size, Plus(s, k))}
  <2>5. S = {}
    <3> SUFFICES ASSUME S # {} PROVE FALSE
      OBVIOUS
    <3>1. S \in SUBSET Nat
      BY HalfFacts
    <3>2. PICK k \in S : \A x \in S : k <= x
      <4> HIDE DEF S
      <4> QED BY <3>1, SmallestIndex
    <3>3. k \in 0 .. l /\ ~ Reached(buffer, size, Plus(s, k))
      OBVIOUS
    <3>4. /\ Plus(s, k) \in Num /\ Holds(buffer, size, Plus(s, k))
          /\ At(buffer, size, Plus(s, k)).pkt = frame[k] /\ frame[k].ts = a.ts
      BY <2>4, <3>3
    <3>5. CASE k = 0
      <4>1. Plus(s, k) \in Overlooked(buffer, size)
        BY <2>3, <3>3, <3>4, <3>5 DEF Overlooked
      <4> QED BY <2>1, <4>1
    <3>6. CASE k # 0
      <4>1. k - 1 \in 0 .. l /\ ~ (k <= k - 1) /\ k \in 1 .. M - 1
        BY <3>3, <3>6, HalfFacts
      <4>2. k - 1 \notin S
        BY <3>2, <4>1
      <4>3. Reached(buffer, size, Plus(s, k - 1))
        BY <4>1, <4>2
      <4>4. Pred(Plus(s, k)) = Plus(s, k - 1)
        BY <3>4, <4>1, Neighbours
      <4>5. At(buffer, size, Plus(s, k - 1)).pkt.ts = a.ts
        BY <2>4, <4>1
      <4>6. Linked(buffer, size, Plus(s, k))
        BY <3>4, <4>3, <4>4, <4>5 DEF Linked, Reached
      <4>7. Plus(s, k) \in Overlooked(buffer, size)
        BY <3>3, <3>4, <4>3, <4>4, <4>6 DEF Overlooked
      <4> QED BY <2>1, <4>7
    <3> QED BY <3>5, <3>6
  <2>6. l \in 0 .. l
    OBVIOUS
  <2>7. Reached(buffer, size, Plus(s, l))
    BY <2>5, <2>6
  <2> QED BY <2>1, <2>3, <2>4, <2>6, <2>7 DEF NoEndWaits
<1>2. WholeInv => (Regular(size) => NoCompleteFrameWaits)
  BY <1>1
<1>3. WholeInv /\ [Next]_vars => WholeInv'
  BY WholeNext
<1> QED BY <1>2, <1>3, WholeInit, PTL DEF Spec
-----------------------------------------------------------------------------
\* Re-indexing puts one of the packets that claim a slot there.
LEMMA ClaimedSlotIsTaken ==
  ASSUME RingTypeOK, ExpandedSize = MaxSize, NEW p \in Packets, Holds(buffer, size, p.seq)
  PROVE  \E q \in Rivals(p) :
           /\ q \in Packet /\ Index(q.seq, MaxSize) = Index(p.seq, MaxSize)
           /\ \E i \in 0 .. size - 1 :
                /\ buffer[i] # None /\ buffer[i].pkt = q
                /\ ExpandedBuffer[Index(p.seq, MaxSize)] = buffer[i]
<1> DEFINE n == MaxSize
           claims(k) == {j \in 0 .. size - 1 :
                           buffer[j] # None /\ Index(buffer[j].pkt.seq, n) = k}
           slot == Index(p.seq, n)
           i == Max(claims(slot))
<1>1. /\ p.seq \in Num /\ size \in StartSize .. MaxSize /\ n \in StartSize .. MaxSize
      /\ size \in Nat /\ buffer \in Ring(size)
  BY PacketsAssumption, SizeAssumption DEF Packet, RingTypeOK
<1>2. slot \in 0 .. n - 1 /\ Index(p.seq, size) \in 0 .. size - 1
  BY <1>1, IndexType
<1>3. ExpandedBuffer =
        [k \in 0 .. n - 1 |-> IF claims(k) = {} THEN None ELSE buffer[Max(claims(k))]]
  BY DEF ExpandedBuffer
<1>4. Index(p.seq, size) \in claims(slot)
  BY <1>2 DEF Holds
<1>5. i \in claims(slot)
  <2>1. claims(slot) \in SUBSET (0 .. size - 1) /\ claims(slot) # {}
    BY <1>4
  <2> HIDE DEF claims
  <2> QED BY <1>1, <2>1, LargestIndex
<1>6. i \in 0 .. size - 1 /\ buffer[i] # None /\ Index(buffer[i].pkt.seq, n) = slot
  BY <1>5
<1>7. ExpandedBuffer[slot] = buffer[i]
  <2> HIDE DEF claims, slot
  <2> QED BY <1>2, <1>3, <1>4
<1>8. buffer[i].pkt \in Packet
  <2> HIDE DEF i
  <2> QED BY <1>1, <1>6 DEF Ring, Entry
<1> HIDE DEF i
<1>9. buffer[i].pkt \in Rivals(p)
  BY <1>6 DEF Rivals, Claims
<1> QED BY <1>6, <1>7, <1>8, <1>9

\* find_frames loses no packet: it stays in its slot or is in a frame.
LEMMA FoundKeeps ==
  ASSUME NEW n \in StartSize .. MaxSize, NEW b \in Ring(n), Placed(b, n),
         NEW m, NEW seq, NEW s \in Num, Holds(b, n, s)
  PROVE  LET r == FindFrames(b, n, m, seq)
         IN  \/ /\ Holds(r.buffer, n, s)
                /\ At(r.buffer, n, s).pkt.id = At(b, n, s).pkt.id
             \/ At(b, n, s).pkt.id \in Ids(r.frames)
<1> DEFINE visited == Visited(b, n, seq)
           ends    == {j \in visited : b[Index(Plus(seq, j), n)].pkt.last}
           fatal   == {j \in ends : H264 \/ ~ AssertHolds(b, n, Plus(seq, j))}
           done    == {j \in ends : \A f \in fatal : j < f}
           marked  == {Plus(seq, j) : j \in {v \in visited : \A f \in fatal : v <= f}}
           framesOf(t) == {j \in done : t \in FrameSeqs(b, n, Plus(seq, j))}
           cont(e) == e.continuous \/ e.pkt.seq \in marked
           slot(e) ==
             IF framesOf(e.pkt.seq) = {} THEN [e EXCEPT !.continuous = cont(e)]
             ELSE IF MovedFrom = "empty" THEN None
             ELSE [pkt |-> HandedOut(b, n, Plus(seq, Max(framesOf(e.pkt.seq))), e.pkt.seq),
                   continuous |-> cont(e)]
           r == FindFrames(b, n, m, seq)
           i == Index(s, n)
           e == b[i]
<1>1. /\ r.buffer = [k \in 0 .. n - 1 |-> IF b[k] = None THEN None ELSE slot(b[k])]
      /\ r.frames = [k \in 1 .. Cardinality(done) |-> FramePackets(b, n, Plus(seq, Nth(done, k)))]
  BY DEF FindFrames
<1>2. i \in 0 .. n - 1 /\ e \in Entry /\ e # None /\ e.pkt.seq = s
  BY IndexType DEF Holds, Ring
<1>3. ASSUME NEW end
      PROVE  HandedOut(b, n, end, s).seq = s /\ HandedOut(b, n, end, s).id = e.pkt.id
             /\ HandedOut(b, n, end, s) \in Packet
  <2> DEFINE f == (s = Minus(end, FrameReach(b, n, end)))
             l == (s = end)
  <2>1. HandedOut(b, n, end, s) = [e.pkt EXCEPT !.first = f, !.last = l]
    BY DEF HandedOut
  <2>2. f \in BOOLEAN /\ l \in BOOLEAN /\ e.pkt \in Packet
    BY <1>2 DEF Entry
  <2> HIDE DEF f, l, e
  <2> QED BY <1>2, <2>1, <2>2 DEF Packet
<1>4. r.buffer[i] = slot(e)
  BY <1>1, <1>2
<1>5. CASE framesOf(s) = {}
  <2>1. slot(e) = [e EXCEPT !.continuous = cont(e)]
    BY <1>2, <1>5
  <2> HIDE DEF slot, cont, e, r
  <2>2. slot(e) # None /\ slot(e).pkt = e.pkt
    <3>1. cont(e) \in BOOLEAN
      BY <1>2 DEF cont, Entry
    <3>2. slot(e) \in Entry /\ slot(e).pkt = e.pkt
      BY <1>2, <2>1, <3>1 DEF Entry
    <3> QED BY <3>2, NoneAssumption
  <2>3. Holds(r.buffer, n, s) /\ At(r.buffer, n, s).pkt.id = e.pkt.id
    BY <1>2, <1>4, <2>2 DEF Holds, At
  <2> QED BY <2>3 DEF r, At, e
<1>6. CASE framesOf(s) # {} /\ MovedFrom # "empty"
  <2> DEFINE h == HandedOut(b, n, Plus(seq, Max(framesOf(s))), s)
  <2>1. slot(e) = [pkt |-> h, continuous |-> cont(e)]
    BY <1>2, <1>6
  <2>2. h.seq = s /\ h.id = e.pkt.id /\ h \in Packet
    BY <1>3
  <2> HIDE DEF slot, cont, e, r, h
  <2>3. slot(e) # None /\ slot(e).pkt = h
    <3>1. cont(e) \in BOOLEAN
      BY <1>2 DEF cont, Entry
    <3>2. slot(e) \in Entry /\ slot(e).pkt = h
      BY <2>1, <2>2, <3>1 DEF Entry
    <3> QED BY <3>2, NoneAssumption
  <2>4. Holds(r.buffer, n, s) /\ At(r.buffer, n, s).pkt.id = e.pkt.id
    BY <1>2, <1>4, <2>2, <2>3 DEF Holds, At
  <2> QED BY <2>4 DEF r, At, e
<1>7. CASE framesOf(s) # {} /\ MovedFrom = "empty"
  <2>1. PICK j \in done : s \in FrameSeqs(b, n, Plus(seq, j))
    BY <1>7
  <2>2. done \in SUBSET (0 .. n - 1)
    BY DEF Visited
  <2> DEFINE end == Plus(seq, j)
             R == FrameReach(b, n, end)
             f == FramePackets(b, n, end)
  <2> HIDE DEF done
  <2>3. PICK k \in 1 .. Cardinality(done) : Nth(done, k) = j
    BY <2>2, SizeFacts, NthIsOnto
  <2>4. k \in DOMAIN r.frames /\ r.frames[k] = f
    BY <1>1, <2>3
  <2>5. PICK q \in 0 .. R : s = Minus(end, q)
    BY <2>1 DEF FrameSeqs
  <2>6. R \in Nat /\ f = [l \in 1 .. R + 1 |-> HandedOut(b, n, end, Minus(end, R + 1 - l))]
    BY ReachType DEF FramePackets
  <2> HIDE DEF R, f, end, r, e
  <2>7. R + 1 - q \in 1 .. R + 1 /\ R + 1 - (R + 1 - q) = q
    BY <2>5, <2>6
  <2>8. R + 1 - q \in DOMAIN f /\ f[R + 1 - q] = HandedOut(b, n, end, s)
    BY <2>5, <2>6, <2>7
  <2>9. f[R + 1 - q].id = e.pkt.id
    BY <1>3, <2>8
  <2>10. e.pkt.id \in Ids(r.frames)
    BY <2>4, <2>8, <2>9 DEF Ids
  <2> QED BY <2>10 DEF At, r, e
<1> QED BY <1>5, <1>6, <1>7

\* Expanding the ring loses a packet only to another one that claims the same
\* slot, whatever the two sizes are to each other, and of those that claim a slot
\* one stays (ExpansionLosesOnlyRivals, frame_assembler.cpp:289-307).
THEOREM ExpansionKeepsOnePerSlot == Spec => ExpansionLosesOnlyRivals
<1> DEFINE Step == size' # size /\ newest' # None =>
                     \A p \in Packets :
                       InRing(p) => \E q \in Rivals(p) : InRing(q)' \/ q.id \in Ids(assembled')
<1>1. WalkInv /\ [Next]_vars => Step
  <2> SUFFICES ASSUME WalkInv, [Next]_vars, size' # size, newest' # None,
                      NEW p \in Packets, InRing(p)
               PROVE  \E q \in Rivals(p) : InRing(q)' \/ q.id \in Ids(assembled')
    BY Zenon
  <2>1. RingTypeOK /\ ExpandedSize = MaxSize /\ p.seq \in Num
    BY GrowsToMax, PacketsAssumption DEF WalkInv, IInv, Packet
  <2>2. PICK new \in Packets : InsertAfterExpanding(new)
    <3>1. ASSUME NEW new \in Packets, InsertIntoFreeSlot(new) PROVE FALSE
      BY <3>1, StoreFound DEF InsertIntoFreeSlot
    <3> QED
      BY <3>1 DEF Next, Insert, InsertDuplicate, InsertClears, PopAssembledFrame, vars
  <2>3. Store(new, ExpandedBuffer, MaxSize) /\ ExpandedBuffer[Index(new.seq, MaxSize)] = None
    BY <2>1, <2>2 DEF InsertAfterExpanding
  <2> DEFINE n == MaxSize
             d == WithPacket(ExpandedBuffer, n, new)
             r == FindFrames(d, n, UpdatedMissing(new.seq), new.seq)
  <2>4. size' = n /\ buffer' = r.buffer /\ assembled' = r.frames
    BY <2>3, StoreFound
  <2>5. n \in StartSize .. MaxSize /\ ExpandedBuffer \in Ring(n) /\ Placed(ExpandedBuffer, n)
    BY <2>1, ExpandedRing
  <2>6. d \in Ring(n) /\ Placed(d, n)
    <3>1. new \in Packet /\ new.seq \in Num /\ Index(new.seq, n) \in 0 .. n - 1
      BY <2>5, PacketsAssumption, IndexType DEF Packet
    <3>2. Kept(new) \in Entry \cup {None} /\ (Kept(new) # None => Kept(new).pkt = new)
      BY <3>1 DEF Kept, Entry
    <3> QED BY <2>5, <3>1, <3>2 DEF WithPacket, Ring, Placed
  <2>7. PICK q \in Rivals(p) :
          /\ q \in Packet /\ Index(q.seq, n) = Index(p.seq, n)
          /\ \E i \in 0 .. size - 1 :
               /\ buffer[i] # None /\ buffer[i].pkt = q
               /\ ExpandedBuffer[Index(p.seq, n)] = buffer[i]
    BY <2>1, ClaimedSlotIsTaken DEF InRing
  <2>8. q.seq \in Num /\ Index(q.seq, n) \in 0 .. n - 1
    BY <2>5, <2>7, IndexType DEF Packet
  <2>9. ExpandedBuffer[Index(q.seq, n)] # None /\ ExpandedBuffer[Index(q.seq, n)].pkt = q
    BY <2>7
  <2>10. Holds(d, n, q.seq) /\ At(d, n, q.seq).pkt.id = q.id
    <3>1. Index(q.seq, n) # Index(new.seq, n)
      BY <2>3, <2>9
    <3>2. d[Index(q.seq, n)] = ExpandedBuffer[Index(q.seq, n)]
      BY <2>5, <2>8, <3>1 DEF WithPacket, Ring
    <3> HIDE DEF d
    <3> QED BY <2>9, <3>2 DEF Holds, At
  <2> HIDE DEF d, n
  <2>11. \/ Holds(r.buffer, n, q.seq) /\ At(r.buffer, n, q.seq).pkt.id = q.id
         \/ q.id \in Ids(r.frames)
    BY <2>5, <2>6, <2>8, <2>10, FoundKeeps
  <2>12. InRing(q)' \/ q.id \in Ids(assembled')
    BY <2>4, <2>11 DEF InRing, At
  <2> QED BY <2>12
<1> HIDE DEF Step
<1>2. Spec => [][Step]_vars
  BY <1>1, WalkInvHolds, PTL DEF Spec
<1> QED BY <1>2 DEF ExpansionLosesOnlyRivals, Step

-----------------------------------------------------------------------------
\* The numbers of a window, less than half of the cycle, that starts at base.
InWindow(base, s) == ForwardDiff(base, s) < Half

\* All that insert compares with the number of p lies in one window: p is neither
\* half a cycle late, nor half a cycle ahead of what is still in the ring.
Near(p) ==
  \E base \in Num :
    /\ InWindow(base, p.seq)
    /\ newest # None => InWindow(base, newest)
    /\ \A e \in missing : InWindow(base, e)
    /\ \A s \in Num : Holds(buffer, size, s) => InWindow(base, s)
NearStream == [][\A p \in Packets : Insert(p) => Near(p)]_vars

\* In a window, being ahead is being further from its start.
LEMMA WindowOrder ==
  ASSUME NEW base \in Num, NEW a \in Num, NEW b \in Num,
         InWindow(base, a), InWindow(base, b)
  PROVE  AheadOf(a, b) <=> ForwardDiff(base, b) < ForwardDiff(base, a)
BY HalfFacts
   DEF Num, InWindow, AheadOf, AheadOrAt, MinDiff, ForwardDiff, ReverseDiff

\* What a number of the window skips lies between the newest one and itself.
LEMMA SkippedLieBetween ==
  ASSUME NEW base \in Num, NEW n \in Num, NEW s \in Num, AheadOf(s, n),
         InWindow(base, n), InWindow(base, s)
  PROVE  LET old  == Minus(s, PaddingAge)
             from == IF AheadOf(old, n) THEN old ELSE n
         IN  \A e \in Skipped(from, s) :
               /\ e \in Num
               /\ ForwardDiff(base, n) < ForwardDiff(base, e)
               /\ ForwardDiff(base, e) < ForwardDiff(base, s)
<1> DEFINE old  == Minus(s, PaddingAge)
           from == IF AheadOf(old, n) THEN old ELSE n
<1>1. old \in Num
  <2>1. PaddingAge \in 0 .. M
    BY HalfFacts, AgeAssumption
  <2> QED BY <2>1, PlusMinusType
<1>2. ForwardDiff(base, n) < ForwardDiff(base, s)
  BY WindowOrder
<1>3. /\ from \in Num /\ ForwardDiff(base, n) <= ForwardDiff(base, from)
      /\ ForwardDiff(base, from) < ForwardDiff(base, s)
  <2>1. CASE AheadOf(old, n)
    <3>1. ForwardDiff(n, old) \in 1 .. Half
      BY <1>1, <2>1, AheadOfDistance
    <3>2. from = old
      BY <2>1
    <3> HIDE DEF from
    <3>3. /\ ForwardDiff(base, n) <= ForwardDiff(base, old)
          /\ ForwardDiff(base, old) < ForwardDiff(base, s)
      BY <1>1, <1>2, <3>1, HalfFacts, AgeAssumption
      DEF Num, InWindow, ForwardDiff, Minus
    <3> QED BY <1>1, <3>2, <3>3
  <2>2. CASE ~ AheadOf(old, n)
    <3>1. from = n
      BY <2>2
    <3>2. ForwardDiff(base, n) \in Nat
      BY HalfFacts DEF Num, ForwardDiff
    <3> HIDE DEF from
    <3> QED BY <1>2, <3>1, <3>2
  <2> QED BY <2>1, <2>2
<1> HIDE DEF from, old
<1>4. ASSUME NEW e \in Skipped(from, s)
      PROVE  /\ e \in Num
             /\ ForwardDiff(base, n) < ForwardDiff(base, e)
             /\ ForwardDiff(base, e) < ForwardDiff(base, s)
  <2>1. e \in Num /\ ForwardDiff(from, e) \in 1 .. ForwardDiff(from, s) - 1
    BY DEF Skipped
  <2>2. /\ ForwardDiff(base, from) < ForwardDiff(base, e)
        /\ ForwardDiff(base, e) < ForwardDiff(base, s)
    BY <1>3, <2>1, HalfFacts DEF Num, InWindow, ForwardDiff
  <2>3. /\ ForwardDiff(base, n) \in Nat /\ ForwardDiff(base, from) \in Nat
        /\ ForwardDiff(base, e) \in Nat
    BY <1>3, <2>1, HalfFacts DEF Num, ForwardDiff
  <2> QED BY <1>3, <2>1, <2>2, <2>3
<1> QED BY <1>4 DEF from, old

\* find_frames and expand_buffer put no number into the ring.
LEMMA FoundHoldsNoOther ==
  ASSUME NEW n \in StartSize .. MaxSize, NEW b \in Ring(n), Placed(b, n),
         NEW m, NEW seq, NEW s \in Num,
         Holds(FindFrames(b, n, m, seq).buffer, n, s)
  PROVE  Holds(b, n, s)
<1> DEFINE c == FindFrames(b, n, m, seq).buffer
<1>1. Index(s, n) \in 0 .. n - 1
  BY IndexType
<1>2. c[Index(s, n)] # None => /\ b[Index(s, n)] # None
                              /\ c[Index(s, n)].pkt.seq = b[Index(s, n)].pkt.seq
  BY <1>1, FindFramesRing
<1>3. Holds(c, n, s)
  OBVIOUS
<1> HIDE DEF c
<1> QED BY <1>2, <1>3 DEF Holds

\* Re-indexing finds its packets in the smaller ring.
LEMMA ExpandedHoldsNoOther ==
  ASSUME RingTypeOK, SlotPlacement, NEW s \in Num, Holds(ExpandedBuffer, ExpandedSize, s)
  PROVE  Holds(buffer, size, s)
<1> DEFINE n == ExpandedSize
           claims(i) == {j \in 0 .. size - 1 :
                           buffer[j] # None /\ Index(buffer[j].pkt.seq, n) = i}
           i == Index(s, n)
<1>1. ExpandedBuffer =
        [k \in 0 .. n - 1 |-> IF claims(k) = {} THEN None ELSE buffer[Max(claims(k))]]
  BY DEF ExpandedBuffer
<1>2. n \in StartSize .. MaxSize /\ i \in 0 .. n - 1 /\ size \in StartSize .. MaxSize
      /\ size \in Nat
  BY ExpandedRing, IndexType, SizeAssumption DEF RingTypeOK
<1>3. claims(i) \in SUBSET (0 .. size - 1)
  OBVIOUS
<1> HIDE DEF n
<1>4. claims(i) # {} /\ ExpandedBuffer[i] = buffer[Max(claims(i))] /\ ExpandedBuffer[i].pkt.seq = s
  BY <1>1, <1>2 DEF Holds, n
<1>5. Max(claims(i)) \in claims(i)
  <2> HIDE DEF claims
  <2> QED BY <1>2, <1>3, <1>4, LargestIndex
<1>6. PICK j \in 0 .. size - 1 : buffer[j] # None /\ buffer[j].pkt.seq = s
  BY <1>4, <1>5
<1> QED BY <1>6 DEF SlotPlacement, Placed, Holds

\* The strengthening of MissingNotHeld: the newest number is the newest one of
\* the ring, and every missing number is older.
NewestInv ==
  /\ IInv
  /\ newest = None => \A s \in Num : ~ Holds(buffer, size, s)
  /\ newest = None => missing = {}
  /\ newest # None => /\ \A s \in Num : Holds(buffer, size, s) => ~ AheadOf(s, newest)
                      /\ \A e \in missing : AheadOf(newest, e)
  /\ MissingNotHeld

\* Nothing is held or missing at first.
LEMMA NewestInit == Init => NewestInv
<1> SUFFICES ASSUME Init PROVE NewestInv
  OBVIOUS
<1>1. IInv /\ newest = None /\ missing = {}
  BY InitEstablishes DEF Init
<1>2. \A i \in 0 .. size - 1 : buffer[i] = None
  BY DEF Init, EmptyBuffer
<1>3. ASSUME NEW s \in Num PROVE ~ Holds(buffer, size, s)
  BY <1>1, <1>2, IndexType DEF IInv, RingTypeOK, Holds
<1> QED BY <1>1, <1>3 DEF NewestInv, MissingNotHeld

\* insert from line 64 on.
LEMMA StoreKeepsNewest ==
  ASSUME NewestInv, NEW p \in Packets, Near(p), NEW n \in StartSize .. MaxSize,
         NEW b \in Ring(n), Placed(b, n), Store(p, b, n),
         \A s \in Num : Holds(b, n, s) => Holds(buffer, size, s)
  PROVE  /\ newest' # None
         /\ \A s \in Num : Holds(buffer', n, s) => ~ AheadOf(s, newest')
         /\ \A e \in missing' : AheadOf(newest', e) /\ ~ Holds(buffer', n, e)
<1> DEFINE d == WithPacket(b, n, p)
           m == UpdatedMissing(p.seq)
           r == FindFrames(d, n, m, p.seq)
<1>1. buffer' = r.buffer /\ missing' = r.missing /\ newest' = UpdatedNewest(p.seq)
  BY StoreFound
<1>2. p \in Packet /\ p.seq \in Num /\ Index(p.seq, n) \in 0 .. n - 1
  BY PacketsAssumption, IndexType DEF Packet
<1>3. d \in Ring(n) /\ Placed(d, n)
  <2>1. Kept(p) \in Entry \cup {None} /\ (Kept(p) # None => Kept(p).pkt = p)
    BY <1>2 DEF Kept, Entry
  <2> QED BY <1>2, <2>1 DEF WithPacket, Ring, Placed
<1>4. missing' \subseteq m
  <2> HIDE DEF d, m
  <2> QED BY <1>1, <1>3, FindFramesRing
<1>5. ASSUME NEW s \in Num, Holds(buffer', n, s)
      PROVE  s = p.seq \/ Holds(buffer, size, s)
  <2>1. Holds(d, n, s)
    <3> HIDE DEF d, m
    <3> QED BY <1>1, <1>3, <1>5, FoundHoldsNoOther
  <2>2. Index(s, n) \in 0 .. n - 1
    BY IndexType
  <2>3. CASE Index(s, n) = Index(p.seq, n)
    BY <1>2, <2>1, <2>2, <2>3 DEF Holds, WithPacket, Kept, Ring
  <2>4. CASE Index(s, n) # Index(p.seq, n)
    BY <1>2, <2>1, <2>2, <2>4 DEF Holds, WithPacket, Ring
  <2> QED BY <2>3, <2>4
<1> HIDE DEF d, m, r
<1>6. newest # None => newest \in Num
  BY DEF NewestInv, IInv, RingTypeOK
<1>7. missing \subseteq Num
  BY DEF NewestInv, IInv, RingTypeOK
<1>8. CASE newest = None
  <2>1. newest' = p.seq /\ m = {}
    BY <1>1, <1>8 DEF UpdatedNewest, UpdatedMissing, NewestInv, m
  <2>2. ASSUME NEW s \in Num, Holds(buffer', n, s) PROVE ~ AheadOf(s, newest')
    BY <1>5, <1>8, <2>1, <2>2 DEF NewestInv, AheadOf
  <2> QED BY <1>2, <1>4, <2>1, <2>2, NoneAssumption, HalfFacts DEF Num
<1>9. CASE newest # None /\ ~ AheadOf(p.seq, newest)
  <2>1. newest' = newest /\ m = missing \ {p.seq}
    BY <1>1, <1>9 DEF UpdatedNewest, UpdatedMissing, m
  <2>2. ASSUME NEW s \in Num, Holds(buffer', n, s) PROVE ~ AheadOf(s, newest')
    BY <1>5, <1>9, <2>1, <2>2 DEF NewestInv
  <2>3. ASSUME NEW e \in missing' PROVE AheadOf(newest', e) /\ ~ Holds(buffer', n, e)
    BY <1>4, <1>5, <1>7, <1>9, <2>1, <2>3 DEF NewestInv, MissingNotHeld
  <2> QED BY <1>9, <2>1, <2>2, <2>3
<1>10. CASE newest # None /\ AheadOf(p.seq, newest)
  <2>1. PICK base \in Num :
          /\ InWindow(base, p.seq)
          /\ InWindow(base, newest)
          /\ \A e \in missing : InWindow(base, e)
          /\ \A s \in Num : Holds(buffer, size, s) => InWindow(base, s)
    BY <1>10 DEF Near
  <2> DEFINE off(s) == ForwardDiff(base, s)
  <2>2. newest' = p.seq
    BY <1>1, <1>10 DEF UpdatedNewest
  <2>3. \A s \in Num : off(s) \in Nat
    BY HalfFacts DEF Num, ForwardDiff
  <2>4. off(newest) < off(p.seq)
    BY <1>2, <1>6, <1>10, <2>1, WindowOrder
  <2>5. ASSUME NEW s \in Num, Holds(buffer, size, s) PROVE off(s) <= off(newest)
    <3>1. ~ AheadOf(s, newest)
      BY <1>10, <2>5 DEF NewestInv
    <3>2. ~ (off(newest) < off(s))
      BY <1>6, <1>10, <2>1, <2>5, <3>1, WindowOrder
    <3> HIDE DEF off
    <3> QED BY <1>6, <1>10, <2>3, <3>2
  <2>6. ASSUME NEW e \in missing' PROVE e \in Num /\ off(e) < off(p.seq) /\ InWindow(base, e)
                                        /\ ~ Holds(buffer, size, e)
    <3>1. \/ e \in missing
          \/ /\ e \in Num
             /\ off(newest) < off(e) /\ off(e) < off(p.seq)
      BY <1>2, <1>4, <1>6, <1>10, <2>1, <2>6, SkippedLieBetween
      DEF UpdatedMissing, m
    <3>2. CASE e \in missing
      <4>1. e \in Num /\ InWindow(base, e) /\ AheadOf(newest, e) /\ ~ Holds(buffer, size, e)
        BY <1>7, <1>10, <2>1, <3>2 DEF NewestInv, MissingNotHeld
      <4>2. off(e) < off(newest)
        BY <1>6, <1>10, <2>1, <4>1, WindowOrder
      <4> HIDE DEF off
      <4> QED BY <1>2, <1>6, <1>10, <2>3, <2>4, <4>1, <4>2
    <3>3. CASE e \in Num /\ off(newest) < off(e) /\ off(e) < off(p.seq)
      <4>1. InWindow(base, e)
        BY <1>2, <2>1, <2>3, <3>3, HalfFacts DEF InWindow
      <4>2. ~ Holds(buffer, size, e)
        <5> HIDE DEF off
        <5> QED BY <1>6, <1>10, <2>3, <2>5, <3>3
      <4> QED BY <3>3, <4>1, <4>2
    <3> QED BY <3>1, <3>2, <3>3
  <2>7. ASSUME NEW s \in Num, Holds(buffer', n, s) PROVE ~ AheadOf(s, p.seq)
    <3>1. CASE s = p.seq
      BY <3>1 DEF AheadOf
    <3>2. CASE Holds(buffer, size, s)
      <4>1. ~ (off(p.seq) < off(s))
        <5> HIDE DEF off
        <5> QED BY <1>2, <1>6, <1>10, <2>3, <2>4, <2>5, <3>2
      <4> QED BY <1>2, <2>1, <3>2, <4>1, WindowOrder
    <3> QED BY <1>5, <2>7, <3>1, <3>2
  <2>8. ASSUME NEW e \in missing' PROVE AheadOf(p.seq, e) /\ ~ Holds(buffer', n, e)
    <3>1. AheadOf(p.seq, e)
      BY <1>2, <2>1, <2>6, WindowOrder
    <3>2. e # p.seq
      BY <3>1 DEF AheadOf
    <3> QED BY <1>5, <2>6, <3>1, <3>2
  <2> QED BY <1>2, <2>2, <2>7, <2>8, NoneAssumption, HalfFacts DEF Num
<1> QED BY <1>8, <1>9, <1>10

\* Every step keeps it, as long as the packet that is inserted is near.
LEMMA NewestNext ==
  ASSUME NewestInv, [Next]_vars, \A p \in Packets : Insert(p) => Near(p)
  PROVE  NewestInv'
<1>1. RingTypeOK /\ SlotPlacement /\ IInv' /\ size \in StartSize .. MaxSize
  BY NextPreserves DEF NewestInv, IInv, RingTypeOK
<1>2. ASSUME NEW p \in Packets, InsertIntoFreeSlot(p) PROVE NewestInv'
  <2>1. Store(p, buffer, size) /\ size' = size /\ Near(p)
    BY <1>2, StoreFound DEF InsertIntoFreeSlot, Insert
  <2>2. buffer \in Ring(size) /\ Placed(buffer, size)
    BY <1>1 DEF RingTypeOK, SlotPlacement
  <2>3. /\ newest' # None
        /\ \A s \in Num : Holds(buffer', size, s) => ~ AheadOf(s, newest')
        /\ \A e \in missing' : AheadOf(newest', e) /\ ~ Holds(buffer', size, e)
    BY <1>1, <2>1, <2>2, StoreKeepsNewest
  <2> QED BY <1>1, <2>1, <2>3 DEF NewestInv, MissingNotHeld
<1>3. ASSUME NEW p \in Packets, InsertAfterExpanding(p) PROVE NewestInv'
  <2>1. Store(p, ExpandedBuffer, ExpandedSize) /\ size' = ExpandedSize /\ Near(p)
    BY <1>3, StoreFound DEF InsertAfterExpanding, Insert
  <2>2. /\ ExpandedSize \in StartSize .. MaxSize
        /\ ExpandedBuffer \in Ring(ExpandedSize) /\ Placed(ExpandedBuffer, ExpandedSize)
    BY <1>1, ExpandedRing
  <2>3. \A s \in Num : Holds(ExpandedBuffer, ExpandedSize, s) => Holds(buffer, size, s)
    BY <1>1, ExpandedHoldsNoOther
  <2>4. /\ newest' # None
        /\ \A s \in Num : Holds(buffer', ExpandedSize, s) => ~ AheadOf(s, newest')
        /\ \A e \in missing' : AheadOf(newest', e) /\ ~ Holds(buffer', ExpandedSize, e)
    BY <2>1, <2>2, <2>3, StoreKeepsNewest
  <2> QED BY <1>1, <2>1, <2>4 DEF NewestInv, MissingNotHeld
<1>4. ASSUME NEW p \in Packets, InsertClears(p) PROVE NewestInv'
  <2>1. /\ newest' = None /\ missing' = {} /\ size' = ExpandedSize
        /\ buffer' = EmptyBuffer(ExpandedSize) /\ ExpandedSize \in StartSize .. MaxSize
    BY <1>1, <1>4, ExpandedRing DEF InsertClears
  <2>2. ASSUME NEW s \in Num PROVE ~ Holds(buffer', ExpandedSize, s)
    BY <2>1, IndexType DEF Holds, EmptyBuffer
  <2> QED BY <1>1, <2>1, <2>2 DEF NewestInv, MissingNotHeld
<1>5. ASSUME UNCHANGED <<size, buffer, newest, missing>> PROVE NewestInv'
  BY <1>1, <1>5 DEF NewestInv, MissingNotHeld
<1> QED
  BY <1>2, <1>3, <1>4, <1>5
  DEF Next, Insert, InsertDuplicate, PopAssembledFrame, vars

\* In a stream whose packets are near each other no number is reported missing
\* while its packet is in the ring (frame_assembler.cpp:101-125,309-321), whatever
\* is lost, late or duplicated and however far the numbers have wrapped around.
THEOREM NoHeldPacketIsMissing == Spec /\ NearStream => []MissingNotHeld
<1> DEFINE AllNear == \A p \in Packets : Insert(p) => Near(p)
<1>1. NewestInv => MissingNotHeld
  BY DEF NewestInv
<1>2. NewestInv /\ [Next]_vars /\ [AllNear]_vars => NewestInv'
  <2>1. CASE AllNear
    BY <2>1, NewestNext
  <2>2. CASE UNCHANGED vars
    <3> SUFFICES ASSUME NewestInv PROVE NewestInv'
      BY <2>2
    <3>1. IInv'
      BY <2>2, NextPreserves DEF NewestInv
    <3> QED BY <2>2, <3>1 DEF NewestInv, MissingNotHeld, vars
  <2> QED BY <2>1, <2>2
<1> HIDE DEF AllNear
<1>3. Spec /\ [][AllNear]_vars => []MissingNotHeld
  BY <1>1, <1>2, NewestInit, PTL DEF Spec
<1> QED BY <1>3 DEF NearStream, AllNear
=============================================================================
