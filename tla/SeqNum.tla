------------------------------- MODULE SeqNum -------------------------------
(***************************************************************************)
(* Arithmetic on wrapping sequence numbers (common/mod_ops.h and           *)
(* common/sequence_number_util.h).  The C++ templates take the modulus as  *)
(* a template parameter; M = 0 there means "the range of the type".  Here  *)
(* M is the modulus itself: 2^16 for an RTP sequence number, 2^15 for a    *)
(* picture id.  Wrap-around is written with IF on purpose, so that the     *)
(* provers see linear arithmetic only.                                     *)
(***************************************************************************)
EXTENDS Integers

CONSTANT M

\* Every modulus the program uses (2^8, 2^15, 2^16) is even; ties at M/2 are
\* resolved only then.
ASSUME ModulusAssumption == M \in Nat /\ M >= 4 /\ M = 2 * (M \div 2)

Num  == 0 .. M - 1
Half == M \div 2

\* (T)(a + k) and (T)(a - k) for an offset k that does not exceed M.
Plus(a, k)  == IF a + k >= M THEN a + k - M ELSE a + k
Minus(a, k) == IF a >= k THEN a - k ELSE a - k + M
Succ(a) == Plus(a, 1)
Pred(a) == Minus(a, 1)

ForwardDiff(a, b) == IF a <= b THEN b - a ELSE M - (a - b)
ReverseDiff(a, b) == IF b <= a THEN a - b ELSE M - (b - a)
MinDiff(a, b) ==
  LET f == ForwardDiff(a, b)
      r == ReverseDiff(a, b)
  IN  IF f <= r THEN f ELSE r

\* Numbers half a cycle apart are ordered by value.
AheadOrAt(a, b) ==
  IF MinDiff(a, b) = Half THEN b < a ELSE ForwardDiff(b, a) <= Half

AheadOf(a, b) == a # b /\ AheadOrAt(a, b)

\* The comparator of std::set/std::map<uint16_t, DescendingSeqNumComp>: the
\* iteration order is oldest first.  It orders a set only while the set covers
\* at most half of the numbers (OrderedBy).
Before(a, b) == AheadOf(b, a)

OrderedBy(S) ==
  \A a, b, c \in S : Before(a, b) /\ Before(b, c) => Before(a, c)

\* [begin, lower_bound(x)) and [begin, upper_bound(x)) of such a set.
BelowLowerBound(S, x) == {e \in S : Before(e, x)}
\* Mutant: the comparator the other way round.
AboveUpperBound(S, x) == {e \in S : Before(x, e)}
BelowUpperBound(S, x) == {e \in S : ~ Before(x, e)}

\* SeqNumUnwrapper::Unwrap on the pair (last_value_, last_unwrapped_); an
\* unwrapper that has seen nothing is the record with value = fresh.
Fresh == -1
FreshUnwrapper == [value |-> Fresh, unwrapped |-> 0]
\* Mutant: an older value is taken for one of the next cycle.
UnwrapForward(u, v) ==
  [value     |-> v,
   unwrapped |-> IF u.value = Fresh THEN v ELSE u.unwrapped + ForwardDiff(u.value, v)]
Unwrap(u, v) ==
  [value     |-> v,
   unwrapped |-> IF u.value = Fresh THEN v
                 ELSE u.unwrapped + ForwardDiff(u.value, v)
                      - (IF AheadOrAt(v, u.value) THEN 0 ELSE M)]

=============================================================================
