------------------------ MODULE StashedFramesProofs ------------------------
(***************************************************************************)
(* What the stash of a reference finder does with frames, for every        *)
(* finder: Decide may be any operator that keeps the books the way the     *)
(* ManageFrameInternal of the finders does.  The theorems about a finder   *)
(* take an instance of this module and show that its Decide does.          *)
(*                                                                         *)
(* The loops of the code are recursive functions.  That such a function    *)
(* exists, and what it computes, is shown along the smallest place where   *)
(* it would fail.                                                          *)
(***************************************************************************)
EXTENDS StashedFrames, SequenceTheorems, WellFoundedInduction, TLAPS

\* A set of naturals that is not empty has a smallest element.
LEMMA Smallest ==
  ASSUME NEW S \in SUBSET Nat, S # {}
  PROVE  \E n \in S : \A m \in S : n <= m
<1> DEFINE R == OpToRel(<, Nat)
<1>1. IsWellFoundedOn(R, Nat)
  BY NatLessThanWellFounded
<1>2. PICK t \in S : \A u \in S : ~ (<<u, t>> \in R)
  <2> HIDE DEF R
  <2> QED BY <1>1, WFMin
<1>3. \A u \in S : ~ (u < t)
  BY <1>2 DEF OpToRel
<1> QED BY <1>3

\* What holds at first, and is handed on from each place to the next one, holds
\* at the end.
LEMMA ReachesEnd ==
  ASSUME NEW n \in Nat, NEW Good \in SUBSET (0 .. n), 0 \in Good,
         \A i \in 1 .. n : i - 1 \in Good => i \in Good
  PROVE  n \in Good
<1> SUFFICES ASSUME n \notin Good PROVE FALSE
  OBVIOUS
<1> DEFINE Bad == (0 .. n) \ Good
<1>1. Bad \in SUBSET Nat /\ Bad # {}
  OBVIOUS
<1>2. PICK i \in Bad : \A j \in Bad : i <= j
  BY <1>1, Smallest
<1>3. i \in 1 .. n /\ i - 1 \in 0 .. n
  OBVIOUS
<1>4. i - 1 \notin Bad
  <2> HIDE DEF Bad
  <2> QED BY <1>1, <1>2, <1>3
<1> QED BY <1>2, <1>3, <1>4

First(st) == [st |-> [st EXCEPT !.stash = <<>>], complete |-> FALSE]
Keep(kept, f, old) == IF f \in old THEN kept ELSE Append(kept, f)

\* The function by which RetryPass is defined exists.
LEMMA PassIsDefined ==
  ASSUME NEW st, Len(st.stash) \in Nat
  PROVE  \E g :
           /\ g = [i \in 0 .. Len(st.stash) |-> IF i = 0 THEN First(st) ELSE Retry(g[i - 1], st.stash[i])]
           /\ RetryPass(st) = g[Len(st.stash)]
<1> DEFINE Upto(n, g) == g = [i \in 0 .. n |-> IF i = 0 THEN First(st) ELSE Retry(g[i - 1], st.stash[i])]
           Bad == {n \in Nat : ~ \E g : Upto(n, g)}
<1>1. Bad = {}
  <2> SUFFICES ASSUME Bad # {} PROVE FALSE
    OBVIOUS
  <2>1. PICK n \in Bad : \A m \in Bad : n <= m
    BY Smallest
  <2>2. n # 0
    <3> DEFINE b == [i \in 0 .. 0 |-> First(st)]
    <3>1. \A i \in 0 .. 0 : First(st) = IF i = 0 THEN First(st) ELSE Retry(b[i - 1], st.stash[i])
      OBVIOUS
    <3>2. Upto(0, b)
      BY <3>1
    <3> QED BY <3>2
  <2>3. n - 1 \in Nat /\ n - 1 \notin Bad
    <3>1. n \in Nat
      OBVIOUS
    <3> HIDE DEF Bad
    <3> QED BY <2>1, <2>2, <3>1
  <2>4. PICK g : Upto(n - 1, g)
    BY <2>3
  <2> DEFINE h == [i \in 0 .. n |-> IF i < n THEN g[i] ELSE Retry(g[n - 1], st.stash[n])]
  <2>5. ASSUME NEW i \in 0 .. n
        PROVE  h[i] = IF i = 0 THEN First(st) ELSE Retry(h[i - 1], st.stash[i])
    <3>1. CASE i = 0
      BY <2>2, <2>4, <3>1
    <3>2. CASE i \in 1 .. n - 1
      <4>1. h[i] = g[i] /\ h[i - 1] = g[i - 1] /\ i \in 0 .. n - 1
        BY <3>2
      <4>2. g[i] = Retry(g[i - 1], st.stash[i])
        BY <2>4, <3>2, <4>1
      <4> HIDE DEF h
      <4> QED BY <3>2, <4>1, <4>2
    <3>3. CASE i = n
      <4>1. h[n] = Retry(g[n - 1], st.stash[n]) /\ h[n - 1] = g[n - 1]
        BY <2>2
      <4> HIDE DEF h
      <4> QED BY <2>2, <3>3, <4>1
    <3> QED BY <3>1, <3>2, <3>3
  <2>6. Upto(n, h)
    <3>1. h = [i \in 0 .. n |-> h[i]]
      OBVIOUS
    <3> HIDE DEF h
    <3> QED BY <2>5, <3>1
  <2> QED BY <2>1, <2>6
<1>2. \E g : Upto(Len(st.stash), g)
  BY <1>1
<1> QED BY <1>2 DEF RetryPass, First

\* So does that of RetryStashedFrames.
LEMMA PassesAreDefined ==
  ASSUME NEW st, Len(st.stash) \in Nat
  PROVE  \E g :
           /\ g = [i \in 0 .. Len(st.stash) |-> IF i = 0 THEN RetryPass(st) ELSE Repeat(g[i - 1])]
           /\ RetryStashedFrames(st) = g[Len(st.stash)].st
<1> DEFINE Upto(n, g) == g = [i \in 0 .. n |-> IF i = 0 THEN RetryPass(st) ELSE Repeat(g[i - 1])]
           Bad == {n \in Nat : ~ \E g : Upto(n, g)}
<1>1. Bad = {}
  <2> SUFFICES ASSUME Bad # {} PROVE FALSE
    OBVIOUS
  <2>1. PICK n \in Bad : \A m \in Bad : n <= m
    BY Smallest
  <2>2. n # 0
    <3> DEFINE b == [i \in 0 .. 0 |-> RetryPass(st)]
    <3>1. \A i \in 0 .. 0 : RetryPass(st) = IF i = 0 THEN RetryPass(st) ELSE Repeat(b[i - 1])
      OBVIOUS
    <3>2. Upto(0, b)
      BY <3>1
    <3> QED BY <3>2
  <2>3. n - 1 \in Nat /\ n - 1 \notin Bad
    <3>1. n \in Nat
      OBVIOUS
    <3> HIDE DEF Bad
    <3> QED BY <2>1, <2>2, <3>1
  <2>4. PICK g : Upto(n - 1, g)
    BY <2>3
  <2> DEFINE h == [i \in 0 .. n |-> IF i < n THEN g[i] ELSE Repeat(g[n - 1])]
  <2>5. ASSUME NEW i \in 0 .. n
        PROVE  h[i] = IF i = 0 THEN RetryPass(st) ELSE Repeat(h[i - 1])
    <3>1. CASE i = 0
      BY <2>2, <2>4, <3>1
    <3>2. CASE i \in 1 .. n - 1
      <4>1. h[i] = g[i] /\ h[i - 1] = g[i - 1] /\ i \in 0 .. n - 1
        BY <3>2
      <4>2. g[i] = Repeat(g[i - 1])
        BY <2>4, <3>2, <4>1
      <4> HIDE DEF h
      <4> QED BY <3>2, <4>1, <4>2
    <3>3. CASE i = n
      <4>1. h[n] = Repeat(g[n - 1]) /\ h[n - 1] = g[n - 1]
        BY <2>2
      <4> HIDE DEF h
      <4> QED BY <2>2, <3>3, <4>1
    <3> QED BY <3>1, <3>2, <3>3
  <2>6. Upto(n, h)
    <3>1. h = [i \in 0 .. n |-> h[i]]
      OBVIOUS
    <3> HIDE DEF h
    <3> QED BY <2>5, <3>1
  <2> QED BY <2>1, <2>6
<1>2. \E g : Upto(Len(st.stash), g)
  BY <1>1
<1> QED BY <1>2 DEF RetryStashedFrames

\* And that of Without.
LEMMA KeptIsDefined ==
  ASSUME NEW s, NEW old, Len(s) \in Nat
  PROVE  \E g :
           /\ g = [i \in 0 .. Len(s) |-> IF i = 0 THEN <<>> ELSE Keep(g[i - 1], s[i], old)]
           /\ Without(s, old) = g[Len(s)]
<1> DEFINE Upto(n, g) == g = [i \in 0 .. n |-> IF i = 0 THEN <<>> ELSE Keep(g[i - 1], s[i], old)]
           Bad == {n \in Nat : ~ \E g : Upto(n, g)}
<1>1. Bad = {}
  <2> SUFFICES ASSUME Bad # {} PROVE FALSE
    OBVIOUS
  <2>1. PICK n \in Bad : \A m \in Bad : n <= m
    BY Smallest
  <2>2. n # 0
    <3> DEFINE b == [i \in 0 .. 0 |-> <<>>]
    <3>1. \A i \in 0 .. 0 : <<>> = IF i = 0 THEN <<>> ELSE Keep(b[i - 1], s[i], old)
      OBVIOUS
    <3>2. Upto(0, b)
      BY <3>1
    <3> QED BY <3>2
  <2>3. n - 1 \in Nat /\ n - 1 \notin Bad
    <3>1. n \in Nat
      OBVIOUS
    <3> HIDE DEF Bad
    <3> QED BY <2>1, <2>2, <3>1
  <2>4. PICK g : Upto(n - 1, g)
    BY <2>3
  <2> DEFINE h == [i \in 0 .. n |-> IF i < n THEN g[i] ELSE Keep(g[n - 1], s[n], old)]
  <2>5. ASSUME NEW i \in 0 .. n
        PROVE  h[i] = IF i = 0 THEN <<>> ELSE Keep(h[i - 1], s[i], old)
    <3>1. CASE i = 0
      BY <2>2, <2>4, <3>1
    <3>2. CASE i \in 1 .. n - 1
      <4>1. h[i] = g[i] /\ h[i - 1] = g[i - 1] /\ i \in 0 .. n - 1
        BY <3>2
      <4>2. g[i] = Keep(g[i - 1], s[i], old)
        BY <2>4, <3>2, <4>1
      <4> HIDE DEF h
      <4> QED BY <3>2, <4>1, <4>2
    <3>3. CASE i = n
      <4>1. h[n] = Keep(g[n - 1], s[n], old) /\ h[n - 1] = g[n - 1]
        BY <2>2
      <4> HIDE DEF h
      <4> QED BY <2>2, <3>3, <4>1
    <3> QED BY <3>1, <3>2, <3>3
  <2>6. Upto(n, h)
    <3>1. h = [i \in 0 .. n |-> h[i]]
      OBVIOUS
    <3> HIDE DEF h
    <3> QED BY <2>5, <3>1
  <2> QED BY <2>1, <2>6
<1>2. \E g : Upto(Len(s), g)
  BY <1>1
<1> QED BY <1>2 DEF Without, Keep

-----------------------------------------------------------------------------
Fields == {"stash", "handed", "dropped"}
Queue(s) == s \in Seq(Range(s))
Out(st) == [k \in DOMAIN st.handed |-> st.handed[k].frame]

\* The books of a finder that has been given the frames S: each frame is in one
\* place, once.
Accounts(st, S) ==
  /\ Fields \subseteq DOMAIN st
  /\ Queue(st.stash) /\ Queue(st.handed)
  /\ IsInjective(Out(st)) /\ IsInjective(st.stash)
  /\ Range(Out(st)) \cap Range(st.stash) = {}
  /\ st.dropped \cap (Range(Out(st)) \cup Range(st.stash)) = {}
  /\ Range(Out(st)) \cup Range(st.stash) \cup st.dropped = S

\* What ManageFrameInternal does to the books: it hands off the frame itself, or
\* nothing, and leaves stashing and dropping to its caller.
KeepsBooks(r, st, f) ==
  /\ r[1] \in {"stash", "drop", "handoff"}
  /\ Fields \subseteq DOMAIN r[2]
  /\ r[2].stash = st.stash /\ r[2].dropped = st.dropped
  /\ IF r[1] = "handoff"
     THEN \E h : h.frame = f /\ r[2].handed = Append(st.handed, h)
     ELSE r[2].handed = st.handed
Bookkeeping(F) == \A st : \A f \in F : Fields \subseteq DOMAIN st => KeepsBooks(Decide(st, f), st, f)

\* A state of the finder with the same books.
SameBooks(new, st) ==
  /\ Fields \subseteq DOMAIN new
  /\ new.stash = st.stash /\ new.handed = st.handed /\ new.dropped = st.dropped

\* A decision that hands off nothing.
LEMMA JudgedKeepsBooks ==
  ASSUME NEW v \in {"stash", "drop"}, NEW st, NEW new, SameBooks(new, st), NEW f
  PROVE  KeepsBooks(<<v, new>>, st, f)
<1>1. <<v, new>>[1] = v /\ <<v, new>>[2] = new
  OBVIOUS
<1> DEFINE r == <<v, new>>
<1> HIDE DEF r
<1>2. r[1] = v /\ r[2] = new
  BY <1>1 DEF r
<1>3. KeepsBooks(r, st, f)
  BY <1>2 DEF KeepsBooks, SameBooks
<1> QED BY <1>3 DEF r

\* A decision on a state that has the same books.
LEMMA StillKeepsBooks ==
  ASSUME NEW st, NEW new, SameBooks(new, st), NEW f, NEW r, KeepsBooks(r, new, f)
  PROVE  KeepsBooks(r, st, f)
BY DEF KeepsBooks, SameBooks

\* Lists, as functions.
LEMMA ListOf ==
  ASSUME NEW n \in Nat, NEW s, s = [k \in 1 .. n |-> s[k]]
  PROVE  Queue(s) /\ Len(s) = n
<1> DEFINE R == Range(s)
<1>1. DOMAIN s = 1 .. n
  OBVIOUS
<1>2. \A k \in 1 .. n : s[k] \in R
  BY <1>1 DEF Range
<1> HIDE DEF R
<1>3. s \in Seq(R) /\ Len(s) = n
  BY <1>1, <1>2
<1> QED BY <1>3 DEF Queue, R

\* Append, as a function.
LEMMA LengthenedBy ==
  ASSUME NEW s, NEW f, Queue(s)
  PROVE  LET t == Append(s, f)
         IN  /\ Len(s) \in Nat /\ DOMAIN s = 1 .. Len(s)
             /\ t = [k \in 1 .. Len(s) + 1 |-> IF k = Len(s) + 1 THEN f ELSE s[k]]
<1> DEFINE R == Range(s)
<1>1. s \in Seq(R)
  BY DEF Queue
<1> HIDE DEF R
<1>2. Len(s) \in Nat /\ DOMAIN s = 1 .. Len(s)
  BY <1>1
<1>3. Append(s, f) \in Seq(R \cup {f}) /\ Len(Append(s, f)) = Len(s) + 1
  BY <1>1
<1>4. \A k \in 1 .. Len(s) + 1 : Append(s, f)[k] = IF k = Len(s) + 1 THEN f ELSE s[k]
  BY <1>1, <1>2
<1> DEFINE t == Append(s, f)
           T == R \cup {f}
<1> HIDE DEF t, T
<1>5. t = [k \in 1 .. Len(s) + 1 |-> t[k]]
  <2>1. t \in [1 .. Len(t) -> T]
    BY <1>3, LenProperties DEF t, T
  <2>2. Len(t) = Len(s) + 1
    BY <1>3 DEF t
  <2> QED BY <2>1, <2>2
<1> QED BY <1>2, <1>4, <1>5 DEF t

\* Append adds one element behind the others.
LEMMA Appended ==
  ASSUME NEW s, NEW f, Queue(s)
  PROVE  LET t == Append(s, f)
         IN  /\ Queue(t) /\ Range(t) = Range(s) \cup {f} /\ Len(t) = Len(s) + 1
             /\ \A k \in 1 .. Len(s) : t[k] = s[k]
             /\ t[Len(s) + 1] = f
<1> DEFINE n == Len(s)
           t == Append(s, f)
<1>1. /\ n \in Nat /\ DOMAIN s = 1 .. n
      /\ t = [k \in 1 .. n + 1 |-> IF k = n + 1 THEN f ELSE s[k]]
  BY LengthenedBy
<1> HIDE DEF t, n
<1>2. n + 1 \in Nat /\ t = [k \in 1 .. n + 1 |-> t[k]]
  BY <1>1
<1>3. Queue(t) /\ Len(t) = n + 1
  BY <1>2, ListOf
<1>4. (\A k \in 1 .. n : t[k] = s[k]) /\ t[n + 1] = f /\ DOMAIN t = 1 .. n + 1
  BY <1>1
<1>5. Range(t) = Range(s) \cup {f}
  BY <1>1, <1>4 DEF Range
<1> QED BY <1>3, <1>4, <1>5 DEF t, n

\* A frame more at the end of a list that has each frame once.
LEMMA AppendOnce ==
  ASSUME NEW s, NEW f, Queue(s), IsInjective(s), f \notin Range(s)
  PROVE  LET t == Append(s, f)
         IN  Queue(t) /\ IsInjective(t) /\ Range(t) = Range(s) \cup {f}
<1> DEFINE n == Len(s)
           t == Append(s, f)
<1>1. /\ Queue(t) /\ Range(t) = Range(s) \cup {f} /\ Len(t) = n + 1
      /\ \A i \in 1 .. n : t[i] = s[i]
      /\ t[n + 1] = f
  BY Appended
<1>2. n \in Nat /\ DOMAIN s = 1 .. n
  BY LengthenedBy
<1> HIDE DEF n, t
<1>3. DOMAIN t = 1 .. n + 1
  BY <1>1, LengthenedBy
<1>4. (\A i, j \in 1 .. n : s[i] = s[j] => i = j) /\ \A i \in 1 .. n : s[i] # f
  BY <1>2 DEF IsInjective, Range
<1>5. \A i, j \in 1 .. n + 1 : t[i] = t[j] => i = j
  BY <1>1, <1>2, <1>4
<1>6. IsInjective(t)
  BY <1>3, <1>5 DEF IsInjective
<1> QED BY <1>1, <1>6 DEF t

\* The books tell nothing but the three fields.
LEMMA SameAccounts ==
  ASSUME NEW st, NEW S, Accounts(st, S), NEW new, SameBooks(new, st)
  PROVE  Accounts(new, S)
<1>1. Out(new) = Out(st)
  BY DEF Out, SameBooks
<1> QED BY <1>1 DEF Accounts, SameBooks

\* A frame that nobody has seen is stashed again,
LEMMA StashedAgain ==
  ASSUME NEW st, NEW S, Accounts(st, S), NEW f, f \notin S
  PROVE  Accounts([st EXCEPT !.stash = Append(@, f)], S \cup {f})
<1> DEFINE new == [st EXCEPT !.stash = Append(@, f)]
<1>1. /\ Fields \subseteq DOMAIN new /\ new.stash = Append(st.stash, f)
      /\ new.handed = st.handed /\ new.dropped = st.dropped
  BY DEF Accounts, Fields
<1> HIDE DEF new
<1>2. Out(new) = Out(st)
  BY <1>1 DEF Out
<1>3. Queue(st.stash) /\ IsInjective(st.stash) /\ f \notin Range(st.stash)
  BY DEF Accounts
<1>4. /\ Queue(new.stash) /\ IsInjective(new.stash)
      /\ Range(new.stash) = Range(st.stash) \cup {f}
  BY <1>1, <1>3, AppendOnce
<1>5. f \notin Range(Out(st)) \cup st.dropped
  BY DEF Accounts
<1>6. Accounts(new, S \cup {f})
  BY <1>1, <1>2, <1>4, <1>5 DEF Accounts
<1> QED BY <1>6 DEF new

\* given up,
LEMMA DroppedFrame ==
  ASSUME NEW st, NEW S, Accounts(st, S), NEW f, f \notin S
  PROVE  Accounts(Dropped(st, f), S \cup {f})
<1> DEFINE new == Dropped(st, f)
<1>1. /\ Fields \subseteq DOMAIN new /\ new.stash = st.stash
      /\ new.handed = st.handed /\ new.dropped = st.dropped \cup {f}
  BY DEF Accounts, Fields, Dropped
<1> HIDE DEF new
<1>2. Out(new) = Out(st)
  BY <1>1 DEF Out
<1>3. f \notin Range(Out(st)) \cup Range(st.stash)
  BY DEF Accounts
<1>4. Accounts(new, S \cup {f})
  BY <1>1, <1>2, <1>3 DEF Accounts
<1> QED BY <1>4 DEF new

\* or handed off.
LEMMA HandedFrame ==
  ASSUME NEW st, NEW S, Accounts(st, S), NEW f, f \notin S, NEW new, NEW h,
         Fields \subseteq DOMAIN new, new.stash = st.stash, new.dropped = st.dropped,
         new.handed = Append(st.handed, h), h.frame = f
  PROVE  Accounts(new, S \cup {f})
<1> DEFINE hs == st.handed
<1>1. Queue(hs) /\ Len(hs) \in Nat /\ DOMAIN hs = 1 .. Len(hs)
  <2>1. Queue(hs)
    BY DEF Accounts
  <2> HIDE DEF hs
  <2> QED BY <2>1, LengthenedBy
<1>2. Queue(Out(st)) /\ Len(Out(st)) = Len(hs)
  <2>1. Out(st) = [k \in 1 .. Len(hs) |-> Out(st)[k]]
    BY <1>1 DEF Out
  <2> HIDE DEF hs
  <2> QED BY <1>1, <2>1, ListOf
<1> DEFINE e(k) == IF k = Len(hs) + 1 THEN h ELSE hs[k]
<1>3. new.handed = [k \in 1 .. Len(hs) + 1 |-> e(k)]
  BY <1>1, LengthenedBy
<1>4. Queue(new.handed)
  <2>1. Len(hs) + 1 \in Nat
    BY <1>1
  <2> DEFINE l == new.handed
  <2> HIDE DEF e, hs
  <2>2. l = [k \in 1 .. Len(hs) + 1 |-> l[k]]
    BY <1>3
  <2> HIDE DEF l
  <2>3. Queue(l)
    BY <2>1, <2>2, ListOf
  <2> QED BY <2>3 DEF l
<1>5. Out(new) = Append(Out(st), f)
  <2>1. Append(Out(st), f)
          = [k \in 1 .. Len(hs) + 1 |-> IF k = Len(hs) + 1 THEN f ELSE Out(st)[k]]
    BY <1>2, LengthenedBy
  <2>2. \A k \in 1 .. Len(hs) + 1 :
          e(k).frame = IF k = Len(hs) + 1 THEN f ELSE Out(st)[k]
    <3>1. \A k \in 1 .. Len(hs) : Out(st)[k] = hs[k].frame
      BY <1>1 DEF Out
    <3> HIDE DEF hs
    <3> QED BY <1>1, <3>1
  <2>3. Out(new) = [k \in 1 .. Len(hs) + 1 |-> e(k).frame]
    <3> HIDE DEF e, hs
    <3>1. DOMAIN new.handed = 1 .. Len(hs) + 1
      BY <1>3
    <3>2. \A k \in 1 .. Len(hs) + 1 : new.handed[k] = e(k)
      BY <1>3
    <3> QED BY <3>1, <3>2 DEF Out
  <2> HIDE DEF e, hs
  <2> QED BY <2>1, <2>2, <2>3
<1>6. f \notin Range(Out(st)) \cup st.dropped \cup Range(st.stash) /\ IsInjective(Out(st))
  BY DEF Accounts
<1>7. IsInjective(Out(new)) /\ Range(Out(new)) = Range(Out(st)) \cup {f}
  BY <1>2, <1>5, <1>6, AppendOnce
<1> QED BY <1>4, <1>6, <1>7 DEF Accounts

\* A frame of a pass: afterwards it is in the books, and in one place.
LEMMA RetriedFrame ==
  ASSUME NEW F, Bookkeeping(F), NEW pass, NEW S, Accounts(pass.st, S),
         NEW f \in F, f \notin S
  PROVE  Accounts(Retry(pass, f).st, S \cup {f})
<1> DEFINE r == Decide(pass.st, f)
<1>1. KeepsBooks(r, pass.st, f)
  BY DEF Bookkeeping, Accounts
<1> HIDE DEF r
<1>2. CASE r[1] = "handoff"
  <2>1. PICK h : h.frame = f /\ r[2].handed = Append(pass.st.handed, h)
    BY <1>1, <1>2 DEF KeepsBooks
  <2>2. Accounts(r[2], S \cup {f})
    BY <1>1, <2>1, HandedFrame DEF KeepsBooks
  <2>3. Retry(pass, f).st = r[2]
    BY <1>2, Zenon DEF Retry, r
  <2> QED BY <2>2, <2>3
<1>3. CASE r[1] # "handoff"
  <2>1. Accounts(r[2], S)
    BY <1>1, <1>3, SameAccounts DEF KeepsBooks, SameBooks
  <2>2. CASE r[1] = "stash"
    <3>1. Retry(pass, f).st = [r[2] EXCEPT !.stash = Append(@, f)]
      BY <2>2 DEF Retry, r
    <3> QED BY <2>1, <3>1, StashedAgain
  <2>3. CASE r[1] = "drop"
    <3>1. Retry(pass, f).st = Dropped(r[2], f)
      BY <2>3 DEF Retry, r
    <3> QED BY <2>1, <3>1, DroppedFrame
  <2> QED BY <1>1, <1>3, <2>2, <2>3 DEF KeepsBooks
<1> QED BY <1>2, <1>3

\* The pass, as far as it has come: the frames behind are not in the books.
LEMMA PassKeepsBooks ==
  ASSUME NEW F, Bookkeeping(F), NEW st, NEW S \in SUBSET F, Accounts(st, S)
  PROVE  Accounts(RetryPass(st).st, S)
<1> DEFINE n == Len(st.stash)
           Behind(i) == {st.stash[j] : j \in i + 1 .. n}
<1>1. Queue(st.stash) /\ n \in Nat /\ DOMAIN st.stash = 1 .. n
  BY LengthenedBy DEF Accounts
<1>2. PICK pass :
        /\ pass = [i \in 0 .. n |-> IF i = 0 THEN First(st) ELSE Retry(pass[i - 1], st.stash[i])]
        /\ RetryPass(st) = pass[n]
  <2>1. n \in Nat
    BY <1>1
  <2> QED BY <2>1, PassIsDefined
<1> DEFINE Good == {i \in 0 .. n : Accounts(pass[i].st, S \ Behind(i))}
<1>3. Accounts(pass[0].st, S \ Behind(0))
  <2>1. pass[0] = First(st)
    BY <1>1, <1>2
  <2>2. Behind(0) = Range(st.stash)
    BY <1>1 DEF Range
  <2> DEFINE new == First(st).st
  <2>3. /\ Fields \subseteq DOMAIN new /\ new.stash = <<>>
        /\ new.handed = st.handed /\ new.dropped = st.dropped
    BY DEF Accounts, Fields, First
  <2> HIDE DEF new
  <2>4. Out(new) = Out(st)
    BY <2>3 DEF Out
  <2>5. Queue(<<>>) /\ IsInjective(<<>>) /\ Range(<<>>) = {}
    BY DEF Queue, IsInjective, Range
  <2>6. Accounts(new, S \ Range(st.stash))
    BY <2>3, <2>4, <2>5 DEF Accounts
  <2> HIDE DEF Behind
  <2> QED BY <2>1, <2>2, <2>6 DEF new
<1>4. ASSUME NEW i \in 1 .. n, Accounts(pass[i - 1].st, S \ Behind(i - 1))
      PROVE  Accounts(pass[i].st, S \ Behind(i))
  <2> DEFINE f == st.stash[i]
  <2>1. pass[i] = Retry(pass[i - 1], f)
    BY <1>1, <1>2
  <2>2. f \in S
    <3>1. f \in Range(st.stash)
      BY <1>1 DEF Range
    <3> QED BY <3>1 DEF Accounts
  <2>3. Behind(i - 1) = Behind(i) \cup {f} /\ f \notin Behind(i)
    <3>1. \A j, k \in 1 .. n : st.stash[j] = st.stash[k] => j = k
      BY <1>1 DEF Accounts, IsInjective
    <3>2. i \in 1 .. n /\ \A j : j \in i .. n <=> j = i \/ j \in i + 1 .. n
      BY <1>1
    <3> HIDE DEF n
    <3>3. f \notin Behind(i)
      BY <1>1, <3>1, <3>2
    <3>4. (i - 1) + 1 = i
      BY <1>1
    <3>5. Behind(i - 1) = {st.stash[j] : j \in i .. n}
      BY <3>4
    <3>6. Behind(i - 1) = Behind(i) \cup {f}
      BY <3>2, <3>5
    <3> QED BY <3>3, <3>6
  <2> HIDE DEF Behind, f
  <2>4. Accounts(Retry(pass[i - 1], f).st, (S \ Behind(i - 1)) \cup {f})
    <3> DEFINE before == pass[i - 1]
               T == S \ Behind(i - 1)
    <3>1. f \in F /\ f \notin T /\ Accounts(before.st, T)
      BY <1>4, <2>2, <2>3
    <3> HIDE DEF before, T
    <3>2. Accounts(Retry(before, f).st, T \cup {f})
      BY <3>1, RetriedFrame
    <3> QED BY <3>2 DEF before, T
  <2>5. (S \ Behind(i - 1)) \cup {f} = S \ Behind(i)
    BY <2>2, <2>3
  <2> QED BY <2>1, <2>4, <2>5
<1>5. n \in Good
  <2>1. Good \in SUBSET (0 .. n) /\ 0 \in Good
    BY <1>1, <1>3
  <2>2. ASSUME NEW i \in 1 .. n, i - 1 \in Good PROVE i \in Good
    <3>1. i \in 0 .. n
      BY <1>1
    <3> QED BY <1>4, <2>2, <3>1
  <2> HIDE DEF Good
  <2> QED BY <1>1, <2>1, <2>2, ReachesEnd
<1>6. Accounts(pass[n].st, S \ Behind(n))
  BY <1>5
<1>7. Behind(n) = {}
  BY <1>1
<1> HIDE DEF Behind
<1> QED BY <1>2, <1>6, <1>7

\* RetryStashedFrames keeps the books, too.
LEMMA RetryKeepsBooks ==
  ASSUME NEW F, Bookkeeping(F), NEW st, NEW S \in SUBSET F, Accounts(st, S)
  PROVE  Accounts(RetryStashedFrames(st), S)
<1> DEFINE n == Len(st.stash)
<1>1. n \in Nat
  BY LengthenedBy DEF Accounts
<1>2. PICK passes :
        /\ passes = [i \in 0 .. n |-> IF i = 0 THEN RetryPass(st) ELSE Repeat(passes[i - 1])]
        /\ RetryStashedFrames(st) = passes[n].st
  BY <1>1, PassesAreDefined
<1> DEFINE Good == {i \in 0 .. n : Accounts(passes[i].st, S)}
<1>3. Accounts(passes[0].st, S)
  <2>1. passes[0] = RetryPass(st)
    BY <1>1, <1>2
  <2> QED BY <2>1, PassKeepsBooks
<1>4. ASSUME NEW i \in 1 .. n, Accounts(passes[i - 1].st, S)
      PROVE  Accounts(passes[i].st, S)
  <2> DEFINE pass == passes[i - 1]
  <2>1. passes[i] = Repeat(pass)
    <3> HIDE DEF n
    <3> QED BY <1>1, <1>2
  <2>2. Accounts(pass.st, S)
    BY <1>4
  <2> HIDE DEF pass
  <2>3. Accounts(RetryPass(pass.st).st, S)
    BY <2>2, PassKeepsBooks
  <2> QED BY <2>1, <2>2, <2>3 DEF Repeat
<1>5. n \in Good
  <2>1. Good \in SUBSET (0 .. n) /\ 0 \in Good
    BY <1>1, <1>3
  <2>2. ASSUME NEW i \in 1 .. n, i - 1 \in Good PROVE i \in Good
    <3>1. i \in 0 .. n
      BY <1>1
    <3> QED BY <1>4, <2>2, <3>1
  <2> HIDE DEF Good
  <2> QED BY <1>1, <2>1, <2>2, ReachesEnd
<1>6. Accounts(passes[n].st, S)
  BY <1>5
<1> QED BY <1>2, <1>6

\* A list in which each frame is once, taken apart at its end.
LEMMA FrontOnce ==
  ASSUME NEW s, Queue(s), Len(s) # 0
  PROVE  /\ Queue(Front(s)) /\ Range(s) = Range(Front(s)) \cup {Last(s)}
         /\ IsInjective(s) => IsInjective(Front(s)) /\ Last(s) \notin Range(Front(s))
<1> DEFINE n == Len(s) - 1
           t == Front(s)
<1>1. n \in Nat /\ DOMAIN s = 1 .. n + 1 /\ Len(s) = n + 1
  BY LengthenedBy
<1>2. t = [k \in 1 .. n |-> s[k]]
  <2>1. s \in Seq(Range(s))
    BY DEF Queue
  <2> DEFINE R == Range(s)
  <2> HIDE DEF R
  <2> QED BY <1>1, <2>1 DEF Front, R
<1>3. DOMAIN t = 1 .. n /\ \A k \in 1 .. n : t[k] = s[k]
  BY <1>2
<1>4. t = [k \in 1 .. n |-> t[k]]
  <2> HIDE DEF n, t
  <2> QED BY <1>2, <1>3
<1>5. Queue(t)
  <2> HIDE DEF n, t
  <2> QED BY <1>1, <1>4, ListOf
<1>6. IsInjective(s) => \A i, j \in 1 .. n + 1 : s[i] = s[j] => i = j
  BY <1>1 DEF IsInjective
<1>7. Last(s) = s[n + 1]
  BY <1>1 DEF Last
<1> HIDE DEF n, t
<1>8. IsInjective(s) => IsInjective(t)
  <2> SUFFICES ASSUME IsInjective(s) PROVE IsInjective(t)
    OBVIOUS
  <2>1. \A i, j \in 1 .. n : s[i] = s[j] => i = j
    BY <1>1, <1>6
  <2> QED BY <1>3, <2>1 DEF IsInjective
<1>9. /\ \A x : x \in Range(t) <=> \E i \in 1 .. n : x = s[i]
      /\ \A x : x \in Range(s) <=> \E i \in 1 .. n + 1 : x = s[i]
  BY <1>1, <1>3 DEF Range
<1>10. Range(s) = Range(t) \cup {Last(s)}
  BY <1>1, <1>7, <1>9
<1>11. IsInjective(s) => Last(s) \notin Range(t)
  BY <1>1, <1>6, <1>7, <1>9
<1> QED BY <1>5, <1>8, <1>10, <1>11 DEF t

\* A frame at the front.
LEMMA PushedOnce ==
  ASSUME NEW s, NEW f, Queue(s)
  PROVE  LET t == <<f>> \o s
         IN  /\ Queue(t) /\ Range(t) = Range(s) \cup {f}
             /\ IsInjective(s) /\ f \notin Range(s) => IsInjective(t)
<1> DEFINE n == Len(s)
           t == <<f>> \o s
           T == Range(s) \cup {f}
<1>1. n \in Nat /\ DOMAIN s = 1 .. n
  BY LengthenedBy
<1>2. /\ t \in Seq(T) /\ Len(t) = n + 1 /\ DOMAIN t = 1 .. n + 1
      /\ \A k \in 1 .. n + 1 : t[k] = IF k = 1 THEN f ELSE s[k - 1]
  <2>1. s \in Seq(T)
    <3>1. s \in Seq(Range(s))
      BY DEF Queue
    <3> DEFINE R == Range(s)
    <3> HIDE DEF R
    <3> QED BY <3>1 DEF R
  <2>2. <<f>> \in Seq(T) /\ Len(<<f>>) = 1 /\ <<f>>[1] = f
    OBVIOUS
  <2> HIDE DEF T
  <2>3. /\ t \in Seq(T) /\ Len(t) = 1 + n
        /\ \A k \in 1 .. 1 + n : t[k] = IF k <= 1 THEN <<f>>[k] ELSE s[k - 1]
    BY <2>1, <2>2, ConcatProperties
  <2> HIDE DEF t
  <2>4. DOMAIN t = 1 .. Len(t)
    BY <2>3, LenProperties
  <2> HIDE DEF n
  <2> QED BY <1>1, <2>2, <2>3, <2>4
<1>3. IsInjective(s) => \A i, j \in 1 .. n : s[i] = s[j] => i = j
  BY <1>1 DEF IsInjective
<1>4. f \notin Range(s) => \A i \in 1 .. n : s[i] # f
  BY <1>1 DEF Range
<1> HIDE DEF n, t
<1>5. /\ \A x : x \in Range(t) <=> \E i \in 1 .. n + 1 : x = t[i]
      /\ \A x : x \in Range(s) <=> \E i \in 1 .. n : x = s[i]
  BY <1>1, <1>2 DEF Range
<1>6. Range(t) = T
  <2>1. \A x \in Range(s) : x \in Range(t)
    <3> SUFFICES ASSUME NEW i \in 1 .. n PROVE s[i] \in Range(t)
      BY <1>5
    <3>1. i + 1 \in 1 .. n + 1 /\ t[i + 1] = s[i]
      BY <1>1, <1>2
    <3> QED BY <1>5, <3>1
  <2>2. \A x \in Range(t) : x \in Range(s) \cup {f}
    <3> SUFFICES ASSUME NEW i \in 1 .. n + 1 PROVE t[i] \in Range(s) \cup {f}
      BY <1>5
    <3>1. i = 1 \/ (i - 1 \in 1 .. n /\ t[i] = s[i - 1])
      BY <1>1, <1>2
    <3> QED BY <1>1, <1>2, <1>5, <3>1
  <2>3. f \in Range(t)
    BY <1>1, <1>2, <1>5
  <2> QED BY <2>1, <2>2, <2>3
<1>7. IsInjective(s) /\ f \notin Range(s) => IsInjective(t)
  <2> SUFFICES ASSUME IsInjective(s), f \notin Range(s) PROVE IsInjective(t)
    OBVIOUS
  <2> QED BY <1>1, <1>2, <1>3, <1>4 DEF IsInjective
<1>8. Queue(t)
  BY <1>2, <1>6 DEF Queue
<1> QED BY <1>6, <1>7, <1>8 DEF t

\* ManageFrame stashes a frame; when the stash is full, the last one goes.
LEMMA StashedKeepsBooks ==
  ASSUME MaxStashed \in Nat, NEW st, NEW S, Accounts(st, S), NEW f, f \notin S
  PROVE  Accounts(Stashed(st, f), S \cup {f})
<1> DEFINE new == Stashed(st, f)
           s   == st.stash
<1>1. /\ Queue(s) /\ IsInjective(s) /\ f \notin Range(s)
      /\ f \notin Range(Out(st)) /\ f \notin st.dropped
  BY DEF Accounts
<1>2. /\ Fields \subseteq DOMAIN new /\ new.handed = st.handed
      /\ new.stash = <<f>> \o (IF StashFull(s) THEN Front(s) ELSE s)
      /\ new.dropped = IF StashFull(s) THEN st.dropped \cup {Last(s)} ELSE st.dropped
  BY DEF Stashed, Accounts, Fields
<1> HIDE DEF new, s
<1>3. Out(new) = Out(st)
  BY <1>2 DEF Out
<1>4. CASE ~ StashFull(s)
  <2>1. /\ Queue(new.stash) /\ IsInjective(new.stash)
        /\ Range(new.stash) = Range(s) \cup {f}
    BY <1>1, <1>2, <1>4, PushedOnce
  <2> QED BY <1>1, <1>2, <1>3, <1>4, <2>1 DEF Accounts, new, s
<1>5. CASE StashFull(s)
  <2>1. Len(s) # 0
    BY <1>5 DEF StashFull
  <2> DEFINE t == Front(s)
             l == Last(s)
  <2>2. /\ Queue(t) /\ IsInjective(t) /\ Range(s) = Range(t) \cup {l}
        /\ l \notin Range(t)
    BY <1>1, <2>1, FrontOnce
  <2>3. /\ Fields \subseteq DOMAIN new /\ new.handed = st.handed
        /\ new.stash = <<f>> \o t /\ new.dropped = st.dropped \cup {l}
    BY <1>2, <1>5
  <2> HIDE DEF t, l
  <2>4. f \notin Range(t) /\ f # l
    BY <1>1, <2>2
  <2>5. /\ Queue(new.stash) /\ IsInjective(new.stash)
        /\ Range(new.stash) = Range(t) \cup {f}
    BY <2>2, <2>3, <2>4, PushedOnce
  <2>6. l \notin Range(Out(st)) /\ l \notin st.dropped
    BY <2>2 DEF Accounts, s
  <2>7. /\ Range(Out(st)) \cap Range(s) = {} /\ IsInjective(Out(st))
        /\ st.dropped \cap (Range(Out(st)) \cup Range(s)) = {}
        /\ Range(Out(st)) \cup Range(s) \cup st.dropped = S /\ Queue(st.handed)
    BY DEF Accounts, s
  <2>8. /\ Range(Out(st)) \cap Range(new.stash) = {}
        /\ new.dropped \cap (Range(Out(st)) \cup Range(new.stash)) = {}
        /\ Range(Out(st)) \cup Range(new.stash) \cup new.dropped = S \cup {f}
    BY <1>1, <2>2, <2>3, <2>4, <2>5, <2>6, <2>7
  <2> QED BY <1>3, <2>3, <2>5, <2>7, <2>8 DEF Accounts, new
<1> QED BY <1>4, <1>5 DEF new

\* What Without leaves of a list.
LEMMA WithoutTakesOut ==
  ASSUME NEW s, NEW old, Queue(s)
  PROVE  /\ Queue(Without(s, old)) /\ Range(Without(s, old)) = Range(s) \ old
         /\ IsInjective(s) => IsInjective(Without(s, old))
<1> DEFINE n == Len(s)
           Kept(i) == {s[j] : j \in 1 .. i} \ old
           Upto(k, i) == /\ Queue(k) /\ Range(k) = Kept(i)
                         /\ IsInjective(s) => IsInjective(k)
<1>1. n \in Nat /\ DOMAIN s = 1 .. n
  BY LengthenedBy
<1>2. PICK kept :
        /\ kept = [i \in 0 .. n |-> IF i = 0 THEN <<>> ELSE Keep(kept[i - 1], s[i], old)]
        /\ Without(s, old) = kept[n]
  BY <1>1, KeptIsDefined
<1> DEFINE Good == {i \in 0 .. n : Upto(kept[i], i)}
<1>3. Upto(kept[0], 0)
  <2>1. kept[0] = <<>>
    BY <1>1, <1>2
  <2>2. Queue(<<>>) /\ IsInjective(<<>>) /\ Range(<<>>) = {}
    BY DEF Queue, IsInjective, Range
  <2> QED BY <2>1, <2>2
<1>4. ASSUME NEW i \in 1 .. n, Upto(kept[i - 1], i - 1)
      PROVE  Upto(kept[i], i)
  <2> DEFINE k == kept[i - 1]
             f == s[i]
  <2>1. kept[i] = Keep(k, f, old)
    BY <1>1, <1>2
  <2>2. /\ Queue(k) /\ Range(k) = Kept(i - 1)
        /\ IsInjective(s) => IsInjective(k)
    BY <1>4
  <2>3. IsInjective(s) => f \notin Kept(i - 1)
    <3> SUFFICES ASSUME IsInjective(s) PROVE f \notin Kept(i - 1)
      OBVIOUS
    <3>1. \A j \in 1 .. i - 1 : s[j] # f
      BY <1>1 DEF IsInjective
    <3> QED BY <3>1
  <2>4. Kept(i) = Kept(i - 1) \cup ({f} \ old)
    <3>1. \A j : j \in 1 .. i <=> j \in 1 .. i - 1 \/ j = i
      BY <1>1
    <3> QED BY <3>1
  <2> HIDE DEF k, f, Kept
  <2>5. CASE f \in old
    <3>1. Keep(k, f, old) = k
      BY <2>5 DEF Keep
    <3>2. Kept(i) = Kept(i - 1)
      BY <2>4, <2>5
    <3> QED BY <2>1, <2>2, <3>1, <3>2
  <2>6. CASE f \notin old
    <3>1. Keep(k, f, old) = Append(k, f)
      BY <2>6 DEF Keep
    <3>2. Kept(i) = Kept(i - 1) \cup {f}
      BY <2>4, <2>6
    <3>3. IsInjective(s) => IsInjective(Append(k, f))
      BY <2>2, <2>3, AppendOnce
    <3>4. Queue(Append(k, f)) /\ Range(Append(k, f)) = Range(k) \cup {f}
      BY <2>2, Appended
    <3> QED BY <2>1, <2>2, <3>1, <3>2, <3>3, <3>4
  <2> QED BY <2>5, <2>6
<1>5. n \in Good
  <2> HIDE DEF Upto
  <2>1. Good \in SUBSET (0 .. n) /\ 0 \in Good
    BY <1>1, <1>3
  <2>2. ASSUME NEW i \in 1 .. n, i - 1 \in Good PROVE i \in Good
    <3>1. i \in 0 .. n
      BY <1>1
    <3> QED BY <1>4, <2>2, <3>1
  <2> HIDE DEF Good
  <2> QED BY <1>1, <2>1, <2>2, ReachesEnd
<1>6. Upto(kept[n], n)
  <2> HIDE DEF Upto
  <2> QED BY <1>5
<1>7. Kept(n) = Range(s) \ old
  BY <1>1 DEF Range
<1> HIDE DEF Kept
<1> QED BY <1>2, <1>6, <1>7

\* ClearTo gives up some of the stashed frames.
LEMMA ClearedKeepsBooks ==
  ASSUME NEW st, NEW S, Accounts(st, S), NEW old \in SUBSET Range(st.stash)
  PROVE  Accounts(Cleared(st, old), S)
<1> DEFINE new == Cleared(st, old)
<1>1. /\ Fields \subseteq DOMAIN new /\ new.handed = st.handed
      /\ new.stash = Without(st.stash, old) /\ new.dropped = st.dropped \cup old
  BY DEF Cleared, Accounts, Fields
<1> HIDE DEF new
<1>2. Out(new) = Out(st)
  BY <1>1 DEF Out
<1>3. /\ Queue(new.stash) /\ IsInjective(new.stash)
      /\ Range(new.stash) = Range(st.stash) \ old
  BY <1>1, WithoutTakesOut DEF Accounts
<1>4. Accounts(new, S)
  BY <1>1, <1>2, <1>3 DEF Accounts
<1> QED BY <1>4 DEF new

\* The finders' ManageFrame.
Managed(st, f) ==
  LET r == Decide(st, f)
  IN  CASE r[1] = "stash" -> Stashed(r[2], f)
        [] r[1] = "drop"  -> Dropped(r[2], f)
        [] OTHER          -> RetryStashedFrames(r[2])

\* A frame that a finder has not been given before is in its books afterwards.
LEMMA ManagedKeepsBooks ==
  ASSUME MaxStashed \in Nat, NEW F, Bookkeeping(F), NEW st, NEW S \in SUBSET F,
         Accounts(st, S), NEW f \in F, f \notin S
  PROVE  Accounts(Managed(st, f), S \cup {f})
<1> DEFINE r == Decide(st, f)
<1>1. KeepsBooks(r, st, f)
  BY DEF Bookkeeping, Accounts
<1>2. Managed(st, f) = CASE r[1] = "stash" -> Stashed(r[2], f)
                         [] r[1] = "drop"  -> Dropped(r[2], f)
                         [] OTHER          -> RetryStashedFrames(r[2])
  BY Zenon DEF Managed
<1> HIDE DEF r
<1>3. CASE r[1] = "handoff"
  <2>1. PICK h : h.frame = f /\ r[2].handed = Append(st.handed, h)
    BY <1>1, <1>3 DEF KeepsBooks
  <2>2. Accounts(r[2], S \cup {f})
    BY <1>1, <2>1, HandedFrame DEF KeepsBooks
  <2>3. Accounts(RetryStashedFrames(r[2]), S \cup {f})
    BY <2>2, RetryKeepsBooks
  <2>4. Managed(st, f) = RetryStashedFrames(r[2])
    BY <1>2, <1>3, Zenon
  <2> QED BY <2>3, <2>4
<1>4. CASE r[1] # "handoff"
  <2>1. Accounts(r[2], S)
    BY <1>1, <1>4, SameAccounts DEF KeepsBooks, SameBooks
  <2>2. CASE r[1] = "stash"
    <3>1. Managed(st, f) = Stashed(r[2], f)
      BY <1>2, <2>2
    <3> QED BY <2>1, <3>1, StashedKeepsBooks
  <2>3. CASE r[1] = "drop"
    <3>1. Managed(st, f) = Dropped(r[2], f)
      BY <1>2, <2>3
    <3> QED BY <2>1, <3>1, DroppedFrame
  <2> QED BY <1>1, <1>4, <2>2, <2>3 DEF KeepsBooks
<1> QED BY <1>3, <1>4

-----------------------------------------------------------------------------
\* The frames that are stashed, and those handed off after the first n, are
\* among F.
Within(st, n, F) ==
  /\ Fields \subseteq DOMAIN st
  /\ Queue(st.stash) /\ Queue(st.handed)
  /\ Range(st.stash) \subseteq F
  /\ \A k \in n + 1 .. Len(st.handed) : st.handed[k].frame \in F

\* What does not touch the books touches neither the stash nor what was handed off.
LEMMA SameWithin ==
  ASSUME NEW st, NEW n, NEW F, Within(st, n, F), NEW new, SameBooks(new, st)
  PROVE  Within(new, n, F)
BY DEF Within, SameBooks

\* A frame of F that is handed off, stashed again or dropped.
LEMMA DecidedWithin ==
  ASSUME NEW n \in Nat, NEW F, Bookkeeping(F), NEW st, Within(st, n, F), NEW f \in F
  PROVE  Within(Decide(st, f)[2], n, F)
<1> DEFINE r == Decide(st, f)
<1>1. KeepsBooks(r, st, f)
  BY DEF Bookkeeping, Within
<1> HIDE DEF r
<1> SUFFICES Within(r[2], n, F)
  BY DEF r
<1>2. CASE r[1] = "handoff"
  <2>1. PICK h : h.frame = f /\ r[2].handed = Append(st.handed, h)
    BY <1>1, <1>2 DEF KeepsBooks
  <2> DEFINE s == st.handed
             t == r[2].handed
  <2>2. Queue(s) /\ t = Append(s, h) /\ Len(s) \in Nat
    BY <2>1, LengthenedBy DEF Within
  <2> HIDE DEF s, t
  <2>3. /\ Queue(t) /\ Len(t) = Len(s) + 1 /\ t[Len(s) + 1] = h
        /\ \A k \in 1 .. Len(s) : t[k] = s[k]
    BY <2>2, Appended
  <2>4. \A k \in n + 1 .. Len(s) : s[k].frame \in F
    BY DEF Within, s
  <2>5. ASSUME NEW k \in n + 1 .. Len(t) PROVE t[k].frame \in F
    <3>1. k = Len(s) + 1 \/ (k \in n + 1 .. Len(s) /\ k \in 1 .. Len(s))
      BY <2>2, <2>3
    <3> QED BY <2>1, <2>3, <2>4, <3>1
  <2> QED BY <1>1, <2>3, <2>5 DEF Within, KeepsBooks, t
<1>3. CASE r[1] # "handoff"
  BY <1>1, <1>3 DEF Within, KeepsBooks
<1> QED BY <1>2, <1>3

\* A dropped frame is in neither.
LEMMA DroppedWithin ==
  ASSUME NEW n, NEW F, NEW st, Within(st, n, F), NEW f
  PROVE  Within(Dropped(st, f), n, F)
<1> DEFINE new == Dropped(st, f)
<1>1. /\ Fields \subseteq DOMAIN new /\ new.stash = st.stash /\ new.handed = st.handed
  BY DEF Within, Fields, Dropped
<1> HIDE DEF new
<1>2. Within(new, n, F)
  BY <1>1 DEF Within
<1> QED BY <1>2 DEF new

\* One frame of a pass.
LEMMA RetriedWithin ==
  ASSUME NEW n \in Nat, NEW F, Bookkeeping(F), NEW pass, Within(pass.st, n, F), NEW f \in F
  PROVE  Within(Retry(pass, f).st, n, F)
<1> DEFINE r  == Decide(pass.st, f)
           st == r[2]
<1>1. Within(st, n, F)
  BY DecidedWithin
<1>2. \/ Retry(pass, f).st = [st EXCEPT !.stash = Append(@, f)]
      \/ Retry(pass, f).st = Dropped(st, f)
      \/ Retry(pass, f).st = st
  BY Zenon DEF Retry
<1> HIDE DEF st
<1> DEFINE new == [st EXCEPT !.stash = Append(@, f)]
<1>3. Within(new, n, F)
  <2>1. /\ Fields \subseteq DOMAIN new /\ new.stash = Append(st.stash, f)
        /\ new.handed = st.handed
    BY <1>1 DEF Within, Fields
  <2> HIDE DEF new
  <2>2. Queue(new.stash) /\ Range(new.stash) = Range(st.stash) \cup {f}
    BY <1>1, <2>1, Appended DEF Within
  <2> QED BY <1>1, <2>1, <2>2 DEF Within
<1>4. Within(Dropped(st, f), n, F)
  BY <1>1, DroppedWithin
<1> HIDE DEF new
<1> QED BY <1>1, <1>2, <1>3, <1>4 DEF new

\* A pass hands off frames that were stashed, and no others.
LEMMA PassWithin ==
  ASSUME NEW n \in Nat, NEW F, Bookkeeping(F), NEW st, Within(st, n, F)
  PROVE  Within(RetryPass(st).st, n, F)
<1> DEFINE l == Len(st.stash)
<1>1. /\ Queue(st.stash) /\ l \in Nat /\ DOMAIN st.stash = 1 .. l
      /\ \A i \in 1 .. l : st.stash[i] \in F
  <2>1. Queue(st.stash) /\ l \in Nat /\ DOMAIN st.stash = 1 .. l
    BY LengthenedBy DEF Within
  <2> QED BY <2>1 DEF Within, Range
<1>2. PICK pass :
        /\ pass = [i \in 0 .. l |-> IF i = 0 THEN First(st) ELSE Retry(pass[i - 1], st.stash[i])]
        /\ RetryPass(st) = pass[l]
  <2>1. l \in Nat
    BY <1>1
  <2> QED BY <2>1, PassIsDefined
<1> DEFINE Good == {i \in 0 .. l : Within(pass[i].st, n, F)}
<1>3. Within(pass[0].st, n, F)
  <2>1. pass[0] = First(st)
    BY <1>1, <1>2
  <2> DEFINE new == First(st).st
  <2>2. Fields \subseteq DOMAIN new /\ new.stash = <<>> /\ new.handed = st.handed
    BY DEF Within, Fields, First
  <2> HIDE DEF new
  <2>3. Queue(<<>>) /\ Range(<<>>) = {}
    BY DEF Queue, Range
  <2>4. Within(new, n, F)
    BY <2>2, <2>3 DEF Within
  <2> QED BY <2>1, <2>4 DEF new
<1>4. ASSUME NEW i \in 1 .. l, Within(pass[i - 1].st, n, F)
      PROVE  Within(pass[i].st, n, F)
  <2> DEFINE before == pass[i - 1]
             f == st.stash[i]
  <2>1. pass[i] = Retry(before, f) /\ f \in F
    BY <1>1, <1>2
  <2>2. Within(before.st, n, F)
    BY <1>4
  <2> HIDE DEF before, f
  <2> QED BY <2>1, <2>2, RetriedWithin
<1>5. l \in Good
  <2>1. Good \in SUBSET (0 .. l) /\ 0 \in Good
    BY <1>1, <1>3
  <2>2. ASSUME NEW i \in 1 .. l, i - 1 \in Good PROVE i \in Good
    <3>1. i \in 0 .. l
      BY <1>1
    <3> QED BY <1>4, <2>2, <3>1
  <2> HIDE DEF Good
  <2> QED BY <1>1, <2>1, <2>2, ReachesEnd
<1>6. Within(pass[l].st, n, F)
  BY <1>5
<1> QED BY <1>2, <1>6

\* What RetryStashedFrames hands off was stashed.
LEMMA RetryWithin ==
  ASSUME NEW n \in Nat, NEW F, Bookkeeping(F), NEW st, Within(st, n, F)
  PROVE  Within(RetryStashedFrames(st), n, F)
<1> DEFINE l == Len(st.stash)
<1>1. l \in Nat
  BY LengthenedBy DEF Within
<1>2. PICK passes :
        /\ passes = [i \in 0 .. l |-> IF i = 0 THEN RetryPass(st) ELSE Repeat(passes[i - 1])]
        /\ RetryStashedFrames(st) = passes[l].st
  BY <1>1, PassesAreDefined
<1> DEFINE Good == {i \in 0 .. l : Within(passes[i].st, n, F)}
<1>3. Within(passes[0].st, n, F)
  <2>1. passes[0] = RetryPass(st)
    BY <1>1, <1>2
  <2> QED BY <2>1, PassWithin
<1>4. ASSUME NEW i \in 1 .. l, Within(passes[i - 1].st, n, F)
      PROVE  Within(passes[i].st, n, F)
  <2> DEFINE pass == passes[i - 1]
  <2>1. passes[i] = Repeat(pass)
    <3> HIDE DEF l
    <3> QED BY <1>1, <1>2
  <2>2. Within(pass.st, n, F)
    BY <1>4
  <2> HIDE DEF pass
  <2>3. Within(RetryPass(pass.st).st, n, F)
    BY <2>2, PassWithin
  <2> QED BY <2>1, <2>2, <2>3 DEF Repeat
<1>5. l \in Good
  <2>1. Good \in SUBSET (0 .. l) /\ 0 \in Good
    BY <1>1, <1>3
  <2>2. ASSUME NEW i \in 1 .. l, i - 1 \in Good PROVE i \in Good
    <3>1. i \in 0 .. l
      BY <1>1
    <3> QED BY <1>4, <2>2, <3>1
  <2> HIDE DEF Good
  <2> QED BY <1>1, <2>1, <2>2, ReachesEnd
<1>6. Within(passes[l].st, n, F)
  BY <1>5
<1> QED BY <1>2, <1>6

\* ManageFrame hands off the frame, and what was stashed.
LEMMA ManagedWithin ==
  ASSUME MaxStashed \in Nat, NEW n \in Nat, NEW F, Bookkeeping(F),
         NEW st, Within(st, n, F), NEW f \in F
  PROVE  Within(Managed(st, f), n, F)
<1> DEFINE r == Decide(st, f)
           one == r[2]
<1>1. Within(one, n, F)
  BY DecidedWithin
<1>2. Managed(st, f) \in {Stashed(one, f), Dropped(one, f), RetryStashedFrames(one)}
  BY Zenon DEF Managed
<1> HIDE DEF one
<1> DEFINE new == Stashed(one, f)
           s   == one.stash
<1>3. Within(new, n, F)
  <2>1. /\ Fields \subseteq DOMAIN new /\ new.handed = one.handed
        /\ new.stash = <<f>> \o (IF StashFull(s) THEN Front(s) ELSE s)
    BY <1>1 DEF Stashed, Within, Fields
  <2>2. Queue(s) /\ Range(s) \subseteq F
    BY <1>1 DEF Within
  <2> HIDE DEF new, s
  <2> DEFINE t == IF StashFull(s) THEN Front(s) ELSE s
  <2>3. Queue(t) /\ Range(t) \subseteq F
    <3>1. CASE StashFull(s)
      <4>1. Len(s) # 0
        BY <3>1 DEF StashFull
      <4> QED BY <2>2, <3>1, <4>1, FrontOnce
    <3>2. CASE ~ StashFull(s)
      BY <2>2, <3>2
    <3> QED BY <3>1, <3>2
  <2> HIDE DEF t
  <2>4. Queue(<<f>> \o t) /\ Range(<<f>> \o t) = Range(t) \cup {f}
    BY <2>3, PushedOnce
  <2>5. new.stash = <<f>> \o t
    BY <2>1 DEF t
  <2> QED BY <1>1, <2>1, <2>3, <2>4, <2>5 DEF Within
<1>4. Within(Dropped(one, f), n, F) /\ Within(RetryStashedFrames(one), n, F)
  BY <1>1, DroppedWithin, RetryWithin
<1> HIDE DEF new
<1> QED BY <1>2, <1>3, <1>4 DEF new

\* ClearTo leaves none of the old frames in the stash, and hands off nothing.
LEMMA ClearedWithin ==
  ASSUME NEW n, NEW F, NEW st, Within(st, n, F), NEW old
  PROVE  /\ Within(Cleared(st, old), n, F)
         /\ Cleared(st, old).handed = st.handed
         /\ Range(Cleared(st, old).stash) = Range(st.stash) \ old
<1> DEFINE new == Cleared(st, old)
<1>1. /\ Fields \subseteq DOMAIN new /\ new.handed = st.handed
      /\ new.stash = Without(st.stash, old)
  BY DEF Cleared, Within, Fields
<1> HIDE DEF new
<1>2. Queue(new.stash) /\ Range(new.stash) = Range(st.stash) \ old
  BY <1>1, WithoutTakesOut DEF Within
<1>3. Within(new, n, F)
  BY <1>1, <1>2 DEF Within
<1> QED BY <1>1, <1>2, <1>3 DEF new
=============================================================================
