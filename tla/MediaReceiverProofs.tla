------------------------ MODULE MediaReceiverProofs ------------------------
(***************************************************************************)
(* Inductive invariants of MediaReceiver: for any number of calls of       *)
(* start(), what is left of the work after stop(); for any number of       *)
(* surfaces, what is behind the surfaces of the decoder, and the order in  *)
(* which frames pass the channels and the decoder.                         *)
(***************************************************************************)
EXTENDS MediaReceiver, SequenceTheorems, WellFoundedInduction, TLAPS

\* Of what a loop may still do, waiting counts for one piece of work.
Due(l) == worked[l] + (IF loops[l] = "waiting" THEN 1 ELSE 0)

\* The strengthening of StopLimitsWork.  Before stop() nothing is counted; after
\* it, what a loop has done and may still do is covered by its wait.
StopInv ==
  /\ stop \in BOOLEAN
  /\ loops \in [Loops -> {"none", "spawned", "waiting", "done"}]
  /\ worked \in [Loops -> Nat]
  /\ ~ stop => waitingAtStop = {} /\ \A l \in Loops : worked[l] = 0
  /\ stop => \A l \in Loops : Due(l) <= IF l \in waitingAtStop THEN 1 ELSE 0

\* Nothing has been done when nothing has been started.
LEMMA StopInvInit == Init => StopInv
<1> SUFFICES ASSUME Init PROVE StopInv
  OBVIOUS
<1>1. stop = FALSE /\ waitingAtStop = {}
  BY DEF Init
<1>2. loops = [l \in Loops |-> "none"] /\ worked = [l \in Loops |-> 0]
  BY DEF Init
<1>3. ~ stop
  BY <1>1
<1>4. stop \in BOOLEAN
  BY <1>1
<1>5. /\ loops \in [Loops -> {"none", "spawned", "waiting", "done"}]
      /\ worked \in [Loops -> Nat]
      /\ \A l \in Loops : worked[l] = 0
  BY <1>2
<1> QED BY <1>1, <1>3, <1>4, <1>5 DEF StopInv

\* Going back to the head costs a loop its wait, and it waits again only before
\* the stop.
LEMMA WorkIsCovered ==
  ASSUME NEW l \in Loops, Works(l), StopInv
  PROVE  StopInv'
<1>1. /\ stop' = stop /\ waitingAtStop' = waitingAtStop
      /\ loops' = [loops EXCEPT ![l] = FromHead]
      /\ worked' = [worked EXCEPT ![l] = IF stop THEN @ + 1 ELSE @]
      /\ loops[l] = "waiting"
  BY DEF Works, control
<1>2. CASE stop
  BY <1>1, <1>2 DEF StopInv, FromHead, Due
<1>3. CASE ~ stop
  BY <1>1, <1>3 DEF StopInv, FromHead, Due
<1> QED BY <1>2, <1>3 DEF StopInv

\* The invariant is kept by every step.
LEMMA StopInvNext == StopInv /\ [Next]_vars => StopInv'
<1> SUFFICES ASSUME StopInv, [Next]_vars PROVE StopInv'
  OBVIOUS
<1>1. CASE Start
  <2>1. \A l \in Loops : loops'[l] = "waiting" => loops[l] = "waiting"
    BY <1>1 DEF Start, StopInv
  <2>2. loops' \in [Loops -> {"none", "spawned", "waiting", "done"}]
    BY <1>1 DEF Start, StopInv
  <2>3. UNCHANGED <<stop, waitingAtStop, worked>>
    BY <1>1 DEF Start
  <2> QED BY <2>1, <2>2, <2>3 DEF StopInv, Due
<1>2. CASE Stop
  BY <1>2 DEF Stop, StopInv, Due
<1>3. CASE UnlockSurface
  BY <1>3 DEF UnlockSurface, control, StopInv, Due
<1>4. ASSUME NEW l \in Loops, Enter(l) PROVE StopInv'
  BY <1>4 DEF Enter, control, FromHead, StopInv, Due
<1>5. ASSUME NEW l \in Loops, NetworkStep(l) \/ DecodeStep(l) \/ RenderStep(l) PROVE StopInv'
  BY <1>5, WorkIsCovered DEF NetworkStep, DecodeStep, RenderStep
<1>6. CASE UNCHANGED vars
  BY <1>6 DEF vars, StopInv, Due
<1> QED BY <1>1, <1>2, <1>3, <1>4, <1>5, <1>6 DEF Next

\* However often start() is called, a loop works at most once more after stop(),
\* on what it was waiting for (StopLimitsWork).
THEOREM StoppedLoopsEnd == Spec => []StopLimitsWork
<1>1. StopInv => StopLimitsWork
  <2> SUFFICES ASSUME StopInv, NEW l \in Loops
               PROVE  worked[l] <= IF l \in waitingAtStop THEN 1 ELSE 0
    BY DEF StopLimitsWork
  <2>1. worked[l] \in Nat /\ worked[l] <= Due(l)
    BY DEF StopInv, Due
  <2> QED BY <2>1 DEF StopInv, Due
<1> QED BY <1>1, StopInvInit, StopInvNext, PTL DEF Spec
-----------------------------------------------------------------------------
Fields == {"mids", "frames", "surfaces", "alreadyInit", "pending", "picture"}

\* Surface i has texture i, one of those the allocator keeps.
Bound(surfaces, n) ==
  \A i \in DOMAIN surfaces :
    i \in 1 .. n /\ DOMAIN surfaces[i] = {"mem", "locked"} /\ surfaces[i].mem = i

\* The strengthening of SurfacesAreBacked.  Surfaces are made once, from as many
\* mids as there are textures, so that no texture is made after them.
Backed(d) ==
  /\ DOMAIN d = Fields
  /\ d.frames \in 0 .. NumFrameSuggested
  /\ d.mids = <<>> => DOMAIN d.surfaces = {}
  /\ d.mids # <<>> => d.mids = MidsOf(d.frames)
  /\ Bound(d.surfaces, d.frames)

\* Only the textures and the surfaces matter to it.
LEMMA BackedDependsOn ==
  ASSUME NEW d, Backed(d), NEW e, DOMAIN e = Fields,
         e.mids = d.mids, e.frames = d.frames, Bound(e.surfaces, e.frames),
         DOMAIN e.surfaces = DOMAIN d.surfaces
  PROVE  Backed(e)
BY DEF Backed

\* A decoder without mids has no surfaces yet: it may get any textures.
LEMMA AllocBacked ==
  ASSUME NEW d, Backed(d), NEW r \in AllocExternalFrame(d)
  PROVE  /\ Backed(r.decoder)
         /\ r.ok => r.actual = r.decoder.frames /\ r.decoder.mids # <<>>
<1>1. CASE d.mids # <<>>
  BY <1>1 DEF AllocExternalFrame, ExistingExternal, Response
<1>2. CASE d.mids = <<>>
  <2>1. PICK n \in 0 .. NumFrameSuggested : r = NewExternal(d, n)
    BY <1>2 DEF AllocExternalFrame
  <2>2. PICK e : e = [d EXCEPT !.mids = MidsOf(n), !.frames = n]
    OBVIOUS
  <2>3. r.decoder = e /\ r.actual = n
    BY <2>1, <2>2 DEF NewExternal, Response
  <2>4. DOMAIN e = Fields /\ e.mids = MidsOf(n) /\ e.frames = n /\ e.surfaces = d.surfaces
    BY <2>2 DEF Backed, Fields
  <2>5. MidsOf(n) # <<>>
    <3>1. 1 \in DOMAIN MidsOf(n)
      BY SuggestedAssumption DEF MidsOf, Texture
    <3> QED BY <3>1
  <2>6. Backed(e)
    BY <1>2, <2>4, <2>5 DEF Backed, Bound
  <2> QED BY <2>3, <2>4, <2>5, <2>6
<1> QED BY <1>1, <1>2

\* The surfaces are made from mids that have all been written.
LEMMA InitialisedBacked ==
  ASSUME NEW d, Backed(d), NEW r \in AllocExternalFrame(d), r.ok
  PROVE  Backed(Initialised(r))
<1> DEFINE s == [i \in 1 .. r.actual |-> [mem |-> r.decoder.mids[i], locked |-> FALSE]]
<1>1. Backed(r.decoder) /\ r.actual = r.decoder.frames /\ r.decoder.mids # <<>>
  BY AllocBacked
<1>2. PICK e : e = Initialised(r)
  OBVIOUS
<1>3. /\ DOMAIN e = Fields /\ e.surfaces = s
      /\ e.mids = r.decoder.mids /\ e.frames = r.decoder.frames
  BY <1>1, <1>2 DEF Initialised, Backed, Fields
<1>4. \A i \in 1 .. r.actual : r.decoder.mids[i] = i
  BY <1>1, SuggestedAssumption DEF Backed, MidsOf, Texture
<1>5. Bound(s, r.actual)
  BY <1>4 DEF Bound
<1> HIDE DEF s
<1> QED BY <1>1, <1>2, <1>3, <1>5 DEF Backed

\* init2, however far it gets.
LEMMA Init2Backed ==
  ASSUME NEW d, Backed(d), NEW r \in Init2(d)
  PROVE  Backed(r.decoder)
<1>1. CASE r \in HeaderFails(d)
  BY <1>1 DEF HeaderFails, Init2Result
<1>2. CASE r \in AllocFails(d)
  BY <1>2, AllocBacked DEF AllocFails, Init2Result
<1>3. CASE r \in InitFails(d)
  BY <1>3, AllocBacked DEF InitFails, Init2Result
<1>4. CASE r \in InitDone(d)
  BY <1>4, InitialisedBacked DEF InitDone, Init2Result
<1> QED BY <1>1, <1>2, <1>3, <1>4 DEF Init2

\* Locking and unlocking leave the textures where they are.
LEMMA LockKeepsBound ==
  ASSUME NEW s, NEW n, Bound(s, n), NEW i, NEW b
  PROVE  /\ Bound([s EXCEPT ![i].locked = b], n)
         /\ DOMAIN [s EXCEPT ![i].locked = b] = DOMAIN s
<1>1. PICK t : t = [s EXCEPT ![i].locked = b]
  OBVIOUS
<1>2. DOMAIN t = DOMAIN s
  BY <1>1
<1>3. \A j \in DOMAIN s : DOMAIN t[j] = DOMAIN s[j] /\ t[j].mem = s[j].mem
  BY <1>1 DEF Bound
<1> QED BY <1>1, <1>2, <1>3 DEF Bound

\* One frame, whatever the SDK says.
LEMMA DecodeBacked ==
  ASSUME NEW d, Backed(d), NEW f, NEW r \in Decode(d, f)
  PROVE  Backed(r.decoder)
<1> DEFINE i == GetUnlockedFrame(d)
<1>1. CASE i = 0
  BY <1>1 DEF Decode, Nothing, Output
<1>2. CASE i # 0
  <2>1. PICK taken : taken = Accepted(d, i, f)
    OBVIOUS
  <2>2. /\ DOMAIN taken = Fields /\ taken.mids = d.mids /\ taken.frames = d.frames
        /\ taken.surfaces = [d.surfaces EXCEPT ![i].locked = TRUE]
    <3> HIDE DEF i
    <3> QED BY <2>1 DEF Accepted, Backed, Fields
  <2>3. Backed(taken)
    <3>1. Bound(d.surfaces, d.frames)
      BY DEF Backed
    <3> HIDE DEF i
    <3> QED BY <2>2, <3>1, LockKeepsBound, BackedDependsOn
  <2>4. PICK put : put = PutOut(taken).decoder
    OBVIOUS
  <2>5. /\ DOMAIN put = Fields /\ put.mids = taken.mids /\ put.frames = taken.frames
        /\ put.surfaces = taken.surfaces
    BY <2>3, <2>4 DEF PutOut, Output, Backed, Fields
  <2>6. Backed(put)
    BY <2>3, <2>5 DEF Backed
  <2>7. r \in DecodeFrameAsync(d, i, f)
    BY <1>2 DEF Decode
  <2>8. r.decoder \in {d, taken, put}
    <3> HIDE DEF i
    <3> QED BY <2>1, <2>4, <2>7 DEF DecodeFrameAsync, Nothing, Output
  <2> QED BY <2>3, <2>6, <2>8
<1> QED BY <1>1, <1>2

\* decode_one_frame, initialising first where that has not been done.
LEMMA DecodeOneFrameBacked ==
  ASSUME NEW d, Backed(d), NEW f, NEW r \in DecodeOneFrame(d, f)
  PROVE  Backed(r.decoder)
<1>1. CASE d.alreadyInit
  BY <1>1, DecodeBacked DEF DecodeOneFrame
<1>2. CASE ~ d.alreadyInit
  <2>1. PICK q \in Init2(d) :
          r \in IF q.offset = 0 THEN Nothing(q.decoder) ELSE Decode(q.decoder, f)
    BY <1>2 DEF DecodeOneFrame
  <2>2. Backed(q.decoder)
    BY Init2Backed
  <2>3. CASE q.offset = 0
    BY <2>1, <2>2, <2>3 DEF Nothing, Output
  <2>4. CASE q.offset # 0
    BY <2>1, <2>2, <2>4, DecodeBacked
  <2> QED BY <2>3, <2>4
<1> QED BY <1>1, <1>2

\* A decoder that has not been initialised holds no surface.
LEMMA BackedInit == Init => Backed(decoder)
<1> SUFFICES ASSUME decoder = NewDecoder PROVE Backed(decoder)
  BY DEF Init
<1> QED BY SuggestedAssumption DEF NewDecoder, Backed, Bound, Fields

\* The decoder changes when a frame is decoded or a surface is unlocked.
LEMMA BackedNext == Backed(decoder) /\ [Next]_vars => Backed(decoder)'
<1> SUFFICES ASSUME Backed(decoder), [Next]_vars PROVE Backed(decoder')
  BY DEF Backed, Bound, MidsOf, Texture, Fields
<1>1. CASE UnlockSurface
  <2>1. PICK i : decoder' = [decoder EXCEPT !.surfaces[i].locked = FALSE]
    BY <1>1 DEF UnlockSurface, Unlocks
  <2>2. /\ DOMAIN decoder' = Fields
        /\ decoder'.mids = decoder.mids /\ decoder'.frames = decoder.frames
        /\ decoder'.surfaces = [decoder.surfaces EXCEPT ![i].locked = FALSE]
    BY <2>1 DEF Backed, Fields
  <2>3. Bound(decoder.surfaces, decoder.frames)
    BY DEF Backed
  <2> QED BY <2>2, <2>3, LockKeepsBound, BackedDependsOn
<1>2. ASSUME NEW l \in Loops, DecodeStep(l) PROVE Backed(decoder')
  <2>1. PICK r \in DecodeOneFrame(decoder, Head(undecoded)) : decoder' = r.decoder
    BY <1>2 DEF DecodeStep
  <2> QED BY <2>1, DecodeOneFrameBacked
<1>3. CASE UNCHANGED decoder
  BY <1>3
<1>4. Start \/ Stop \/ UNCHANGED vars => UNCHANGED decoder
  BY DEF Start, Stop, vars, pipeline
<1>5. ASSUME NEW l \in Loops, Enter(l) \/ NetworkStep(l) \/ RenderStep(l)
      PROVE  UNCHANGED decoder
  BY <1>5 DEF Enter, NetworkStep, RenderStep, pipeline
<1> QED BY <1>1, <1>2, <1>3, <1>4, <1>5 DEF Next

\* For any number of surfaces, and whichever allocations fail and are tried
\* again, every surface has a texture of its own that the allocator keeps
\* (SurfacesAreBacked).
THEOREM SurfacesStayBacked == Spec => []SurfacesAreBacked
<1>1. Backed(decoder) => SurfacesAreBacked
  BY DEF Backed, Bound, SurfacesAreBacked
<1> QED BY <1>1, BackedInit, BackedNext, PTL DEF Spec
-----------------------------------------------------------------------------
\* Every frame of t that is not empty comes after those of s.
Before(s, t) == \A x \in Range(s), y \in Range(t) : y # NoFrame => x < y

\* The order of two sequences put together.
LEMMA OrderedConcat ==
  ASSUME NEW s \in Seq(Nat), NEW t \in Seq(Nat)
  PROVE  /\ s \o t \in Seq(Nat)
         /\ Range(s \o t) = Range(s) \cup Range(t)
         /\ Ordered(s \o t) <=> Ordered(s) /\ Ordered(t) /\ Before(s, t)
         /\ \A u : Before(s \o t, u) <=> Before(s, u) /\ Before(t, u)
         /\ \A u : Before(u, s \o t) <=> Before(u, s) /\ Before(u, t)
<1>1. PICK c, m, n : c = s \o t /\ m = Len(s) /\ n = Len(t)
  OBVIOUS
<1>2. /\ c \in Seq(Nat) /\ m \in Nat /\ n \in Nat
      /\ DOMAIN s = 1 .. m /\ DOMAIN t = 1 .. n /\ DOMAIN c = 1 .. m + n
      /\ \A i \in 1 .. m : i \in 1 .. m + n /\ c[i] = s[i]
      /\ \A i \in 1 .. n : m + i \in 1 .. m + n /\ c[m + i] = t[i]
  BY <1>1
<1>3. \A i \in 1 .. m + n : i \in 1 .. m \/ \E k \in 1 .. n : i = m + k
  <2> SUFFICES ASSUME NEW i \in 1 .. m + n, i \notin 1 .. m PROVE \E k \in 1 .. n : i = m + k
    OBVIOUS
  <2>1. m \in Nat /\ n \in Nat
    BY <1>2
  <2>2. i - m \in 1 .. n /\ i = m + (i - m)
    BY <2>1
  <2> QED BY <2>2
<1>4. Range(c) = Range(s) \cup Range(t)
  <2>1. ASSUME NEW i \in 1 .. m + n PROVE c[i] \in Range(s) \cup Range(t)
    <3>1. CASE i \in 1 .. m
      BY <3>1, <1>2 DEF Range
    <3>2. ASSUME NEW k \in 1 .. n, i = m + k PROVE c[i] \in Range(t)
      BY <3>2, <1>2 DEF Range
    <3> QED BY <3>1, <3>2, <1>3
  <2>2. \A x \in Range(s) \cup Range(t) : x \in Range(c)
    BY <1>2 DEF Range
  <2> QED BY <1>2, <2>1, <2>2 DEF Range
<1>5. ASSUME Ordered(s), Ordered(t), Before(s, t) PROVE Ordered(c)
  <2> SUFFICES ASSUME NEW i \in 1 .. m + n, NEW j \in 1 .. m + n, i < j, c[j] # NoFrame
               PROVE  c[i] < c[j]
    BY <1>2 DEF Ordered
  <2>1. CASE i \in 1 .. m /\ j \in 1 .. m
    BY <2>1, <1>2, <1>5 DEF Ordered
  <2>2. ASSUME NEW k \in 1 .. n, j = m + k PROVE c[i] < c[j]
    <3>1. CASE i \in 1 .. m
      BY <2>2, <3>1, <1>2, <1>5 DEF Before, Range
    <3>2. ASSUME NEW h \in 1 .. n, i = m + h PROVE c[i] < c[j]
      <4>1. h < k
        BY <1>2, <2>2, <3>2
      <4> QED BY <2>2, <3>2, <4>1, <1>2, <1>5 DEF Ordered
    <3> QED BY <3>1, <3>2, <1>3
  <2>3. j \in 1 .. m => i \in 1 .. m
    BY <1>2
  <2> QED BY <2>1, <2>2, <2>3, <1>3
<1>6. ASSUME Ordered(c) PROVE Ordered(s) /\ Ordered(t) /\ Before(s, t)
  <2>1. Ordered(s)
    BY <1>2, <1>6 DEF Ordered
  <2>2. Before(s, t)
    <3> SUFFICES ASSUME NEW i \in 1 .. m, NEW k \in 1 .. n, t[k] # NoFrame PROVE s[i] < t[k]
      BY <1>2 DEF Before, Range
    <3>1. i < m + k
      BY <1>2
    <3> QED BY <3>1, <1>2, <1>6 DEF Ordered
  <2>3. Ordered(t)
    <3> SUFFICES ASSUME NEW h \in 1 .. n, NEW k \in 1 .. n, h < k, t[k] # NoFrame PROVE t[h] < t[k]
      BY <1>2 DEF Ordered
    <3>1. m + h < m + k
      BY <1>2
    <3> QED BY <3>1, <1>2, <1>6 DEF Ordered
  <2> QED BY <2>1, <2>2, <2>3
<1> QED BY <1>1, <1>2, <1>4, <1>5, <1>6 DEF Before

\* A sequence that is not empty is its head and its tail, and Append puts a
\* sequence of one after it.
LEMMA HeadAndTail ==
  ASSUME NEW s \in Seq(Nat), s # <<>>
  PROVE  /\ Head(s) \in Nat /\ Tail(s) \in Seq(Nat) /\ <<Head(s)>> \in Seq(Nat)
         /\ s = <<Head(s)>> \o Tail(s)
<1>1. Head(s) \in Nat /\ Tail(s) \in Seq(Nat) /\ Head(s) = s[1]
  BY HeadTailProperties
<1>2. Len(s) \in Nat /\ 1 \in 1 .. Len(s) /\ Len(s) \in 1 .. Len(s)
  BY EmptySeq
<1>3. SubSeq(s, 1, Len(s)) = <<s[1]>> \o SubSeq(s, 1 + 1, Len(s))
  BY <1>2, SubSeqRecursiveFirst
<1>4. SubSeq(s, 1, Len(s)) = s /\ Tail(s) = SubSeq(s, 2, Len(s))
  BY SubSeqFull, TailIsSubSeq
<1>5. s = <<s[1]>> \o Tail(s)
  BY <1>3, <1>4, 1 + 1 = 2, Zenon
<1> QED BY <1>1, <1>5
-----------------------------------------------------------------------------
\* A non-empty set of naturals has a least element.
LEMMA SmallestNat ==
  ASSUME NEW S \in SUBSET Nat, S # {}
  PROVE  Min(S) \in S
<1> DEFINE R == OpToRel(<, Nat)
<1>1. IsWellFoundedOn(R, Nat)
  BY NatLessThanWellFounded
<1>2. PICK x \in S : \A y \in S : ~ (<<y, x>> \in R)
  <2> HIDE DEF R
  <2> QED BY <1>1, WFMin
<1>3. \A y \in S : x \in Nat /\ y \in Nat /\ ~ (y < x)
  BY <1>2 DEF OpToRel
<1>4. \A y \in S : x <= y
  BY <1>3
<1> QED BY <1>4 DEF Min

\* What g says of the elements of s.
Image(s, g) == [p \in DOMAIN s |-> g[s[p]]]

FrameOf == [h \in Handle |-> h.frame]
Waiting(d) == Image(d.pending, d.picture)

\* The textures that wait to be put out belong to surfaces that are locked, and
\* there are none before the decoder is initialised.
Guarded(d) ==
  /\ DOMAIN d = Fields
  /\ d.pending \in Seq(Texture) /\ d.picture \in [Texture -> Nat]
  /\ \A i \in DOMAIN d.surfaces : d.surfaces[i].locked \in BOOLEAN
  /\ \A p \in DOMAIN d.pending :
       d.pending[p] \in DOMAIN d.surfaces /\ d.surfaces[d.pending[p]].locked
  /\ ~ d.alreadyInit => d.pending = <<>>

\* The image of a sequence put together, and of all but the first.
LEMMA ImageOfSeq ==
  ASSUME NEW S, NEW g \in [S -> Nat], NEW s \in Seq(S)
  PROVE  /\ Image(s, g) \in Seq(Nat)
         /\ \A e \in S : /\ Append(s, e) \in Seq(S)
                         /\ Image(Append(s, e), g) = Append(Image(s, g), g[e])
         /\ s # <<>> => /\ Image(s, g) # <<>>
                        /\ Tail(s) \in Seq(S)
                        /\ Image(Tail(s), g) = Tail(Image(s, g))
                        /\ Head(s) \in S /\ g[Head(s)] = Head(Image(s, g))
<1>1. \A t \in Seq(S) : /\ Image(t, g) \in Seq(Nat) /\ Len(Image(t, g)) = Len(t)
                        /\ DOMAIN t = 1 .. Len(t)
                        /\ \A i \in 1 .. Len(t) : Image(t, g)[i] = g[t[i]]
  <2> SUFFICES ASSUME NEW t \in Seq(S)
               PROVE  /\ Image(t, g) \in Seq(Nat) /\ Len(Image(t, g)) = Len(t)
                      /\ \A i \in 1 .. Len(t) : Image(t, g)[i] = g[t[i]]
    OBVIOUS
  <2>1. /\ Len(t) \in Nat /\ DOMAIN t = 1 .. Len(t)
        /\ \A i \in 1 .. Len(t) : t[i] \in S
    OBVIOUS
  <2>2. \A i \in 1 .. Len(t) : g[t[i]] \in Nat
    BY <2>1
  <2> QED BY <2>1, <2>2 DEF Image
<1>2. ASSUME NEW e \in S
      PROVE  /\ Append(s, e) \in Seq(S)
             /\ Image(Append(s, e), g) = Append(Image(s, g), g[e])
  <2>1. PICK a, n : a = Append(s, e) /\ n = Len(s)
    OBVIOUS
  <2>2. /\ a \in Seq(S) /\ n \in Nat /\ Len(a) = n + 1
        /\ \A i \in 1 .. n : a[i] = s[i]
        /\ a[n + 1] = e
    BY <2>1, AppendProperties
  <2>3. g[e] \in Nat
    OBVIOUS
  <2>4. PICK u, v : u = Image(a, g) /\ v = Append(Image(s, g), g[e])
    OBVIOUS
  <2>5. /\ u \in Seq(Nat) /\ Len(u) = n + 1
        /\ \A i \in 1 .. n + 1 : u[i] = g[a[i]]
    BY <1>1, <2>2, <2>4
  <2>6. /\ Image(s, g) \in Seq(Nat) /\ Len(Image(s, g)) = n
        /\ \A i \in 1 .. n : Image(s, g)[i] = g[s[i]]
    BY <1>1, <2>1
  <2>7. /\ v \in Seq(Nat) /\ Len(v) = n + 1
        /\ \A i \in 1 .. n : v[i] = Image(s, g)[i]
        /\ v[n + 1] = g[e]
    BY <2>3, <2>4, <2>6, AppendProperties
  <2>8. ASSUME NEW i \in 1 .. n + 1 PROVE u[i] = v[i]
    <3>1. CASE i = n + 1
      BY <3>1, <2>2, <2>5, <2>7
    <3>2. CASE i \in 1 .. n
      <4>1. a[i] = s[i] /\ v[i] = Image(s, g)[i] /\ Image(s, g)[i] = g[s[i]]
        BY <3>2, <2>2, <2>6, <2>7
      <4>2. u[i] = g[a[i]]
        BY <2>5
      <4> QED BY <4>1, <4>2
    <3> QED BY <2>2, <3>1, <3>2
  <2>9. u = v
    BY <2>5, <2>7, <2>8, SeqEqual
  <2> QED BY <2>1, <2>2, <2>4, <2>9
<1>3. ASSUME s # <<>>
      PROVE  /\ Image(s, g) # <<>>
             /\ Tail(s) \in Seq(S)
             /\ Image(Tail(s), g) = Tail(Image(s, g))
             /\ Head(s) \in S /\ g[Head(s)] = Head(Image(s, g))
  <2>1. PICK t, n, f : t = Tail(s) /\ n = Len(s) /\ f = Image(s, g)
    OBVIOUS
  <2>2. /\ t \in Seq(S) /\ n \in Nat /\ n >= 1 /\ Len(t) = n - 1 /\ Head(s) = s[1]
        /\ \A i \in 1 .. n - 1 : t[i] = s[i + 1]
    BY <1>3, <2>1, HeadTailProperties, EmptySeq
  <2>3. /\ f \in Seq(Nat) /\ Len(f) = n
        /\ \A i \in 1 .. n : f[i] = g[s[i]]
    BY <1>1, <2>1
  <2>4. f # <<>>
    BY <2>2, <2>3
  <2>5. PICK u, v : u = Image(t, g) /\ v = Tail(f)
    OBVIOUS
  <2>6. /\ v \in Seq(Nat) /\ Len(v) = n - 1 /\ Head(f) = f[1]
        /\ \A i \in 1 .. n - 1 : v[i] = f[i + 1]
    BY <2>3, <2>4, <2>5, HeadTailProperties
  <2>7. /\ u \in Seq(Nat) /\ Len(u) = n - 1
        /\ \A i \in 1 .. n - 1 : u[i] = g[t[i]]
    BY <1>1, <2>2, <2>5
  <2>8. ASSUME NEW i \in 1 .. n - 1 PROVE u[i] = v[i]
    <3>1. i + 1 \in 1 .. n
      BY <2>2
    <3>2. u[i] = g[t[i]] /\ t[i] = s[i + 1] /\ v[i] = f[i + 1]
      BY <2>2, <2>6, <2>7
    <3>3. f[i + 1] = g[s[i + 1]]
      BY <3>1, <2>3
    <3> QED BY <3>2, <3>3
  <2>9. u = v
    BY <2>6, <2>7, <2>8, SeqEqual
  <2>10. g[Head(s)] = Head(f)
    BY <2>2, <2>3, <2>6
  <2>11. Head(s) \in S
    BY <1>3, HeadTailProperties
  <2> QED BY <2>1, <2>2, <2>4, <2>5, <2>9, <2>10, <2>11
<1> QED BY <1>1, <1>2, <1>3

\* The same of the handles that wait for the renderer and of their frames.
LEMMA FramesOfHandles ==
  ASSUME NEW s \in Seq(Handle)
  PROVE  /\ Image(s, FrameOf) \in Seq(Nat)
         /\ Image(s, FrameOf) = [i \in DOMAIN s |-> s[i].frame]
         /\ \A h \in Handle : /\ Append(s, h) \in Seq(Handle)
                              /\ Image(Append(s, h), FrameOf) = Append(Image(s, FrameOf), h.frame)
         /\ s # <<>> => /\ Image(s, FrameOf) # <<>>
                        /\ Tail(s) \in Seq(Handle)
                        /\ Image(Tail(s), FrameOf) = Tail(Image(s, FrameOf))
                        /\ Head(s) \in Handle /\ Head(s).frame = Head(Image(s, FrameOf))
<1>1. FrameOf \in [Handle -> Nat] /\ \A h \in Handle : FrameOf[h] = h.frame
  <2>1. Empty.frame = 0
    BY DEF Empty, NoFrame
  <2>2. \A h \in Handle : h.frame \in Nat
    BY <2>1 DEF Handle
  <2> QED BY <2>2 DEF FrameOf
<1>2. \A i \in DOMAIN s : s[i] \in Handle
  OBVIOUS
<1>3. Image(s, FrameOf) = [i \in DOMAIN s |-> s[i].frame]
  BY <1>1, <1>2 DEF Image
<1> HIDE DEF FrameOf
<1>4. /\ Image(s, FrameOf) \in Seq(Nat)
      /\ \A h \in Handle : /\ Append(s, h) \in Seq(Handle)
                           /\ Image(Append(s, h), FrameOf) = Append(Image(s, FrameOf), FrameOf[h])
      /\ s # <<>> => /\ Image(s, FrameOf) # <<>>
                     /\ Tail(s) \in Seq(Handle)
                     /\ Image(Tail(s), FrameOf) = Tail(Image(s, FrameOf))
                     /\ Head(s) \in Handle /\ FrameOf[Head(s)] = Head(Image(s, FrameOf))
  BY <1>1, ImageOfSeq
<1> QED BY <1>1, <1>3, <1>4

\* Surfaces that are locked stay locked, and their textures wait as before.
LEMMA GuardedDependsOn ==
  ASSUME NEW d, Backed(d), Guarded(d), NEW e, DOMAIN e = Fields,
         e.pending = d.pending, e.picture = d.picture, e.alreadyInit = d.alreadyInit,
         NEW i \in DOMAIN d.surfaces, NEW b \in BOOLEAN,
         e.surfaces = [d.surfaces EXCEPT ![i].locked = b],
         b \/ \A p \in DOMAIN d.pending : d.pending[p] # i
  PROVE  Guarded(e)
<1>1. \A j \in DOMAIN d.surfaces : DOMAIN d.surfaces[j] = {"mem", "locked"}
  BY DEF Backed, Bound
<1>2. /\ DOMAIN e.surfaces = DOMAIN d.surfaces
      /\ \A j \in DOMAIN d.surfaces :
           e.surfaces[j].locked = IF j = i THEN b ELSE d.surfaces[j].locked
  BY <1>1
<1> QED BY <1>2 DEF Guarded

\* What is put out is the frame that is in the texture.
AsPutOut(h, picture) == h \in Handle /\ h.texture \in Texture /\ h.frame = picture[h.texture]

\* What a frame does to the textures that wait: nothing; it joins them; it joins
\* them and the first of all is put out, or lost.
Flows(d, f, r) ==
  LET joined == Append(Waiting(d), f)
      after  == Waiting(r.decoder)
  IN  \/ after = Waiting(d) /\ r.out = Empty
      \/ after = joined /\ r.out = Empty
      \/ after = Tail(joined) /\ r.out = Empty
      \/ /\ after = Tail(joined)
         /\ AsPutOut(r.out, r.decoder.picture) /\ r.out.frame = Head(joined)

\* The only picture that is lost is the one the frame is decoded over.
Painted(d, f, e) ==
  \/ e.picture = d.picture
  \/ \E t \in Texture : e.picture = [d.picture EXCEPT ![t] = f]

\* The work surface is one that no texture that waits belongs to.
LEMMA AcceptedGuarded ==
  ASSUME NEW d, Backed(d), Guarded(d), d.alreadyInit, NEW f \in Nat,
         NEW i, i = GetUnlockedFrame(d), i # 0
  PROVE  LET taken == Accepted(d, i, f)
         IN  /\ Backed(taken) /\ Guarded(taken) /\ taken.alreadyInit = d.alreadyInit
             /\ taken.pending # <<>>
             /\ Waiting(taken) = Append(Waiting(d), f)
             /\ Painted(d, f, taken)
<1>1. /\ Unlocked(d) # {} /\ i = Min(Unlocked(d))
  BY DEF GetUnlockedFrame
<1>2. Unlocked(d) \subseteq Nat
  BY DEF Unlocked, Backed, Bound
<1>3. i \in Unlocked(d)
  BY <1>1, <1>2, SmallestNat
<1>4. /\ i \in DOMAIN d.surfaces /\ ~ d.surfaces[i].locked /\ d.surfaces[i].mem = i
      /\ i \in Texture
  BY <1>2, <1>3, SuggestedAssumption DEF Unlocked, Backed, Bound, Texture
<1>5. PICK g : g = [d.picture EXCEPT ![i] = f]
  OBVIOUS
<1>6. g \in [Texture -> Nat] /\ g[i] = f /\ \A p \in DOMAIN d.pending : g[d.pending[p]] = d.picture[d.pending[p]]
  <2>1. \A p \in DOMAIN d.pending : d.pending[p] # i /\ d.pending[p] \in Texture
    BY <1>4 DEF Guarded
  <2> QED BY <1>4, <1>5, <2>1 DEF Guarded
<1>7. PICK taken : taken = Accepted(d, i, f)
  OBVIOUS
<1>8. /\ DOMAIN taken = Fields /\ taken.mids = d.mids /\ taken.frames = d.frames
      /\ taken.surfaces = [d.surfaces EXCEPT ![i].locked = TRUE]
      /\ taken.alreadyInit = d.alreadyInit
      /\ taken.pending = Append(d.pending, i) /\ taken.picture = g
  <2>1. DOMAIN d = Fields
    BY DEF Backed
  <2>2. taken = [d EXCEPT !.surfaces = [d.surfaces EXCEPT ![i].locked = TRUE],
                          !.pending = Append(d.pending, i),
                          !.picture = [d.picture EXCEPT ![i] = f]]
    BY <1>4, <1>7 DEF Accepted
  <2> QED BY <1>5, <2>1, <2>2 DEF Fields
<1>9. Backed(taken)
  <2>1. Bound(d.surfaces, d.frames)
    BY DEF Backed
  <2>2. Bound(taken.surfaces, taken.frames) /\ DOMAIN taken.surfaces = DOMAIN d.surfaces
    <3>1. /\ Bound([d.surfaces EXCEPT ![i].locked = TRUE], d.frames)
          /\ DOMAIN [d.surfaces EXCEPT ![i].locked = TRUE] = DOMAIN d.surfaces
      BY <2>1, LockKeepsBound
    <3> QED BY <1>8, <3>1
  <2> QED BY <1>8, <2>2, BackedDependsOn
<1>10. /\ taken.pending \in Seq(Texture) /\ taken.pending # <<>>
       /\ Waiting(taken) = Append(Waiting(d), f)
  <2>1. d.pending \in Seq(Texture)
    BY DEF Guarded
  <2>2. Append(d.pending, i) # <<>> /\ Append(d.pending, i) \in Seq(Texture)
    BY <1>4, <2>1, AppendProperties
  <2>3. Image(Append(d.pending, i), g) = Append(Image(d.pending, g), f)
    BY <1>4, <1>6, <2>1, ImageOfSeq
  <2>4. Image(d.pending, g) = Waiting(d)
    BY <1>6 DEF Image, Waiting
  <2> QED BY <1>8, <2>2, <2>3, <2>4 DEF Waiting
<1>11. Guarded(taken)
  <2>1. \A j \in DOMAIN d.surfaces :
          taken.surfaces[j].locked = IF j = i THEN TRUE ELSE d.surfaces[j].locked
    <3>1. \A j \in DOMAIN d.surfaces : DOMAIN d.surfaces[j] = {"mem", "locked"}
      BY DEF Backed, Bound
    <3>2. taken.surfaces = [d.surfaces EXCEPT ![i].locked = TRUE]
      BY <1>8
    <3> QED BY <3>1, <3>2
  <2>2. DOMAIN taken.surfaces = DOMAIN d.surfaces
    BY <1>8
  <2>3. \A p \in DOMAIN taken.pending : \/ p \in DOMAIN d.pending /\ taken.pending[p] = d.pending[p]
                                       \/ taken.pending[p] = i
    BY <1>4, <1>8 DEF Guarded
  <2>4. \A p \in DOMAIN taken.pending :
          taken.pending[p] \in DOMAIN taken.surfaces /\ taken.surfaces[taken.pending[p]].locked
    <3>1. \A p \in DOMAIN d.pending :
            d.pending[p] \in DOMAIN d.surfaces /\ d.surfaces[d.pending[p]].locked
      BY DEF Guarded
    <3>2. i \in DOMAIN d.surfaces
      BY <1>4
    <3>3. \A j \in DOMAIN d.surfaces : j = i \/ d.surfaces[j].locked => taken.surfaces[j].locked
      BY <2>1
    <3> QED BY <2>2, <2>3, <3>1, <3>2, <3>3, Zenon
  <2>5. taken.picture \in [Texture -> Nat] /\ taken.pending \in Seq(Texture)
    BY <1>6, <1>8, <1>10
  <2>6. DOMAIN taken = Fields
    BY <1>8
  <2>7. \A j \in DOMAIN taken.surfaces : taken.surfaces[j].locked \in BOOLEAN
    BY <1>8, <2>1, <2>2 DEF Guarded
  <2>8. taken.alreadyInit
    BY <1>8
  <2> HIDE DEF Fields
  <2> QED BY <2>4, <2>5, <2>6, <2>7, <2>8 DEF Guarded
<1>12. Painted(d, f, taken)
  <2>1. taken.picture = [d.picture EXCEPT ![i] = f]
    BY <1>5, <1>8
  <2> QED BY <1>4, <2>1, Zenon DEF Painted
<1> QED BY <1>7, <1>8, <1>9, <1>10, <1>11, <1>12

\* Putting a texture out leaves the surfaces and the pictures as they are.
LEMMA PutOutGuarded ==
  ASSUME NEW d, Backed(d), Guarded(d), d.alreadyInit, d.pending # <<>>
  PROVE  /\ Guarded(PutOut(d).decoder)
         /\ PutOut(d).decoder.alreadyInit
         /\ PutOut(d).decoder.picture = d.picture
         /\ Waiting(PutOut(d).decoder) = Tail(Waiting(d))
         /\ AsPutOut(PutOut(d).out, d.picture) /\ PutOut(d).out.frame = Head(Waiting(d))
<1>1. PICK put, t : put = PutOut(d).decoder /\ t = Head(d.pending)
  OBVIOUS
<1>2. /\ DOMAIN put = Fields /\ put.surfaces = d.surfaces /\ put.alreadyInit
      /\ put.pending = Tail(d.pending) /\ put.picture = d.picture
      /\ PutOut(d).out = [texture |-> t, frame |-> d.picture[t]]
  BY <1>1 DEF PutOut, Output, HandleOf, Guarded, Fields
<1>3. d.pending \in Seq(Texture) /\ d.picture \in [Texture -> Nat]
  BY DEF Guarded
<1>4. /\ Tail(d.pending) \in Seq(Texture)
      /\ Image(Tail(d.pending), d.picture) = Tail(Waiting(d))
      /\ t \in Texture /\ d.picture[t] = Head(Waiting(d))
  BY <1>1, <1>3, ImageOfSeq DEF Waiting
<1>5. \A p \in DOMAIN put.pending : p + 1 \in DOMAIN d.pending /\ put.pending[p] = d.pending[p + 1]
  BY <1>2, <1>3
<1>6. Guarded(put)
  <2>1. \A p \in DOMAIN put.pending :
          put.pending[p] \in DOMAIN put.surfaces /\ put.surfaces[put.pending[p]].locked
    BY <1>2, <1>5 DEF Guarded
  <2>2. \A i \in DOMAIN put.surfaces : put.surfaces[i].locked \in BOOLEAN
    BY <1>2 DEF Guarded
  <2> HIDE DEF Fields
  <2> QED BY <1>2, <1>3, <1>4, <2>1, <2>2 DEF Guarded
<1>7. AsPutOut(PutOut(d).out, d.picture) /\ PutOut(d).out.frame = Head(Waiting(d))
  BY <1>2, <1>3, <1>4 DEF AsPutOut, Handle
<1> QED BY <1>1, <1>2, <1>4, <1>6, <1>7 DEF Waiting

\* Decode, with the decoder at work.
LEMMA DecodeFlows ==
  ASSUME NEW d, Backed(d), Guarded(d), d.alreadyInit, NEW f \in Nat, NEW r \in Decode(d, f)
  PROVE  Guarded(r.decoder) /\ Flows(d, f, r) /\ Painted(d, f, r.decoder)
<1>1. CASE r \in Nothing(d)
  BY <1>1 DEF Nothing, Output, Flows, Painted
<1>2. CASE r \notin Nothing(d)
  <2>1. PICK i : i = GetUnlockedFrame(d)
    OBVIOUS
  <2>2. i # 0 /\ r \in DecodeFrameAsync(d, i, f)
    BY <1>2, <2>1 DEF Decode
  <2>3. PICK taken : taken = Accepted(d, i, f)
    OBVIOUS
  <2>4. /\ Backed(taken) /\ Guarded(taken) /\ taken.alreadyInit /\ taken.pending # <<>>
        /\ Waiting(taken) = Append(Waiting(d), f) /\ Painted(d, f, taken)
    BY <2>1, <2>2, <2>3, AcceptedGuarded
  <2>5. PICK put : put = PutOut(taken)
    OBVIOUS
  <2>6. /\ Guarded(put.decoder) /\ put.decoder.picture = taken.picture
        /\ Waiting(put.decoder) = Tail(Append(Waiting(d), f))
        /\ AsPutOut(put.out, put.decoder.picture) /\ put.out.frame = Head(Append(Waiting(d), f))
    BY <2>4, <2>5, PutOutGuarded
  <2>7. \/ r.decoder = taken /\ r.out = Empty
        \/ r = put
        \/ r.decoder = put.decoder /\ r.out = Empty
    BY <1>2, <2>2, <2>3, <2>5 DEF DecodeFrameAsync, Nothing, Output
  <2>8. Painted(d, f, put.decoder)
    BY <2>4, <2>6 DEF Painted
  <2> QED BY <2>4, <2>6, <2>7, <2>8 DEF Flows
<1> QED BY <1>1, <1>2

\* init2 happens while nothing waits to be put out.
LEMMA Init2Guarded ==
  ASSUME NEW d, Backed(d), Guarded(d), ~ d.alreadyInit, NEW q \in Init2(d)
  PROVE  /\ Guarded(q.decoder)
         /\ q.decoder.pending = d.pending /\ q.decoder.picture = d.picture
         /\ q.offset # 0 => q.decoder.alreadyInit
<1>1. d.pending = <<>> /\ DOMAIN d = Fields
  BY DEF Guarded
<1>2. ASSUME NEW a \in AllocExternalFrame(d)
      PROVE  /\ Guarded(a.decoder)
             /\ a.decoder.pending = <<>> /\ a.decoder.picture = d.picture
             /\ Guarded(Initialised(a))
             /\ Initialised(a).pending = <<>> /\ Initialised(a).picture = d.picture
             /\ Initialised(a).alreadyInit
  <2>1. PICK e : e = a.decoder
    OBVIOUS
  <2>2. /\ DOMAIN e = Fields /\ e.pending = <<>> /\ e.picture = d.picture
        /\ e.surfaces = d.surfaces
    <3>1. CASE d.mids # <<>>
      BY <1>1, <2>1, <3>1 DEF AllocExternalFrame, ExistingExternal, Response
    <3>2. CASE d.mids = <<>>
      <4>1. PICK n \in 0 .. NumFrameSuggested : a = NewExternal(d, n)
        BY <3>2 DEF AllocExternalFrame
      <4> QED BY <1>1, <2>1, <4>1 DEF NewExternal, Response, Fields
    <3> QED BY <3>1, <3>2
  <2>3. Guarded(e)
    BY <1>1, <2>2 DEF Guarded
  <2> DEFINE s == [i \in 1 .. a.actual |-> [mem |-> e.mids[i], locked |-> FALSE]]
  <2>4. PICK g : g = Initialised(a)
    OBVIOUS
  <2>5. /\ DOMAIN g = Fields /\ g.pending = <<>> /\ g.picture = d.picture
        /\ g.alreadyInit /\ g.surfaces = s
    <3> HIDE DEF s
    <3>1. g = [e EXCEPT !.alreadyInit = TRUE, !.surfaces = s]
      BY <2>1, <2>4 DEF Initialised, s
    <3> QED BY <2>2, <3>1 DEF Fields
  <2>6. \A i \in DOMAIN s : s[i].locked \in BOOLEAN
    OBVIOUS
  <2> HIDE DEF s
  <2>7. Guarded(g)
    BY <2>2, <2>3, <2>5, <2>6 DEF Guarded
  <2> QED BY <2>1, <2>2, <2>3, <2>4, <2>5, <2>7
<1>3. CASE q \in HeaderFails(d)
  BY <1>1, <1>3 DEF HeaderFails, Init2Result
<1>4. CASE q \in AllocFails(d) \cup InitFails(d)
  BY <1>1, <1>2, <1>4 DEF AllocFails, InitFails, Init2Result
<1>5. CASE q \in InitDone(d)
  BY <1>1, <1>2, <1>5 DEF InitDone, Init2Result
<1> QED BY <1>3, <1>4, <1>5 DEF Init2

\* decode_one_frame, initialising first where that has not been done.
LEMMA DecodeOneFrameFlows ==
  ASSUME NEW d, Backed(d), Guarded(d), NEW f \in Nat, NEW r \in DecodeOneFrame(d, f)
  PROVE  Guarded(r.decoder) /\ Flows(d, f, r) /\ Painted(d, f, r.decoder)
<1>1. CASE d.alreadyInit
  BY <1>1, DecodeFlows DEF DecodeOneFrame
<1>2. CASE ~ d.alreadyInit
  <2>1. PICK q \in Init2(d) :
          r \in IF q.offset = 0 THEN Nothing(q.decoder) ELSE Decode(q.decoder, f)
    BY <1>2 DEF DecodeOneFrame
  <2>2. /\ Backed(q.decoder) /\ Guarded(q.decoder)
        /\ q.decoder.pending = d.pending /\ q.decoder.picture = d.picture
        /\ Waiting(q.decoder) = Waiting(d)
        /\ q.offset # 0 => q.decoder.alreadyInit
    BY <1>2, Init2Backed, Init2Guarded DEF Waiting
  <2>3. CASE q.offset = 0
    BY <2>1, <2>2, <2>3 DEF Nothing, Output, Flows, Painted
  <2>4. CASE q.offset # 0
    <3>1. q.decoder.alreadyInit /\ r \in Decode(q.decoder, f)
      BY <2>1, <2>2, <2>4
    <3>2. /\ Guarded(r.decoder)
          /\ Flows(q.decoder, f, r) /\ Painted(q.decoder, f, r.decoder)
      BY <2>2, <3>1, DecodeFlows
    <3>3. Flows(d, f, r)
      BY <2>2, <3>2, Zenon DEF Flows
    <3>4. Painted(d, f, r.decoder)
      BY <2>2, <3>2, Zenon DEF Painted
    <3> QED BY <3>2, <3>3, <3>4
  <2> QED BY <2>3, <2>4
<1> QED BY <1>1, <1>2
-----------------------------------------------------------------------------
\* What the renderer had last, the channel before it, the decoder and the
\* channel before that, in the order of the frames.
Chain(r, D, P, U) ==
  /\ Ordered(D) /\ Ordered(P) /\ Ordered(U)
  /\ Before(r, D) /\ Before(r, P) /\ Before(r, U)
  /\ Before(D, P) /\ Before(D, U) /\ Before(P, U)

\* What is true of one frame put as a sequence.
LEMMA OneFrame ==
  ASSUME NEW f \in Nat
  PROVE  /\ <<f>> \in Seq(Nat) /\ Range(<<f>>) = {f} /\ Ordered(<<f>>)
         /\ \A s : Before(s, <<NoFrame>>)
         /\ \A s \in Seq(Nat) : Before(<<NoFrame>>, s)
<1>1. PICK h : h = <<f>>
  OBVIOUS
<1>2. h \in Seq(Nat) /\ DOMAIN h = {1} /\ h[1] = f
  BY <1>1
<1>3. Range(h) = {f} /\ Ordered(h)
  BY <1>2 DEF Range, Ordered
<1>4. \A s : Before(s, <<NoFrame>>)
  <2>1. PICK e : e = <<NoFrame>>
    OBVIOUS
  <2>2. \A x \in Range(e) : x = NoFrame
    BY <2>1 DEF Range
  <2> QED BY <2>1, <2>2 DEF Before
<1>5. ASSUME NEW s \in Seq(Nat) PROVE Before(<<NoFrame>>, s)
  <2>1. PICK e : e = <<NoFrame>>
    OBVIOUS
  <2>2. \A x \in Range(e) : x = 0
    BY <2>1 DEF Range, NoFrame
  <2>3. \A y \in Range(s) : y \in Nat
    BY DEF Range
  <2> QED BY <2>1, <2>2, <2>3 DEF Before, NoFrame
<1> QED BY <1>1, <1>2, <1>3, <1>4, <1>5

\* Append and Head with Tail, as sequences put together.
LEMMA AppendSplits ==
  ASSUME NEW s \in Seq(Nat), NEW f \in Nat
  PROVE  /\ Append(s, f) \in Seq(Nat)
         /\ Range(Append(s, f)) = Range(s) \cup {f}
         /\ Ordered(Append(s, f)) <=> Ordered(s) /\ Before(s, <<f>>)
         /\ \A u : Before(Append(s, f), u) <=> Before(s, u) /\ Before(<<f>>, u)
         /\ \A u : Before(u, Append(s, f)) <=> Before(u, s) /\ Before(u, <<f>>)
<1>1. PICK h, a : h = <<f>> /\ a = Append(s, f)
  OBVIOUS
<1>2. h \in Seq(Nat) /\ Range(h) = {f} /\ Ordered(h)
  BY <1>1, OneFrame
<1>3. a = s \o h
  BY <1>1, AppendIsConcat
<1>4. /\ s \o h \in Seq(Nat)
      /\ Range(s \o h) = Range(s) \cup Range(h)
      /\ Ordered(s \o h) <=> Ordered(s) /\ Ordered(h) /\ Before(s, h)
      /\ \A u : Before(s \o h, u) <=> Before(s, u) /\ Before(h, u)
      /\ \A u : Before(u, s \o h) <=> Before(u, s) /\ Before(u, h)
  BY <1>2, OrderedConcat
<1>5. /\ a \in Seq(Nat)
      /\ Range(a) = Range(s) \cup {f}
      /\ Ordered(a) <=> Ordered(s) /\ Before(s, h)
      /\ \A u : Before(a, u) <=> Before(s, u) /\ Before(h, u)
      /\ \A u : Before(u, a) <=> Before(u, s) /\ Before(u, h)
  BY <1>2, <1>3, <1>4, Zenon
<1> QED BY <1>1, <1>5

\* Taking the head off a sequence splits its range, its order and what is
\* before or after it.
LEMMA HeadSplits ==
  ASSUME NEW s \in Seq(Nat), s # <<>>
  PROVE  /\ Head(s) \in Nat /\ Tail(s) \in Seq(Nat)
         /\ Range(s) = {Head(s)} \cup Range(Tail(s))
         /\ Ordered(s) <=> Ordered(Tail(s)) /\ Before(<<Head(s)>>, Tail(s))
         /\ \A u : Before(s, u) <=> Before(<<Head(s)>>, u) /\ Before(Tail(s), u)
         /\ \A u : Before(u, s) <=> Before(u, <<Head(s)>>) /\ Before(u, Tail(s))
<1>1. PICK h, t : h = <<Head(s)>> /\ t = Tail(s)
  OBVIOUS
<1>2. Head(s) \in Nat /\ h \in Seq(Nat) /\ t \in Seq(Nat) /\ s = h \o t
  BY <1>1, HeadAndTail
<1>3. Range(h) = {Head(s)} /\ Ordered(h)
  BY <1>1, <1>2, OneFrame
<1>4. /\ Range(h \o t) = Range(h) \cup Range(t)
      /\ Ordered(h \o t) <=> Ordered(h) /\ Ordered(t) /\ Before(h, t)
      /\ \A u : Before(h \o t, u) <=> Before(h, u) /\ Before(t, u)
      /\ \A u : Before(u, h \o t) <=> Before(u, h) /\ Before(u, t)
  BY <1>2, OrderedConcat
<1>5. /\ Range(s) = {Head(s)} \cup Range(t)
      /\ Ordered(s) <=> Ordered(t) /\ Before(h, t)
      /\ \A u : Before(s, u) <=> Before(h, u) /\ Before(t, u)
      /\ \A u : Before(u, s) <=> Before(u, h) /\ Before(u, t)
  BY <1>2, <1>3, <1>4, Zenon
<1> QED BY <1>1, <1>2, <1>5

\* The decoder is handed the first frame of the channel.
LEMMA ChainHandsOn ==
  ASSUME NEW r, NEW D, NEW P \in Seq(Nat), NEW U \in Seq(Nat), U # <<>>, Chain(r, D, P, U)
  PROVE  Chain(r, D, Append(P, Head(U)), Tail(U))
BY AppendSplits, HeadSplits DEF Chain

\* The first frame that waits is lost.
LEMMA ChainLoses ==
  ASSUME NEW r, NEW D, NEW P \in Seq(Nat), P # <<>>, NEW U, Chain(r, D, P, U)
  PROVE  Chain(r, D, Tail(P), U)
BY HeadSplits DEF Chain

\* The first frame that waits is put out.
LEMMA ChainPutsOut ==
  ASSUME NEW r, NEW D \in Seq(Nat), NEW P \in Seq(Nat), P # <<>>, NEW U, Chain(r, D, P, U)
  PROVE  Chain(r, Append(D, Head(P)), Tail(P), U)
BY AppendSplits, HeadSplits DEF Chain

\* A frame without data is handed on.
LEMMA ChainHandsNothing ==
  ASSUME NEW r, NEW D \in Seq(Nat), NEW P \in Seq(Nat), NEW U \in Seq(Nat), Chain(r, D, P, U)
  PROVE  Chain(r, Append(D, NoFrame), P, U)
<1>1. NoFrame \in Nat
  BY DEF NoFrame
<1> QED BY <1>1, AppendSplits, OneFrame DEF Chain
-----------------------------------------------------------------------------
\* No frame of s is newer than the last that became decodable.
UpTo(s, n) == \A x \in Range(s) : x <= n

PutOutNow == Image(decoded, FrameOf)
Rendered == <<rendered.frame>>

\* The inductive invariant: the decoder, the types, and the chain of frames none
\* of which is newer than the last one.
FlowInv ==
  /\ Backed(decoder) /\ Guarded(decoder)
  /\ frames \in Nat /\ decoded \in Seq(Handle) /\ undecoded \in Seq(Nat)
  /\ rendered \in [frame : Nat, picture : Nat]
  /\ Chain(Rendered, PutOutNow, Waiting(decoder), undecoded)
  /\ UpTo(Rendered, frames) /\ UpTo(PutOutNow, frames)
  /\ UpTo(Waiting(decoder), frames) /\ UpTo(undecoded, frames)

\* The frames of the invariant, as sequences.
LEMMA FlowTypes ==
  ASSUME FlowInv
  PROVE  /\ Rendered \in Seq(Nat) /\ PutOutNow \in Seq(Nat)
         /\ Waiting(decoder) \in Seq(Nat) /\ undecoded \in Seq(Nat)
<1>1. rendered.frame \in Nat /\ decoded \in Seq(Handle) /\ undecoded \in Seq(Nat)
  BY DEF FlowInv
<1>2. decoder.pending \in Seq(Texture) /\ decoder.picture \in [Texture -> Nat]
  BY DEF FlowInv, Guarded
<1>3. Rendered \in Seq(Nat)
  BY <1>1, OneFrame DEF Rendered
<1>4. PutOutNow \in Seq(Nat)
  BY <1>1, FramesOfHandles DEF PutOutNow
<1>5. Waiting(decoder) \in Seq(Nat)
  BY <1>2, ImageOfSeq DEF Waiting
<1> QED BY <1>1, <1>3, <1>4, <1>5

\* Nothing is anywhere.
LEMMA FlowInit == Init => FlowInv
<1> SUFFICES ASSUME Init PROVE FlowInv
  OBVIOUS
<1>1. /\ frames = 0 /\ decoded = <<>> /\ undecoded = <<>>
      /\ decoder = NewDecoder /\ rendered = [frame |-> NoFrame, picture |-> NoFrame]
  BY DEF Init
<1>2. Backed(decoder)
  BY BackedInit
<1>3. Guarded(decoder) /\ decoder.pending = <<>>
  BY <1>1 DEF NewDecoder, Guarded, Fields, NoFrame
<1>4. PICK e : e = <<>>
  OBVIOUS
<1>5. e \in Seq(Nat) /\ e \in Seq(Handle) /\ DOMAIN e = {} /\ Range(e) = {} /\ Ordered(e)
  BY <1>4 DEF Range, Ordered
<1>6. \A g : Image(e, g) = e
  BY <1>4, <1>5 DEF Image
<1>7. Waiting(decoder) = e /\ PutOutNow = e
  BY <1>1, <1>3, <1>4, <1>6 DEF Waiting, PutOutNow
<1>8. Range(Rendered) = {0} /\ rendered \in [frame : Nat, picture : Nat]
  BY <1>1, OneFrame DEF NoFrame, Rendered
<1>9. Chain(Rendered, e, e, e) /\ UpTo(Rendered, 0) /\ UpTo(e, 0)
  BY <1>5, <1>8 DEF Chain, Before, UpTo
<1> QED BY <1>1, <1>2, <1>3, <1>4, <1>5, <1>7, <1>8, <1>9 DEF FlowInv

\* A packet arrives: what becomes decodable is newer than all there is.
LEMMA NetworkFlows ==
  ASSUME FlowInv, NEW l \in Loops, NetworkStep(l)
  PROVE  FlowInv'
<1>1. PICK n \in 0 .. 2 : /\ frames' = frames + n
                          /\ undecoded' = undecoded \o [i \in 1 .. n |-> frames + i]
  BY DEF NetworkStep
<1>2. UNCHANGED <<decoder, decoded, rendered>>
  BY DEF NetworkStep
<1>3. PICK new : new = [i \in 1 .. n |-> frames + i]
  OBVIOUS
<1>4. frames \in Nat
  BY DEF FlowInv
<1>5. \A i \in 1 .. n : new[i] = frames + i /\ new[i] \in Nat
  BY <1>3, <1>4
<1>6. new \in Seq(Nat) /\ DOMAIN new = 1 .. n
  BY <1>3, <1>4
<1>7. \A x \in Range(new) : x \in Nat /\ frames < x /\ x <= frames + n
  BY <1>4, <1>5, <1>6 DEF Range
<1>8. Ordered(new)
  BY <1>4, <1>5, <1>6 DEF Ordered
<1>9. ASSUME NEW s, UpTo(s, frames), \A x \in Range(s) : x \in Nat
      PROVE  Before(s, new) /\ UpTo(s, frames + n)
  BY <1>4, <1>7, <1>9 DEF Before, UpTo
<1>10. PICK z, D, P : z = Rendered /\ D = PutOutNow /\ P = Waiting(decoder)
  OBVIOUS
<1>11. z \in Seq(Nat) /\ P \in Seq(Nat) /\ D \in Seq(Nat) /\ undecoded \in Seq(Nat)
  BY <1>10, FlowTypes
<1>12. \A s \in Seq(Nat) : \A x \in Range(s) : x \in Nat
  BY DEF Range
<1>13. /\ Chain(z, D, P, undecoded)
       /\ UpTo(z, frames) /\ UpTo(D, frames) /\ UpTo(P, frames) /\ UpTo(undecoded, frames)
  BY <1>10 DEF FlowInv
<1>14. /\ UpTo(z, frames + n) /\ UpTo(D, frames + n) /\ UpTo(P, frames + n)
       /\ Before(z, new) /\ Before(D, new) /\ Before(P, new) /\ Before(undecoded, new)
       /\ UpTo(undecoded, frames + n)
  BY <1>9, <1>11, <1>12, <1>13
<1>15. PICK u : u = undecoded \o new
  OBVIOUS
<1>16. /\ u \in Seq(Nat) /\ Range(u) = Range(undecoded) \cup Range(new)
       /\ Ordered(u) <=> Ordered(undecoded) /\ Ordered(new) /\ Before(undecoded, new)
       /\ \A s : Before(s, u) <=> Before(s, undecoded) /\ Before(s, new)
  BY <1>6, <1>11, <1>15, OrderedConcat
<1>17. Chain(z, D, P, u)
  BY <1>8, <1>13, <1>14, <1>16 DEF Chain
<1>18. UpTo(u, frames + n)
  BY <1>7, <1>14, <1>16 DEF UpTo
<1>19. frames' = frames + n /\ frames + n \in Nat /\ undecoded' = u
  BY <1>1, <1>3, <1>4, <1>15
<1>20. Backed(decoder') /\ Guarded(decoder')
  BY <1>2 DEF FlowInv
<1>21. Rendered' = z /\ PutOutNow' = D /\ Waiting(decoder') = P
  BY <1>2, <1>10 DEF Rendered, PutOutNow
<1>22. decoded' \in Seq(Handle) /\ rendered' \in [frame : Nat, picture : Nat]
  BY <1>2 DEF FlowInv
<1> QED BY <1>14, <1>16, <1>17, <1>18, <1>19, <1>20, <1>21, <1>22 DEF FlowInv

\* A frame is decoded: it, or one before it, is handed on, or nothing is.
LEMMA DecoderFlows ==
  ASSUME FlowInv, NEW l \in Loops, DecodeStep(l)
  PROVE  FlowInv'
<1>1. PICK f, rest : f = Head(undecoded) /\ rest = Tail(undecoded)
  OBVIOUS
<1>2. undecoded # <<>> /\ undecoded' = rest /\ UNCHANGED <<frames, rendered>>
  BY <1>1 DEF DecodeStep
<1>3. PICK r \in DecodeOneFrame(decoder, f) :
        decoder' = r.decoder /\ decoded' = Append(decoded, r.out)
  BY <1>1 DEF DecodeStep, SendToRenderLoop
<1>4. PICK z, D, P : z = Rendered /\ D = PutOutNow /\ P = Waiting(decoder)
  OBVIOUS
<1>5. /\ P \in Seq(Nat) /\ D \in Seq(Nat) /\ undecoded \in Seq(Nat)
      /\ decoded \in Seq(Handle) /\ frames \in Nat
  BY <1>4, FlowTypes DEF FlowInv
<1>6. /\ f \in Nat /\ rest \in Seq(Nat) /\ Range(undecoded) = {f} \cup Range(rest)
  BY <1>1, <1>2, <1>5, HeadSplits
<1>7. Backed(decoder') /\ Guarded(decoder') /\ Flows(decoder, f, r)
  BY <1>3, <1>6, DecodeOneFrameBacked, DecodeOneFrameFlows DEF FlowInv
<1>8. /\ Chain(z, D, P, undecoded)
      /\ UpTo(z, frames) /\ UpTo(D, frames) /\ UpTo(P, frames) /\ UpTo(undecoded, frames)
  BY <1>4 DEF FlowInv
<1>9. UpTo(rest, frames) /\ f <= frames
  BY <1>6, <1>8 DEF UpTo
<1>10. PICK Q, after, o : Q = Append(P, f) /\ after = Waiting(r.decoder) /\ o = r.out.frame
  OBVIOUS
<1>11. Q \in Seq(Nat) /\ Q # <<>> /\ Range(Q) = Range(P) \cup {f}
  BY <1>5, <1>6, <1>10, AppendSplits, AppendProperties
<1>12. Chain(z, D, Q, rest) /\ UpTo(Q, frames)
  <2>1. Chain(z, D, Q, rest)
    BY <1>1, <1>2, <1>5, <1>8, <1>10, ChainHandsOn
  <2> QED BY <2>1, <1>8, <1>9, <1>11 DEF UpTo
<1>13. /\ Tail(Q) \in Seq(Nat) /\ Head(Q) \in Nat
       /\ Range(Q) = {Head(Q)} \cup Range(Tail(Q))
  BY <1>11, HeadSplits
<1>14. UpTo(Tail(Q), frames) /\ Head(Q) <= frames
  BY <1>12, <1>13 DEF UpTo
<1>15. NoFrame \in Nat /\ NoFrame <= frames
  BY <1>5 DEF NoFrame
<1>16. Empty \in Handle /\ Empty.frame = NoFrame
  BY <1>15 DEF Empty, Handle
<1>17. \/ after = P /\ o = NoFrame
       \/ after = Q /\ o = NoFrame
       \/ after = Tail(Q) /\ o = NoFrame
       \/ after = Tail(Q) /\ o = Head(Q)
  BY <1>4, <1>7, <1>10, <1>16 DEF Flows
<1>18. r.out \in Handle
  BY <1>7, <1>16 DEF Flows, AsPutOut
<1>19. /\ o \in Nat /\ o <= frames
       /\ after \in Seq(Nat) /\ UpTo(after, frames)
       /\ Chain(z, Append(D, o), after, rest)
  <2>1. CASE after = P /\ o = NoFrame
    <3>1. Chain(z, D, P, rest)
      BY <1>2, <1>5, <1>8, <1>1, HeadSplits DEF Chain
    <3> QED BY <2>1, <3>1, <1>5, <1>6, <1>8, <1>15, ChainHandsNothing
  <2>2. CASE after = Q /\ o = NoFrame
    BY <2>2, <1>5, <1>6, <1>11, <1>12, <1>15, ChainHandsNothing
  <2>3. CASE after = Tail(Q) /\ o = Head(Q)
    BY <2>3, <1>5, <1>11, <1>12, <1>13, <1>14, ChainPutsOut
  <2>4. CASE after = Tail(Q) /\ o = NoFrame
    <3>1. Chain(z, D, Tail(Q), rest)
      BY <1>11, <1>12, ChainLoses
    <3> QED BY <2>4, <3>1, <1>5, <1>6, <1>13, <1>14, <1>15, ChainHandsNothing
  <2> QED BY <1>17, <2>1, <2>2, <2>3, <2>4
<1>20. /\ Append(decoded, r.out) \in Seq(Handle)
       /\ Image(Append(decoded, r.out), FrameOf) = Append(D, o)
  BY <1>4, <1>5, <1>10, <1>18, FramesOfHandles DEF PutOutNow
<1>21. PICK d2 : d2 = Append(D, o)
  OBVIOUS
<1>22. UpTo(d2, frames) /\ Chain(z, d2, after, rest)
  <2>1. Range(Append(D, o)) = Range(D) \cup {o}
    BY <1>5, <1>19, AppendSplits
  <2> QED BY <1>8, <1>19, <1>21, <2>1 DEF UpTo
<1>23. /\ Rendered' = z /\ Waiting(decoder') = after
       /\ rendered' \in [frame : Nat, picture : Nat]
  BY <1>2, <1>3, <1>4, <1>10 DEF FlowInv, Rendered
<1>24. /\ PutOutNow' = d2 /\ decoded' \in Seq(Handle)
       /\ undecoded' = rest /\ frames' = frames
  BY <1>2, <1>3, <1>20, <1>21 DEF PutOutNow
<1> QED BY <1>5, <1>6, <1>7, <1>8, <1>9, <1>19, <1>22, <1>23, <1>24 DEF FlowInv

\* The renderer takes what comes first and keeps what it has when there is no
\* data.
LEMMA RendererFlows ==
  ASSUME FlowInv, NEW l \in Loops, RenderStep(l)
  PROVE  FlowInv'
<1>1. PICK first, h, rest, D : /\ first = Head(decoded) /\ h = first.frame
                               /\ D = PutOutNow /\ rest = Tail(D)
  OBVIOUS
<1>2. /\ decoded # <<>> /\ decoded' = Tail(decoded) /\ UNCHANGED <<frames, undecoded, decoder>>
      /\ rendered' = IF first = Empty THEN rendered ELSE Shown(first)
  BY <1>1 DEF RenderStep
<1>3. /\ decoded \in Seq(Handle) /\ frames \in Nat /\ rendered \in [frame : Nat, picture : Nat]
      /\ D \in Seq(Nat)
  BY <1>1, FlowTypes DEF FlowInv
<1>4. /\ D # <<>> /\ Tail(decoded) \in Seq(Handle) /\ Image(Tail(decoded), FrameOf) = rest
      /\ first \in Handle /\ h = Head(D)
  BY <1>1, <1>2, <1>3, FramesOfHandles DEF PutOutNow
<1>5. /\ h \in Nat /\ rest \in Seq(Nat) /\ Range(D) = {h} \cup Range(rest)
      /\ Ordered(D) <=> Ordered(rest) /\ Before(<<h>>, rest)
      /\ \A u : Before(D, u) <=> Before(<<h>>, u) /\ Before(rest, u)
      /\ \A u : Before(u, D) <=> Before(u, <<h>>) /\ Before(u, rest)
  <2>1. /\ Head(D) \in Nat /\ Tail(D) \in Seq(Nat) /\ Range(D) = {Head(D)} \cup Range(Tail(D))
        /\ Ordered(D) <=> Ordered(Tail(D)) /\ Before(<<Head(D)>>, Tail(D))
        /\ \A u : Before(D, u) <=> Before(<<Head(D)>>, u) /\ Before(Tail(D), u)
        /\ \A u : Before(u, D) <=> Before(u, <<Head(D)>>) /\ Before(u, Tail(D))
    BY <1>3, <1>4, HeadSplits
  <2>2. Head(D) = h /\ Tail(D) = rest
    BY <1>1, <1>4
  <2> QED BY <2>1, <2>2, Zenon
<1>6. PICK z, y, P, U : /\ z = Rendered /\ y = <<h>>
                        /\ P = Waiting(decoder) /\ U = undecoded
  OBVIOUS
<1>7. /\ Chain(z, D, P, U)
      /\ UpTo(z, frames) /\ UpTo(D, frames) /\ UpTo(P, frames) /\ UpTo(U, frames)
  BY <1>1, <1>6 DEF FlowInv
<1>8. Range(y) = {h}
  BY <1>5, <1>6, OneFrame
<1>9. UpTo(rest, frames) /\ UpTo(y, frames)
  BY <1>5, <1>7, <1>8 DEF UpTo
<1>10. Chain(z, rest, P, U) /\ Chain(y, rest, P, U)
  BY <1>5, <1>6, <1>7 DEF Chain
<1>11. Rendered' \in {z, y} /\ rendered' \in [frame : Nat, picture : Nat]
  <2>1. CASE first = Empty
    BY <2>1, <1>2, <1>3, <1>6 DEF Rendered
  <2>2. CASE first # Empty
    <3>1. decoder.picture[first.texture] \in Nat
      <4>1. first.texture \in Texture
        BY <2>2, <1>4 DEF Handle
      <4> QED BY <4>1 DEF FlowInv, Guarded
    <3>2. rendered' = [frame |-> h, picture |-> decoder.picture[first.texture]]
      BY <2>2, <1>1, <1>2 DEF Shown
    <3> QED BY <3>1, <3>2, <1>5, <1>6 DEF Rendered
  <2> QED BY <2>1, <2>2
<1>12. Chain(Rendered', rest, P, U) /\ UpTo(Rendered', frames)
  BY <1>7, <1>9, <1>10, <1>11
<1>13. Backed(decoder') /\ Guarded(decoder') /\ Waiting(decoder') = P
  BY <1>2, <1>6 DEF FlowInv
<1>14. U \in Seq(Nat) /\ undecoded' = U /\ frames' = frames
  BY <1>2, <1>6, FlowTypes
<1>15. PutOutNow' = rest /\ decoded' \in Seq(Handle)
  BY <1>2, <1>4 DEF PutOutNow
<1> QED BY <1>3, <1>7, <1>9, <1>11, <1>12, <1>13, <1>14, <1>15 DEF FlowInv

\* Every step keeps the chain.
LEMMA FlowNext == FlowInv /\ [Next]_vars => FlowInv'
<1> SUFFICES ASSUME FlowInv, [Next]_vars PROVE FlowInv'
  OBVIOUS
<1>1. CASE UNCHANGED pipeline
  <2>1. /\ frames' = frames /\ undecoded' = undecoded /\ decoder' = decoder
        /\ decoded' = decoded /\ rendered' = rendered
    BY <1>1 DEF pipeline
  <2>2. /\ Rendered' = Rendered /\ PutOutNow' = PutOutNow
        /\ Waiting(decoder') = Waiting(decoder)
        /\ Backed(decoder') /\ Guarded(decoder')
    BY <2>1 DEF FlowInv, Rendered, PutOutNow
  <2> QED BY <2>1, <2>2 DEF FlowInv
<1>2. CASE UnlockSurface
  <2>1. PICK i \in DOMAIN decoder.surfaces :
          /\ decoder.surfaces[i].mem \notin Range(decoder.pending)
          /\ decoder' = [decoder EXCEPT !.surfaces[i].locked = FALSE]
    BY <1>2 DEF UnlockSurface, Unlocks
  <2>2. decoder.surfaces[i].mem = i
    BY DEF FlowInv, Backed, Bound
  <2>3. \A p \in DOMAIN decoder.pending : decoder.pending[p] # i
    BY <2>1, <2>2 DEF Range
  <2>4. /\ DOMAIN decoder' = Fields /\ decoder'.pending = decoder.pending
        /\ decoder'.picture = decoder.picture /\ decoder'.alreadyInit = decoder.alreadyInit
        /\ decoder'.surfaces = [decoder.surfaces EXCEPT ![i].locked = FALSE]
    BY <2>1 DEF FlowInv, Guarded, Fields
  <2>5. Guarded(decoder')
    BY <2>3, <2>4, GuardedDependsOn DEF FlowInv
  <2>6. Backed(decoder')
    BY BackedNext DEF FlowInv
  <2>7. /\ UNCHANGED <<frames, undecoded, decoded, rendered>>
        /\ Rendered' = Rendered /\ PutOutNow' = PutOutNow
        /\ Waiting(decoder') = Waiting(decoder)
    BY <1>2, <2>4 DEF UnlockSurface, Rendered, PutOutNow, Waiting
  <2> QED BY <2>5, <2>6, <2>7 DEF FlowInv
<1>3. ASSUME NEW l \in Loops, NetworkStep(l) \/ DecodeStep(l) \/ RenderStep(l) PROVE FlowInv'
  BY <1>3, NetworkFlows, DecoderFlows, RendererFlows
<1>4. ASSUME NEW l \in Loops, Enter(l) PROVE UNCHANGED pipeline
  BY <1>4 DEF Enter
<1>5. Start \/ Stop \/ UNCHANGED vars => UNCHANGED pipeline
  BY DEF Start, Stop, vars, pipeline
<1> QED BY <1>1, <1>2, <1>3, <1>4, <1>5 DEF Next

\* For any number of surfaces, of calls of start() and of frames, whichever
\* calls of the decoder library fail and however late it puts its frames out,
\* no frame is put out before an older one and none twice, from the network loop
\* to the renderer; each counts as the frame it was put out as
\* (FramesStayInOrder).
THEOREM FramesKeepTheirOrder == Spec => []FramesStayInOrder
<1>1. FlowInv => FramesStayInOrder
  <2> SUFFICES ASSUME FlowInv PROVE Ordered(InFlight)
    BY DEF FramesStayInOrder
  <2>1. PICK z, D, P : z = Rendered /\ D = PutOutNow /\ P = Waiting(decoder)
    OBVIOUS
  <2>2. D = PutOutFrames /\ P = PendingFrames
    BY <2>1, FramesOfHandles DEF PutOutFrames, PendingFrames, PutOutNow, Waiting, Image, FlowInv
  <2>3. /\ z \in Seq(Nat) /\ P \in Seq(Nat) /\ D \in Seq(Nat) /\ undecoded \in Seq(Nat)
        /\ Ordered(z)
    BY <2>1, FlowTypes, OneFrame DEF FlowInv, Rendered
  <2>4. Chain(z, D, P, undecoded)
    BY <2>1 DEF FlowInv
  <2>5. PICK a : a = z \o D
    OBVIOUS
  <2>6. a \in Seq(Nat) /\ Ordered(a) /\ Before(a, P) /\ Before(a, undecoded)
    BY <2>3, <2>4, <2>5, OrderedConcat DEF Chain
  <2>7. PICK b : b = a \o P
    OBVIOUS
  <2>8. b \in Seq(Nat) /\ Ordered(b) /\ Before(b, undecoded)
    BY <2>3, <2>4, <2>6, <2>7, OrderedConcat DEF Chain
  <2>9. Ordered(b \o undecoded)
    BY <2>3, <2>4, <2>8, OrderedConcat DEF Chain
  <2> QED BY <2>1, <2>2, <2>5, <2>7, <2>9 DEF InFlight, Rendered
<1> QED BY <1>1, FlowInit, FlowNext, PTL DEF Spec
-----------------------------------------------------------------------------
\* A handle that waits for the renderer: in its texture is the frame it was put
\* out as or a later one.
NotOlder(s, picture) ==
  \A i \in DOMAIN s : s[i] = Empty \/ s[i].frame <= picture[s[i].texture]

\* The strengthening of ShownIsNotOlder.  A frame is newer than all that have
\* been put out before it, so that decoding it over one of them does no harm to
\* the invariant; frames are counted from 1.
ShownInv ==
  /\ FlowInv /\ NotOlder(decoded, decoder.picture)
  /\ rendered.frame <= rendered.picture
  /\ NoFrame \notin Range(undecoded)

\* Nothing waits for the renderer.
LEMMA ShownInit == Init => ShownInv
<1> SUFFICES ASSUME Init PROVE ShownInv
  OBVIOUS
<1>1. DOMAIN decoded = {} /\ Range(undecoded) = {}
  BY DEF Init, Range
<1>2. rendered.frame <= rendered.picture
  BY DEF Init, NoFrame
<1> QED BY <1>1, <1>2, FlowInit DEF ShownInv, NotOlder

\* A frame is decoded over a picture that is older, if over any.
LEMMA DecodedOverOlder ==
  ASSUME ShownInv, NEW l \in Loops, DecodeStep(l)
  PROVE  NotOlder(decoded', decoder'.picture) /\ NoFrame \notin Range(undecoded')
<1>1. PICK f, g : f = Head(undecoded) /\ g = decoder.picture
  OBVIOUS
<1>2. undecoded # <<>> /\ undecoded' = Tail(undecoded) /\ undecoded \in Seq(Nat)
  BY DEF DecodeStep, ShownInv, FlowInv
<1>3. PICK r \in DecodeOneFrame(decoder, f) :
        decoder' = r.decoder /\ decoded' = Append(decoded, r.out)
  BY <1>1 DEF DecodeStep, SendToRenderLoop
<1>4. f \in Nat /\ Range(undecoded) = {f} \cup Range(Tail(undecoded))
  BY <1>1, <1>2, HeadSplits
<1>5. /\ Flows(decoder, f, r) /\ Painted(decoder, f, r.decoder)
      /\ decoded \in Seq(Handle) /\ g \in [Texture -> Nat]
  BY <1>1, <1>3, <1>4, DecodeOneFrameFlows DEF ShownInv, FlowInv, Guarded
<1>6. PICK q : q = decoder'.picture
  OBVIOUS
<1>7. q = g \/ \E t \in Texture : q = [g EXCEPT ![t] = f]
  BY <1>1, <1>3, <1>5, <1>6 DEF Painted
<1>8. ASSUME NEW i \in DOMAIN decoded, decoded[i] # Empty
      PROVE  decoded[i].frame <= q[decoded[i].texture]
  <2>1. PICK h : h = decoded[i]
    OBVIOUS
  <2>2. h \in Handle /\ h.texture \in Texture /\ h.frame \in Nat
    BY <1>5, <1>8, <2>1 DEF Handle
  <2>3. h.frame <= g[h.texture]
    BY <1>1, <1>8, <2>1 DEF ShownInv, NotOlder
  <2>4. h.frame < f
    <3>1. Before(PutOutNow, undecoded)
      BY DEF ShownInv, FlowInv, Chain
    <3>2. f \in Range(undecoded) /\ f # NoFrame
      BY <1>4 DEF ShownInv
    <3>3. h.frame \in Range(PutOutNow)
      <4>1. PutOutNow = [k \in DOMAIN decoded |-> decoded[k].frame]
        BY <1>5, FramesOfHandles DEF PutOutNow
      <4> QED BY <2>1, <4>1 DEF Range
    <3> QED BY <3>1, <3>2, <3>3 DEF Before
  <2>5. ASSUME NEW t \in Texture, q = [g EXCEPT ![t] = f] PROVE h.frame <= q[h.texture]
    BY <1>4, <1>5, <2>2, <2>3, <2>4, <2>5
  <2> QED BY <1>7, <2>1, <2>3, <2>5
<1>9. r.out \in Handle /\ (r.out = Empty \/ r.out.frame <= q[r.out.texture])
  <2>1. CASE r.out = Empty
    BY <2>1 DEF Handle
  <2>2. CASE AsPutOut(r.out, q)
    <3>1. q[r.out.texture] \in Nat
      BY <1>4, <1>5, <1>7, <2>2 DEF AsPutOut
    <3> QED BY <2>2, <3>1 DEF AsPutOut
  <2> QED BY <1>3, <1>5, <1>6, <2>1, <2>2 DEF Flows
<1>10. NotOlder(decoded', q)
  <2>1. PICK d2, n : d2 = Append(decoded, r.out) /\ n = Len(decoded)
    OBVIOUS
  <2>2. /\ n \in Nat /\ DOMAIN decoded = 1 .. n /\ DOMAIN d2 = 1 .. n + 1
        /\ \A i \in 1 .. n : d2[i] = decoded[i]
        /\ d2[n + 1] = r.out
    BY <1>5, <1>9, <2>1, AppendProperties
  <2>3. \A i \in 1 .. n + 1 : i \in 1 .. n \/ i = n + 1
    BY <2>2
  <2> QED BY <1>3, <1>8, <1>9, <2>1, <2>2, <2>3 DEF NotOlder
<1> QED BY <1>2, <1>4, <1>6, <1>10 DEF ShownInv

\* The renderer shows what the head of its channel stands for.
LEMMA ShowsWhatIsThere ==
  ASSUME ShownInv, NEW l \in Loops, RenderStep(l)
  PROVE  NotOlder(decoded', decoder'.picture) /\ rendered'.frame <= rendered'.picture
<1>1. /\ decoded # <<>> /\ decoded' = Tail(decoded) /\ decoder' = decoder
      /\ rendered' = IF Head(decoded) = Empty THEN rendered ELSE Shown(Head(decoded))
  BY DEF RenderStep
<1>2. decoded \in Seq(Handle)
  BY DEF ShownInv, FlowInv
<1>3. PICK t, n : t = Tail(decoded) /\ n = Len(decoded)
  OBVIOUS
<1>4. /\ t \in Seq(Handle) /\ n \in Nat /\ n >= 1 /\ Len(t) = n - 1 /\ Head(decoded) = decoded[1]
      /\ DOMAIN decoded = 1 .. n /\ DOMAIN t = 1 .. n - 1
      /\ \A i \in 1 .. n - 1 : t[i] = decoded[i + 1]
  BY <1>1, <1>2, <1>3, HeadTailProperties, EmptySeq
<1>5. \A i \in DOMAIN t : i + 1 \in DOMAIN decoded /\ t[i] = decoded[i + 1]
  BY <1>4
<1>6. NotOlder(t, decoder.picture)
  BY <1>5 DEF ShownInv, NotOlder
<1>7. Head(decoded) = Empty \/ Head(decoded).frame <= decoder.picture[Head(decoded).texture]
  BY <1>4 DEF ShownInv, NotOlder
<1>8. rendered'.frame <= rendered'.picture
  BY <1>1, <1>7 DEF ShownInv, Shown
<1> QED BY <1>1, <1>3, <1>6, <1>8

\* Every step keeps it.
LEMMA ShownNext == ShownInv /\ [Next]_vars => ShownInv'
<1> SUFFICES ASSUME ShownInv, [Next]_vars PROVE ShownInv'
  OBVIOUS
<1>1. FlowInv'
  BY FlowNext DEF ShownInv
<1>2. SUFFICES /\ NotOlder(decoded', decoder'.picture) /\ rendered'.frame <= rendered'.picture
               /\ NoFrame \notin Range(undecoded')
  BY <1>1 DEF ShownInv
<1>3. CASE decoded' = decoded /\ decoder'.picture = decoder.picture /\ rendered' = rendered
           /\ undecoded' = undecoded
  BY <1>3 DEF ShownInv
<1>4. CASE UnlockSurface
  <2>1. PICK i : decoder' = [decoder EXCEPT !.surfaces[i].locked = FALSE]
    BY <1>4 DEF UnlockSurface, Unlocks
  <2>2. decoder'.picture = decoder.picture
    BY <2>1 DEF ShownInv, FlowInv, Guarded, Fields
  <2> QED BY <1>3, <1>4, <2>2 DEF UnlockSurface
<1>5. ASSUME NEW l \in Loops, NetworkStep(l) PROVE NoFrame \notin Range(undecoded')
  <2>1. PICK n \in 0 .. 2 : undecoded' = undecoded \o [i \in 1 .. n |-> frames + i]
    BY <1>5 DEF NetworkStep
  <2>2. PICK new : new = [i \in 1 .. n |-> frames + i]
    OBVIOUS
  <2>3. frames \in Nat /\ undecoded \in Seq(Nat)
    BY DEF ShownInv, FlowInv
  <2>4. new \in Seq(Nat) /\ NoFrame \notin Range(new)
    <3>1. DOMAIN new = 1 .. n /\ \A i \in 1 .. n : new[i] \in Nat /\ new[i] # 0
      BY <2>2, <2>3
    <3>2. new \in Seq(Nat)
      BY <2>2, <3>1
    <3> QED BY <3>1, <3>2 DEF Range, NoFrame
  <2>5. Range(undecoded \o new) = Range(undecoded) \cup Range(new)
    BY <2>3, <2>4, OrderedConcat
  <2> QED BY <2>1, <2>2, <2>4, <2>5 DEF ShownInv
<1>6. ASSUME NEW l \in Loops, NetworkStep(l)
      PROVE  decoded' = decoded /\ decoder' = decoder /\ rendered' = rendered
  BY <1>6 DEF NetworkStep
<1>7. ASSUME NEW l \in Loops, DecodeStep(l) PROVE rendered' = rendered
  BY <1>7 DEF DecodeStep
<1>8. ASSUME NEW l \in Loops, RenderStep(l) PROVE undecoded' = undecoded
  BY <1>8 DEF RenderStep
<1>9. ASSUME NEW l \in Loops, NetworkStep(l) \/ DecodeStep(l) \/ RenderStep(l) PROVE ShownInv'
  BY <1>1, <1>5, <1>6, <1>7, <1>8, <1>9, DecodedOverOlder, ShowsWhatIsThere DEF ShownInv
<1>10. ASSUME NEW l \in Loops, Enter(l) PROVE UNCHANGED pipeline
  BY <1>10 DEF Enter
<1>11. Start \/ Stop \/ UNCHANGED vars => UNCHANGED pipeline
  BY DEF Start, Stop, vars, pipeline
<1>12. UNCHANGED pipeline => decoded' = decoded /\ decoder' = decoder /\ rendered' = rendered
                             /\ undecoded' = undecoded
  BY DEF pipeline
<1> QED BY <1>3, <1>4, <1>9, <1>10, <1>11, <1>12 DEF Next, ShownInv

\* Under the same circumstances, and although a surface may be decoded into
\* while its texture waits for the renderer, the renderer never shows an older
\* picture than the frame that was put out (ShownIsNotOlder).
THEOREM NothingOlderIsShown == Spec => []ShownIsNotOlder
<1>1. ShownInv => ShownIsNotOlder
  <2> SUFFICES ASSUME ShownInv, NEW i \in DOMAIN decoded, decoded[i] # Empty
               PROVE  decoded[i].frame <= Shown(decoded[i]).picture
    BY DEF ShownIsNotOlder, ShownInv, Range
  <2> QED BY DEF ShownInv, NotOlder, Shown
<1> QED BY <1>1, ShownInit, ShownNext, PTL DEF Spec
=============================================================================
