------------------------- MODULE FrameBufferProofs -------------------------
(***************************************************************************)
(* The bound on FrameBuffer and the exactness of its links, for every set  *)
(* of ids, every capacity and every number of references; and that the     *)
(* history it owns implements DecodedWindow, for every window size.        *)
(***************************************************************************)
EXTENDS FrameBuffer, DecodedFramesHistory, FiniteSetTheorems, TLAPS

\* What the entries of fs say, which clear_frames_and_history makes no entries.
Typed(fs) ==
  /\ DOMAIN fs \subseteq FrameIds
  /\ fs \in [DOMAIN fs -> Entry]

\* A frame that is held references other entries, each once, and counts them
\* all; an entry without a frame references nothing.
RefsCounted(fs) ==
  \A id \in DOMAIN fs :
    /\ fs[id].missing = Len(fs[id].refs)
    /\ IsInjective(fs[id].refs)
    /\ ToSet(fs[id].refs) \subseteq DOMAIN fs
    /\ fs[id].held \/ fs[id].refs = <<>>

\* The dependents of an entry are the frames that reference it, each once.
Backlinked(fs) ==
  \A id \in DOMAIN fs :
    /\ ToSet(fs[id].dependents) = {d \in DOMAIN fs : id \in ToSet(fs[d].refs)}
    /\ IsInjective(fs[id].dependents)
    /\ fs[id].held \/ fs[id].dependents # <<>>

Linked(fs) == Typed(fs) /\ RefsCounted(fs) /\ Backlinked(fs)

\* A bounded sequence is a sequence.
LEMMA SeqOfType ==
  ASSUME NEW S, NEW n \in Nat, NEW s \in SeqOf(S, n)
  PROVE  s \in Seq(S) /\ Len(s) \in 0 .. n /\ DOMAIN s = 1 .. Len(s)
BY DEF SeqOf

\* Contains and ToSet agree on sequences.
LEMMA ContainsIsMember ==
  ASSUME NEW S, NEW s \in Seq(S), NEW e
  PROVE  Contains(s, e) <=> e \in ToSet(s)
BY DEF Contains, ToSet

\* A sequence without repetitions has as many elements as places.
LEMMA InjectiveCardinality ==
  ASSUME NEW S, NEW s \in Seq(S), IsInjective(s)
  PROVE  IsFiniteSet(ToSet(s)) /\ Cardinality(ToSet(s)) = Len(s)
<1>1. DOMAIN s = 1 .. Len(s) /\ Len(s) \in Nat
  OBVIOUS
<1>2. s \in Bijection(1 .. Len(s), ToSet(s))
  BY <1>1 DEF Bijection, Injection, Surjection, IsInjective, ToSet
<1>3. IsFiniteSet(1 .. Len(s)) /\ Cardinality(1 .. Len(s)) = Len(s)
  BY <1>1, FS_Interval
<1>4. ExistsBijection(1 .. Len(s), ToSet(s))
  BY <1>2 DEF ExistsBijection
<1> QED BY <1>3, <1>4, FS_Bijection

\* Appending a new element.
LEMMA AppendNew ==
  ASSUME NEW S, NEW s \in Seq(S), NEW e \in S
  PROVE  /\ Append(s, e) \in Seq(S)
         /\ ToSet(Append(s, e)) = ToSet(s) \cup {e}
         /\ Append(s, e) # <<>>
         /\ IsInjective(s) /\ e \notin ToSet(s) => IsInjective(Append(s, e))
<1>1. /\ DOMAIN s = 1 .. Len(s) /\ Len(s) \in Nat
      /\ Append(s, e) \in Seq(S)
      /\ DOMAIN Append(s, e) = 1 .. Len(s) + 1
      /\ \A i \in 1 .. Len(s) : Append(s, e)[i] = s[i]
      /\ Append(s, e)[Len(s) + 1] = e
  OBVIOUS
<1>2. ToSet(Append(s, e)) = ToSet(s) \cup {e}
  BY <1>1 DEF ToSet
<1>3. IsInjective(s) /\ e \notin ToSet(s) => IsInjective(Append(s, e))
  BY <1>1 DEF IsInjective, ToSet
<1> QED BY <1>1, <1>2, <1>3

\* What is known of a valid frame.
LEMMA FrameFacts ==
  ASSUME NEW f \in Frame, ValidReferences(f)
  PROVE  /\ f.id \in FrameIds
         /\ f.refs \in Seq(FrameIds) /\ Len(f.refs) \in 0 .. MaxReferences
         /\ f.refs \in SeqOf(FrameIds, MaxReferences)
         /\ IsInjective(f.refs)
         /\ f.id \notin ToSet(f.refs)
         /\ ToSet(f.refs) \subseteq FrameIds
<1>1. f.id \in FrameIds /\ f.refs \in SeqOf(FrameIds, MaxReferences)
  BY DEF Frame
<1>2. /\ f.refs \in Seq(FrameIds) /\ Len(f.refs) \in 0 .. MaxReferences
      /\ DOMAIN f.refs = 1 .. Len(f.refs)
  BY <1>1, SeqOfType, SizeAssumption
<1>3. \A i \in 1 .. Len(f.refs) : f.refs[i] \in FrameIds /\ f.refs[i] < f.id
  BY <1>2 DEF ValidReferences
<1>4. f.id \notin ToSet(f.refs) /\ ToSet(f.refs) \subseteq FrameIds
  <2>1. \A i \in 1 .. Len(f.refs) : f.refs[i] # f.id
    <3> SUFFICES ASSUME NEW i \in 1 .. Len(f.refs) PROVE f.refs[i] # f.id
      OBVIOUS
    <3>1. f.refs[i] \in Int /\ f.id \in Int /\ f.refs[i] < f.id
      BY <1>1, <1>3, FrameIdsAssumption
    <3> QED BY <3>1
  <2> QED BY <1>2, <1>3, <2>1 DEF ToSet
<1>5. \A i, j \in 1 .. Len(f.refs) : i < j => f.refs[i] # f.refs[j]
  BY <1>2 DEF ValidReferences
<1>6. IsInjective(f.refs)
  BY <1>2, <1>5 DEF IsInjective
<1> QED BY <1>1, <1>2, <1>4, <1>6
-----------------------------------------------------------------------------
\* What update_frame_info_with_incoming_frame writes to each entry.
LEMMA StoredEntries ==
  ASSUME NEW fs, Typed(fs), NEW f \in Frame, ValidReferences(f),
         ~ AlreadyHeld(fs, f.id)
  PROVE  LET gs == Stored(fs, f)
             D  == (DOMAIN fs \cup {f.id}) \cup ToSet(f.refs)
         IN  /\ DOMAIN gs = D
             /\ \A id : EntryOf(fs, id) \in Entry
             /\ \A id \in D :
                  /\ gs[id] \in Entry
                  /\ gs[id].held = (id = f.id \/ EntryOf(fs, id).held)
                  /\ gs[id].refs = IF id = f.id THEN f.refs ELSE EntryOf(fs, id).refs
                  /\ gs[id].missing =
                       IF id = f.id THEN Len(f.refs) ELSE EntryOf(fs, id).missing
                  /\ gs[id].dependents =
                       IF id \in ToSet(f.refs) THEN Append(EntryOf(fs, id).dependents, f.id)
                       ELSE EntryOf(fs, id).dependents
<1> DEFINE gs == Stored(fs, f)
           D  == (DOMAIN fs \cup {f.id}) \cup ToSet(f.refs)
<1>1. gs = [id \in D |->
              IF id = f.id
              THEN [EntryOf(fs, id) EXCEPT !.held = TRUE, !.refs = f.refs,
                                           !.missing = Len(f.refs)]
              ELSE IF id \in ToSet(f.refs)
              THEN [EntryOf(fs, id) EXCEPT !.dependents = Append(@, f.id)]
              ELSE fs[id]]
  BY DEF Stored, AddDependent, Missing
<1> HIDE DEF gs
<1>2. /\ f.id \in FrameIds /\ Len(f.refs) \in Nat
      /\ f.refs \in SeqOf(FrameIds, MaxReferences) /\ f.id \notin ToSet(f.refs)
  BY FrameFacts
<1>3. \A id : EntryOf(fs, id) \in Entry
  <2>1. NewEntry \in Entry
    BY SizeAssumption DEF NewEntry, Entry, SeqOf
  <2> QED BY <2>1 DEF EntryOf, Typed
<1>4. ASSUME NEW id \in D
      PROVE  /\ gs[id] \in Entry
             /\ gs[id].held = (id = f.id \/ EntryOf(fs, id).held)
             /\ gs[id].refs = IF id = f.id THEN f.refs ELSE EntryOf(fs, id).refs
             /\ gs[id].missing = IF id = f.id THEN Len(f.refs) ELSE EntryOf(fs, id).missing
             /\ gs[id].dependents =
                  IF id \in ToSet(f.refs) THEN Append(EntryOf(fs, id).dependents, f.id)
                  ELSE EntryOf(fs, id).dependents
  <2>1. CASE id = f.id
    BY <2>1, <1>1, <1>2, <1>3 DEF Entry
  <2>2. CASE id # f.id /\ id \in ToSet(f.refs)
    <3>1. Append(EntryOf(fs, id).dependents, f.id) \in Seq(FrameIds)
      BY <1>2, <1>3 DEF Entry
    <3> QED BY <2>2, <3>1, <1>1, <1>3 DEF Entry
  <2>3. CASE id # f.id /\ id \notin ToSet(f.refs)
    <3>1. gs[id] = EntryOf(fs, id)
      BY <2>3, <1>1 DEF EntryOf
    <3> QED BY <2>3, <3>1, <1>3 DEF Entry
  <2> QED BY <2>1, <2>2, <2>3
<1>5. DOMAIN gs = D
  BY <1>1
<1> QED BY <1>3, <1>4, <1>5 DEF gs

\* insert keeps the links exact when it stores a frame.
LEMMA StoredLinked ==
  ASSUME NEW fs, Linked(fs), NEW f \in Frame, ValidReferences(f)
  PROVE  Linked(Stored(fs, f))
<1>1. CASE AlreadyHeld(fs, f.id)
  BY <1>1 DEF Stored
<1>2. CASE ~ AlreadyHeld(fs, f.id)
  <2> DEFINE gs == Stored(fs, f)
             D  == (DOMAIN fs \cup {f.id}) \cup ToSet(f.refs)
  <2>1. /\ f.id \in FrameIds /\ f.refs \in Seq(FrameIds) /\ Len(f.refs) \in Nat
        /\ IsInjective(f.refs) /\ f.id \notin ToSet(f.refs)
        /\ ToSet(f.refs) \subseteq FrameIds
    BY FrameFacts
  <2> HIDE DEF gs
  <2>2. /\ DOMAIN gs = D
        /\ \A id : EntryOf(fs, id) \in Entry
        /\ \A id \in D :
             /\ gs[id] \in Entry
             /\ gs[id].held = (id = f.id \/ EntryOf(fs, id).held)
             /\ gs[id].refs = IF id = f.id THEN f.refs ELSE EntryOf(fs, id).refs
             /\ gs[id].missing = IF id = f.id THEN Len(f.refs) ELSE EntryOf(fs, id).missing
             /\ gs[id].dependents =
                  IF id \in ToSet(f.refs) THEN Append(EntryOf(fs, id).dependents, f.id)
                  ELSE EntryOf(fs, id).dependents
    BY <1>2, StoredEntries DEF gs, Linked
  <2>3. \A id : EntryOf(fs, id).dependents \in Seq(FrameIds)
    BY <2>2 DEF Entry
  <2>4. DOMAIN gs = D /\ D \subseteq FrameIds
    BY <2>2, <2>1 DEF Linked, Typed
  <2>5. Typed(gs)
    <3>1. gs = [id \in D |-> gs[id]]
      <4>1. gs = Stored(fs, f)
        BY DEF gs
      <4> QED BY <1>2, <4>1 DEF Stored
    <3> QED BY <2>2, <2>4, <3>1 DEF Typed
  <2>6. /\ EntryOf(fs, f.id).refs = <<>>
        /\ \A id : id \notin DOMAIN fs =>
             EntryOf(fs, id).refs = <<>> /\ EntryOf(fs, id).missing = 0
             /\ EntryOf(fs, id).dependents = <<>> /\ ~ EntryOf(fs, id).held
    BY <1>2 DEF AlreadyHeld, EntryOf, NewEntry, Linked, RefsCounted
  <2>7. RefsCounted(gs)
    <3> SUFFICES ASSUME NEW id \in D
                 PROVE  /\ gs[id].missing = Len(gs[id].refs)
                        /\ IsInjective(gs[id].refs)
                        /\ ToSet(gs[id].refs) \subseteq D
                        /\ gs[id].held \/ gs[id].refs = <<>>
      BY <2>4 DEF RefsCounted
    <3>1. CASE id = f.id
      BY <3>1, <2>1, <2>2
    <3>2. CASE id # f.id /\ id \in DOMAIN fs
      BY <3>2, <2>2 DEF EntryOf, Linked, RefsCounted
    <3>3. CASE id # f.id /\ id \notin DOMAIN fs
      BY <3>3, <2>2, <2>6 DEF IsInjective, ToSet
    <3> QED BY <3>1, <3>2, <3>3
  <2>8. ASSUME NEW id
         PROVE  /\ ToSet(EntryOf(fs, id).dependents)
                     = {d \in DOMAIN fs : id \in ToSet(fs[d].refs)}
                /\ IsInjective(EntryOf(fs, id).dependents)
                /\ f.id \notin ToSet(EntryOf(fs, id).dependents)
    <3>1. f.id \in DOMAIN fs => fs[f.id].refs = <<>>
      BY <2>6 DEF EntryOf
    <3>2. ToSet(<<>>) = {} /\ IsInjective(<<>>)
      BY DEF ToSet, IsInjective
    <3>3. CASE id \in DOMAIN fs
      BY <3>1, <3>2, <3>3 DEF EntryOf, Linked, Backlinked
    <3>4. CASE id \notin DOMAIN fs
      <4>1. \A d \in DOMAIN fs : id \notin ToSet(fs[d].refs)
        BY <3>4 DEF Linked, RefsCounted
      <4> QED BY <4>1, <3>2, <3>4, <2>6
    <3> QED BY <3>3, <3>4
  <2>9. ASSUME NEW id
         PROVE  {d \in D : id \in ToSet(gs[d].refs)}
                  = {d \in DOMAIN fs : id \in ToSet(fs[d].refs)}
                    \cup {d \in {f.id} : id \in ToSet(f.refs)}
    <3>1. ToSet(<<>>) = {}
      BY DEF ToSet
    <3>2. \A d \in D : gs[d].refs = IF d = f.id THEN f.refs
                                    ELSE IF d \in DOMAIN fs THEN fs[d].refs ELSE <<>>
      BY <2>2, <2>6 DEF EntryOf
    <3>3. f.id \in DOMAIN fs => fs[f.id].refs = <<>>
      BY <2>6 DEF EntryOf
    <3> QED BY <3>1, <3>2, <3>3
  <2>10. Backlinked(gs)
    <3> SUFFICES ASSUME NEW id \in D
                 PROVE  /\ ToSet(gs[id].dependents)
                             = {d \in D : id \in ToSet(gs[d].refs)}
                        /\ IsInjective(gs[id].dependents)
                        /\ gs[id].held \/ gs[id].dependents # <<>>
      BY <2>4 DEF Backlinked
    <3>1. CASE id \in ToSet(f.refs)
      <4>1. gs[id].dependents = Append(EntryOf(fs, id).dependents, f.id)
        BY <3>1, <2>2
      <4>2. /\ ToSet(gs[id].dependents) = ToSet(EntryOf(fs, id).dependents) \cup {f.id}
            /\ IsInjective(gs[id].dependents) /\ gs[id].dependents # <<>>
        BY <4>1, <2>1, <2>3, <2>8, AppendNew, SMTT(30)
      <4> QED BY <3>1, <4>2, <2>8, <2>9
    <3>2. CASE id \notin ToSet(f.refs)
      <4>1. gs[id].dependents = EntryOf(fs, id).dependents
        BY <3>2, <2>2
      <4>2. gs[id].held \/ gs[id].dependents # <<>>
        <5>1. CASE id = f.id
          BY <5>1, <2>2
        <5>2. CASE id # f.id
          BY <3>2, <4>1, <5>2, <2>2 DEF EntryOf, Linked, Backlinked
        <5> QED BY <5>1, <5>2
      <4> QED BY <3>2, <4>1, <4>2, <2>8, <2>9
    <3> QED BY <3>1, <3>2
  <2> QED BY <2>5, <2>7, <2>10 DEF Linked, gs
<1> QED BY <1>1, <1>2

-----------------------------------------------------------------------------
\* The inductive invariant: exact links, and the bound, on finitely many
\* entries.
IInv ==
  /\ Linked(frames)
  /\ IsFiniteSet(DOMAIN frames)
  /\ FramesBounded

\* An empty buffer.
LEMMA EmptyLinked ==
  /\ Linked(<<>>) /\ DOMAIN <<>> = {}
  /\ IsFiniteSet(DOMAIN <<>>) /\ Cardinality(DOMAIN <<>>) = 0
<1>1. DOMAIN <<>> = {}
  OBVIOUS
<1>2. Linked(<<>>)
  BY <1>1 DEF Linked, Typed, RefsCounted, Backlinked
<1> QED BY <1>1, <1>2, FS_EmptySet

\* No id is below every entry and above every entry.
LEMMA NoJump ==
  ASSUME Linked(frames), NEW id \in FrameIds
  PROVE  ~ JumpDetected(id)
<1> SUFFICES ASSUME NEW i \in DOMAIN frames PROVE ~ (id < i /\ i < id)
  BY DEF JumpDetected
<1>1. i \in Int /\ id \in Int
  BY FrameIdsAssumption DEF Linked, Typed
<1> QED BY <1>1

\* What storing a frame adds: its own entry, now held, and entries for its
\* references; the frames held before stay, with their references.
LEMMA StoredAdds ==
  ASSUME NEW fs, Typed(fs), NEW f \in Frame, ValidReferences(f),
         ~ AlreadyHeld(fs, f.id)
  PROVE  LET gs == Stored(fs, f)
         IN  /\ \A id \in DOMAIN fs : fs[id].held =>
                  id \in DOMAIN gs /\ gs[id].held /\ gs[id].refs = fs[id].refs
             /\ {id \in DOMAIN gs : gs[id].held} = {id \in DOMAIN fs : fs[id].held} \cup {f.id}
<1> DEFINE gs == Stored(fs, f)
           D  == (DOMAIN fs \cup {f.id}) \cup ToSet(f.refs)
<1> HIDE DEF gs
<1>1. /\ DOMAIN gs = D
      /\ \A id \in D :
           /\ gs[id].held = (id = f.id \/ EntryOf(fs, id).held)
           /\ gs[id].refs = IF id = f.id THEN f.refs ELSE EntryOf(fs, id).refs
  BY StoredEntries, ZenonT(60) DEF gs
<1>2. \A id : EntryOf(fs, id).held <=> id \in DOMAIN fs /\ fs[id].held
  BY DEF EntryOf, NewEntry
<1>3. ASSUME NEW id \in DOMAIN fs, fs[id].held
      PROVE  id \in DOMAIN gs /\ gs[id].held /\ gs[id].refs = fs[id].refs
  BY <1>1, <1>2, <1>3 DEF EntryOf, AlreadyHeld
<1>4. {id \in DOMAIN gs : gs[id].held} = {id \in DOMAIN fs : fs[id].held} \cup {f.id}
  BY <1>1, <1>2
<1> QED BY <1>3, <1>4 DEF gs

\* The frames held and the entries that storing a frame leaves.
LEMMA StoredCount ==
  ASSUME NEW fs, Linked(fs), IsFiniteSet(DOMAIN fs), NEW f \in Frame, ValidReferences(f),
         Cardinality(DOMAIN fs) < MaxFrames
  PROVE  LET gs == Stored(fs, f)
             held(h) == {id \in DOMAIN h : h[id].held}
         IN  /\ IsFiniteSet(DOMAIN gs)
             /\ Cardinality(DOMAIN gs) <= MaxFrames + MaxReferences
             /\ Cardinality(held(gs)) <= MaxFrames
<1> DEFINE gs == Stored(fs, f)
           held(h) == {id \in DOMAIN h : h[id].held}
<1>1. /\ IsFiniteSet(held(fs)) /\ Cardinality(held(fs)) <= Cardinality(DOMAIN fs)
      /\ Cardinality(DOMAIN fs) \in Nat /\ Cardinality(held(fs)) \in Nat
  BY FS_Subset, FS_CardinalityType
<1>2. CASE AlreadyHeld(fs, f.id)
  BY <1>1, <1>2, SizeAssumption DEF Stored
<1>3. CASE ~ AlreadyHeld(fs, f.id)
  <2> HIDE DEF gs
  <2>1. /\ DOMAIN gs = (DOMAIN fs \cup {f.id}) \cup ToSet(f.refs)
        /\ held(gs) = held(fs) \cup {f.id}
    BY <1>3, StoredEntries, StoredAdds DEF gs, Linked
  <2>2. /\ f.refs \in Seq(FrameIds) /\ IsInjective(f.refs)
        /\ Len(f.refs) \in 0 .. MaxReferences
    BY FrameFacts
  <2>3. IsFiniteSet(ToSet(f.refs)) /\ Cardinality(ToSet(f.refs)) = Len(f.refs)
    BY <2>2, InjectiveCardinality
  <2>4. /\ IsFiniteSet(held(fs) \cup {f.id})
        /\ Cardinality(held(fs) \cup {f.id}) <= Cardinality(held(fs)) + 1
    <3> HIDE DEF held
    <3> QED BY <1>1, FS_AddElement, SMTT(30)
  <2> DEFINE E == DOMAIN fs \cup {f.id}
  <2>5. IsFiniteSet(E) /\ Cardinality(E) <= Cardinality(DOMAIN fs) + 1 /\ Cardinality(E) \in Nat
    <3>1. /\ IsFiniteSet(E)
          /\ Cardinality(E) = IF f.id \in DOMAIN fs THEN Cardinality(DOMAIN fs)
                              ELSE Cardinality(DOMAIN fs) + 1
      BY FS_AddElement
    <3> HIDE DEF E
    <3> QED BY <1>1, <3>1
  <2> HIDE DEF E
  <2>6. /\ IsFiniteSet(E \cup ToSet(f.refs))
        /\ Cardinality(E \cup ToSet(f.refs)) <= Cardinality(E) + Len(f.refs)
    <3> DEFINE R == ToSet(f.refs)
    <3>1. IsFiniteSet(R) /\ Cardinality(R) = Len(f.refs) /\ Len(f.refs) \in Nat
      BY <2>2, <2>3
    <3> HIDE DEF R
    <3>2. Cardinality(E \cap R) \in Nat
      BY <2>5, FS_Intersection, FS_CardinalityType
    <3>3. /\ IsFiniteSet(E \cup R)
          /\ Cardinality(E \cup R) = Cardinality(E) + Cardinality(R) - Cardinality(E \cap R)
      BY <2>5, <3>1, FS_Union
    <3>4. Cardinality(E \cup R) <= Cardinality(E) + Len(f.refs)
      BY <2>5, <3>1, <3>2, <3>3
    <3> QED BY <3>3, <3>4 DEF R
  <2>7. Cardinality(E \cup ToSet(f.refs)) \in Nat /\ Cardinality(held(fs) \cup {f.id}) \in Nat
    BY <2>4, <2>6, FS_CardinalityType
  <2>8. DOMAIN gs = E \cup ToSet(f.refs)
    BY <2>1 DEF E
  <2> HIDE DEF held
  <2>9. Cardinality(DOMAIN gs) <= MaxFrames + MaxReferences
    BY <1>1, <2>2, <2>5, <2>6, <2>7, <2>8, SizeAssumption
  <2>10. Cardinality(held(gs)) <= MaxFrames
    BY <1>1, <2>1, <2>4, <2>7, SizeAssumption
  <2> QED BY <2>6, <2>8, <2>9, <2>10 DEF gs, held
<1> QED BY <1>2, <1>3
-----------------------------------------------------------------------------
\* Every path through insert.
LEMMA NextPreserves == IInv /\ [Next]_vars => IInv'
<1> SUFFICES ASSUME IInv, [Next]_vars PROVE IInv'
  OBVIOUS
<1>1. ASSUME UNCHANGED frames PROVE IInv'
  BY <1>1 DEF IInv, FramesBounded, Held
<1>2. ASSUME NEW fs, Linked(fs), IsFiniteSet(DOMAIN fs), NEW f \in Frame,
             ValidReferences(f), Cardinality(DOMAIN fs) < MaxFrames,
             frames' = Stored(fs, f)
      PROVE  IInv'
  <2>1. Linked(frames')
    BY <1>2, StoredLinked
  <2>2. IsFiniteSet(DOMAIN frames') /\ FramesBounded'
    BY <1>2, StoredCount DEF FramesBounded, Held
  <2> QED BY <2>1, <2>2 DEF IInv
<1>3. ASSUME NEW f \in Frame, ClearAndStore(f) PROVE IInv'
  BY <1>2, <1>3, EmptyLinked, SizeAssumption DEF ClearAndStore
<1>4. ASSUME NEW f \in Frame, Store(f) PROVE IInv'
  <2>1. Cardinality(DOMAIN frames) < MaxFrames
    BY <1>4, FS_CardinalityType, SizeAssumption DEF Store, Full, IInv
  <2> QED BY <1>2, <1>4, <2>1 DEF Store, IInv
<1> QED BY <1>1, <1>3, <1>4 DEF Next, Insert, DropInvalid, DropWhenFull, vars

\* The buffer starts empty.
LEMMA InitEstablishes == Init => IInv
<1> SUFFICES ASSUME frames = <<>> PROVE IInv
  BY DEF Init
<1>1. Held = {}
  BY EmptyLinked DEF Held
<1> QED BY <1>1, EmptyLinked, FS_EmptySet, SizeAssumption DEF IInv, FramesBounded

\* insert keeps the bound and the links, whatever frames it is given.
THEOREM IInvHolds == Spec => []IInv
BY InitEstablishes, NextPreserves, PTL DEF Spec

\* The buffer never holds more frames than it may, nor more entries than that
\* and the references of one frame (frame_buffer.cpp:38-50).
THEOREM BufferBounded == Spec => []FramesBounded
<1>1. IInv => FramesBounded
  BY DEF IInv
<1> QED BY <1>1, IInvHolds, PTL

\* Every link back from a reference is there once, and the counts of missing
\* references are the numbers of links (frame_buffer.cpp:131-186).
THEOREM LinksAreExact == Spec => []LinksMatchReferences
<1>1. IInv => LinksMatchReferences
  <2> SUFFICES ASSUME IInv, NEW id \in DOMAIN frames
               PROVE  /\ frames[id].missing =
                           Cardinality({r \in DOMAIN frames : Contains(frames[r].dependents, id)})
                      /\ ToSet(frames[id].dependents)
                           = {d \in Held : Contains(frames[d].refs, id)}
                      /\ IsInjective(frames[id].dependents)
                      /\ frames[id].held \/ frames[id].dependents # <<>>
    BY DEF LinksMatchReferences
  <2>1. \A d \in DOMAIN frames :
          /\ frames[d].refs \in Seq(FrameIds)
          /\ frames[d].dependents \in Seq(FrameIds)
    BY SeqOfType, SizeAssumption DEF IInv, Linked, Typed, Entry
  <2>2. \A d \in DOMAIN frames :
          /\ Contains(frames[d].refs, id) <=> id \in ToSet(frames[d].refs)
          /\ Contains(frames[d].dependents, id) <=> id \in ToSet(frames[d].dependents)
    BY <2>1, ContainsIsMember
  <2>3. {r \in DOMAIN frames : Contains(frames[r].dependents, id)} = ToSet(frames[id].refs)
    BY <2>2 DEF IInv, Linked, RefsCounted, Backlinked
  <2>4. Cardinality(ToSet(frames[id].refs)) = Len(frames[id].refs)
    BY <2>1, InjectiveCardinality DEF IInv, Linked, RefsCounted
  <2>5. \A d \in DOMAIN frames : id \in ToSet(frames[d].refs) => d \in Held
    <3>1. ToSet(<<>>) = {}
      BY DEF ToSet
    <3> QED BY <3>1 DEF IInv, Linked, RefsCounted, Held
  <2>6. ToSet(frames[id].dependents) = {d \in Held : Contains(frames[d].refs, id)}
    BY <2>2, <2>5 DEF IInv, Linked, Backlinked, Held
  <2> QED BY <2>3, <2>4, <2>6 DEF IInv, Linked, RefsCounted, Backlinked
<1> QED BY <1>1, IInvHolds, PTL

\* The test for a jump in the ids never succeeds, and so a frame that is held
\* goes only when a key frame replaces the whole of a full buffer
\* (frame_buffer.cpp:38-43, 75-82).
THEOREM HeldFramesAreKept == Spec => HeldFramesStay
<1> DEFINE Stay == \/ \A id \in Held : id \in Held' /\ frames'[id].refs = frames[id].refs
                   \/ Full /\ Cardinality(Held') = 1
<1>1. IInv /\ [Next]_vars => [Stay]_vars
  <2> SUFFICES ASSUME IInv, Next PROVE Stay \/ UNCHANGED vars
    OBVIOUS
  <2>1. ASSUME NEW f \in Frame, Store(f) PROVE Stay
    <3>1. CASE AlreadyHeld(frames, f.id)
      BY <2>1, <3>1 DEF Store, Stored, Held
    <3>2. CASE ~ AlreadyHeld(frames, f.id)
      BY <2>1, <3>2, StoredAdds DEF Store, Held, IInv, Linked
    <3> QED BY <3>1, <3>2
  <2>2. ASSUME NEW f \in Frame, ClearAndStore(f) PROVE Stay
    <3>1. Full
      <4>1. ~ JumpDetected(f.id)
        BY NoJump DEF IInv, Frame
      <4> QED BY <2>2, <4>1 DEF ClearAndStore
    <3>2. ~ AlreadyHeld(<<>>, f.id) /\ Typed(<<>>)
      BY EmptyLinked DEF AlreadyHeld, EntryOf, NewEntry, Linked
    <3>3. Held' = {f.id}
      BY <2>2, <3>2, StoredAdds, EmptyLinked DEF ClearAndStore, Held
    <3>4. Cardinality(Held') = 1
      BY <3>3, FS_Singleton
    <3> QED BY <3>1, <3>4
  <2> QED BY <2>1, <2>2 DEF Next, Insert, DropInvalid, DropWhenFull, vars
<1>2. [][Stay]_vars => HeldFramesStay
  BY DEF HeldFramesStay
<1> QED BY <1>1, <1>2, IInvHolds, PTL DEF Spec
-----------------------------------------------------------------------------
\* DecodedFramesHistory.

\* Division with remainder determines both quotient and remainder.
LEMMA QuotientUnique ==
  ASSUME NEW q1 \in Int, NEW q2 \in Int, NEW r1 \in 0 .. WindowSize - 1,
         NEW r2 \in 0 .. WindowSize - 1,
         WindowSize * q1 + r1 = WindowSize * q2 + r2
  PROVE  q1 = q2 /\ r1 = r2
<1>1. WindowSize \in Nat /\ WindowSize >= 1
  BY WindowAssumption
<1>2. ASSUME NEW a \in Int, NEW b \in Int, a > b
      PROVE  WindowSize * a >= WindowSize * b + WindowSize
  <2>1. a - b - 1 \in Nat
    BY <1>2
  <2>2. WindowSize * (a - b - 1) >= 0
    BY <1>1, <2>1
  <2>3. WindowSize * (a - b - 1) = WindowSize * a - WindowSize * b - WindowSize
    BY <1>1
  <2>4. WindowSize * a \in Int /\ WindowSize * b \in Int
    BY <1>1
  <2> QED BY <1>1, <2>2, <2>3, <2>4
<1>3. WindowSize * q1 \in Int /\ WindowSize * q2 \in Int
  BY <1>1
<1>4. ~ q1 > q2
  <2> SUFFICES ASSUME q1 > q2 PROVE FALSE
    OBVIOUS
  <2>1. WindowSize * q1 >= WindowSize * q2 + WindowSize
    BY <1>2
  <2> QED BY <1>1, <1>3, <2>1
<1>5. ~ q2 > q1
  <2> SUFFICES ASSUME q2 > q1 PROVE FALSE
    OBVIOUS
  <2>1. WindowSize * q2 >= WindowSize * q1 + WindowSize
    BY <1>2
  <2> QED BY <1>1, <1>3, <2>1
<1>6. q1 = q2
  BY <1>4, <1>5
<1> QED BY <1>3, <1>6

\* FrameIdToIndex is the remainder of the id, also for a negative id.
LEMMA IndexIsRemainder ==
  ASSUME NEW id \in Int
  PROVE  /\ FrameIdToIndex(id) \in 0 .. WindowSize - 1
         /\ \E q \in Int : id = WindowSize * q + FrameIdToIndex(id)
<1>1. WindowSize \in Nat /\ WindowSize >= 1
  BY WindowAssumption
<1>2. ASSUME NEW x \in Nat
      PROVE  /\ x % WindowSize \in 0 .. WindowSize - 1
             /\ x \div WindowSize \in Int
             /\ x = WindowSize * (x \div WindowSize) + (x % WindowSize)
  BY <1>1
<1>3. CASE id >= 0
  <2>1. FrameIdToIndex(id) = id % WindowSize
    BY <1>1, <1>2, <1>3 DEF FrameIdToIndex
  <2> QED BY <1>2, <1>3, <2>1
<1>4. CASE id < 0
  <2> DEFINE m == (- id) % WindowSize
             q == (- id) \div WindowSize
  <2>1. - id \in Nat
    BY <1>4
  <2>2. m \in 0 .. WindowSize - 1 /\ q \in Int /\ - id = WindowSize * q + m
    BY <1>2, <2>1
  <2>3. FrameIdToIndex(id) = IF m = 0 THEN 0 ELSE WindowSize - m
    BY <1>1, <1>4, <2>2 DEF FrameIdToIndex
  <2> HIDE DEF m, q
  <2>4. WindowSize * (- q) = - (WindowSize * q) /\ WindowSize * q \in Int
    BY <1>1, <2>2
  <2>5. WindowSize * (- q - 1) = - (WindowSize * q) - WindowSize
    BY <1>1, <2>2
  <2>6. CASE m = 0
    <3>1. FrameIdToIndex(id) = 0
      BY <2>3, <2>6
    <3>2. id = WindowSize * (- q) + 0
      BY <2>2, <2>4, <2>6
    <3> QED BY <1>1, <2>2, <3>1, <3>2
  <2>7. CASE m > 0
    <3>1. FrameIdToIndex(id) = WindowSize - m
      BY <1>1, <2>2, <2>3, <2>7
    <3>2. id = WindowSize * (- q - 1) + (WindowSize - m)
      BY <1>1, <2>2, <2>4, <2>5
    <3> QED BY <1>1, <2>2, <2>7, <3>1, <3>2
  <2> QED BY <2>2, <2>6, <2>7
<1> QED BY <1>3, <1>4

\* Going k ids on moves the index by k, around the end of the buffer.
LEMMA IndexMoves ==
  ASSUME NEW id \in Int, NEW k \in 0 .. WindowSize - 1
  PROVE  FrameIdToIndex(id + k) =
           IF FrameIdToIndex(id) + k < WindowSize
           THEN FrameIdToIndex(id) + k
           ELSE FrameIdToIndex(id) + k - WindowSize
<1>1. WindowSize \in Nat /\ WindowSize >= 1
  BY WindowAssumption
<1> DEFINE i == FrameIdToIndex(id)
           j == FrameIdToIndex(id + k)
           r == IF i + k < WindowSize THEN i + k ELSE i + k - WindowSize
<1>2. i \in 0 .. WindowSize - 1 /\ \E q \in Int : id = WindowSize * q + i
  BY IndexIsRemainder
<1>3. id + k \in Int
  BY <1>1
<1>4. j \in 0 .. WindowSize - 1 /\ \E q \in Int : id + k = WindowSize * q + j
  BY <1>3, IndexIsRemainder
<1> HIDE DEF i, j
<1>5. PICK q1 \in Int : id = WindowSize * q1 + i
  BY <1>2
<1>6. PICK q2 \in Int : id + k = WindowSize * q2 + j
  BY <1>4
<1>7. r \in 0 .. WindowSize - 1
  BY <1>1, <1>2
<1>8. WindowSize * q1 \in Int /\ WindowSize * (q1 + 1) = WindowSize * q1 + WindowSize
  BY <1>1
<1>9. \E q \in Int : id + k = WindowSize * q + r
  <2>1. CASE i + k < WindowSize
    BY <1>1, <1>2, <1>5, <1>8, <2>1
  <2>2. CASE ~ i + k < WindowSize
    <3>1. id + k = WindowSize * (q1 + 1) + r
      BY <1>1, <1>2, <1>5, <1>8, <2>2
    <3> QED BY <3>1
  <2> QED BY <2>1, <2>2
<1>10. PICK q3 \in Int : id + k = WindowSize * q3 + r
  BY <1>9
<1> HIDE DEF r
<1>11. r = j
  BY <1>4, <1>6, <1>7, <1>10, QuotientUnique
<1> QED BY <1>11 DEF r, i, j

\* The slots cleared when id follows lastFrameId within one window are those of
\* the ids skipped between the two.
LEMMA ExpiredAreSkipped ==
  ASSUME lastFrameId \in Int, NEW id \in Int, lastFrameId < id,
         id - lastFrameId < WindowSize,
         NEW d \in Int, id - WindowSize < d, d < id
  PROVE  FrameIdToIndex(d) \in Expired(id) <=> lastFrameId < d
<1>1. WindowSize \in Nat /\ WindowSize >= 1
  BY WindowAssumption
<1>2. lastFrameId # None
  BY NoneAssumption
<1> DEFINE I(x) == FrameIdToIndex(x)
<1>3. \A x \in Int : I(x) \in 0 .. WindowSize - 1
  BY IndexIsRemainder
<1>4. ASSUME NEW x \in Int, NEW y \in Int, x <= y, y - x < WindowSize
      PROVE  I(y) = IF I(x) + (y - x) < WindowSize THEN I(x) + (y - x)
                    ELSE I(x) + (y - x) - WindowSize
  <2>1. y - x \in 0 .. WindowSize - 1 /\ x + (y - x) = y
    BY <1>1, <1>4
  <2> QED BY <2>1, IndexMoves
<1>5. Expired(id) = IF I(id) > I(lastFrameId) THEN I(lastFrameId) + 1 .. I(id) - 1
                    ELSE (I(lastFrameId) + 1 .. WindowSize - 1) \cup (0 .. I(id) - 1)
  BY <1>1, <1>2 DEF Expired
<1> HIDE DEF I
<1>6. /\ I(d) \in 0 .. WindowSize - 1
      /\ I(id) \in 0 .. WindowSize - 1
      /\ I(lastFrameId) \in 0 .. WindowSize - 1
  BY <1>3
<1>7. I(d) \in Expired(id) <=>
         IF I(id) > I(lastFrameId) THEN I(lastFrameId) < I(d) /\ I(d) < I(id)
         ELSE I(lastFrameId) < I(d) \/ I(d) < I(id)
  BY <1>1, <1>5, <1>6
<1>8. I(id) = IF I(lastFrameId) + (id - lastFrameId) < WindowSize
              THEN I(lastFrameId) + (id - lastFrameId)
              ELSE I(lastFrameId) + (id - lastFrameId) - WindowSize
  BY <1>4
<1>9. CASE lastFrameId < d
  <2>1. I(d) = IF I(lastFrameId) + (d - lastFrameId) < WindowSize
               THEN I(lastFrameId) + (d - lastFrameId)
               ELSE I(lastFrameId) + (d - lastFrameId) - WindowSize
    BY <1>1, <1>4, <1>9
  <2>2. I(d) \in Expired(id)
    BY <1>1, <1>8, <1>9, <1>6, <1>7, <2>1
  <2> QED BY <1>9, <2>2 DEF I
<1>10. CASE d <= lastFrameId
  <2>1. I(lastFrameId) = IF I(d) + (lastFrameId - d) < WindowSize
                         THEN I(d) + (lastFrameId - d)
                         ELSE I(d) + (lastFrameId - d) - WindowSize
    BY <1>1, <1>4, <1>10
  <2>2. I(d) \notin Expired(id)
    BY <1>1, <1>8, <1>10, <1>6, <1>7, <2>1
  <2> QED BY <1>10, <2>2 DEF I
<1> QED BY <1>9, <1>10

\* Ids less than one window apart have different slots.
LEMMA SlotsDiffer ==
  ASSUME NEW d \in Int, NEW id \in Int, id - WindowSize < d, d < id
  PROVE  FrameIdToIndex(d) # FrameIdToIndex(id)
<1>1. WindowSize \in Nat /\ WindowSize >= 1
  BY WindowAssumption
<1>2. id - d \in 0 .. WindowSize - 1 /\ d + (id - d) = id
  BY <1>1
<1>3. FrameIdToIndex(d) \in 0 .. WindowSize - 1
  BY IndexIsRemainder
<1>4. FrameIdToIndex(id) = IF FrameIdToIndex(d) + (id - d) < WindowSize
                          THEN FrameIdToIndex(d) + (id - d)
                          ELSE FrameIdToIndex(d) + (id - d) - WindowSize
  BY <1>2, IndexMoves
<1> QED BY <1>1, <1>3, <1>4
-----------------------------------------------------------------------------
\* The inductive invariant: types, and no flag is left over while nothing has
\* been inserted.
HistoryInv ==
  /\ buffer \in [0 .. WindowSize - 1 -> BOOLEAN]
  /\ lastFrameId \in FrameIds \cup {None}
  /\ lastDecoded \in FrameIds \cup {None}
  /\ failure \in {"none", "assert"}
  /\ lastFrameId = None => buffer = Cleared

\* Every step of the history keeps the inductive invariant.
LEMMA HistoryInvHolds == HistorySpec => []HistoryInv
<1>1. HistoryInit => HistoryInv
  BY DEF HistoryInit, HistoryInv, Cleared
<1>2. HistoryInv /\ [HistoryNext]_historyVars => HistoryInv'
  <2> SUFFICES ASSUME HistoryInv, [HistoryNext]_historyVars PROVE HistoryInv'
    OBVIOUS
  <2> USE DEF HistoryInv
  <2>1. CASE Clear
    BY <2>1 DEF Clear, Cleared
  <2>2. ASSUME NEW id \in FrameIds, InsertDecoded(id) PROVE HistoryInv'
    <3>1. id # None
      BY FrameIdsAssumption, NoneAssumption
    <3>2. buffer' \in [0 .. WindowSize - 1 -> BOOLEAN]
      BY <2>2 DEF InsertDecoded
    <3> QED BY <2>2, <3>1, <3>2 DEF InsertDecoded
  <2>3. ASSUME NEW id \in FrameIds, InsertDecodedAgain(id) PROVE HistoryInv'
    BY <2>3 DEF InsertDecodedAgain
  <2>4. CASE UNCHANGED historyVars
    BY <2>4 DEF historyVars
  <2> QED BY <2>1, <2>2, <2>3, <2>4 DEF HistoryNext
<1> QED BY <1>1, <1>2, PTL DEF HistorySpec

\* The types of TypeOK hold in every reachable state.
THEOREM TypeCorrect == HistorySpec => []TypeOK
<1>1. HistoryInv => TypeOK
  BY FrameIdsAssumption, NoneAssumption DEF HistoryInv, TypeOK
<1> QED BY <1>1, HistoryInvHolds, PTL

\* An insertion changes the answers of WasDecoded as the window changes.
LEMMA InsertSlidesWindow ==
  ASSUME HistoryInv, NEW id \in FrameIds, InsertDecoded(id), NEW d \in FrameIds
  PROVE  WasDecoded(d)' <=> (WasDecoded(d) \/ d = id) /\ d > id - WindowSize
<1>1. WindowSize \in Nat /\ WindowSize >= 1 /\ id \in Int /\ d \in Int /\ id # None
  BY WindowAssumption, FrameIdsAssumption, NoneAssumption
<1>2. FrameIdToIndex(d) \in 0 .. WindowSize - 1
  BY <1>1, IndexIsRemainder
<1>3. WasDecoded(d)' <=>
        /\ id - WindowSize < d /\ d <= id
        /\ \/ FrameIdToIndex(d) = FrameIdToIndex(id)
           \/ buffer[FrameIdToIndex(d)] /\ FrameIdToIndex(d) \notin Expired(id)
  BY <1>1, <1>2 DEF InsertDecoded, WasDecoded
<1>4. CASE d = id
  BY <1>1, <1>3, <1>4
<1>5. CASE ~ (id - WindowSize < d /\ d <= id)
  <2>1. WasDecoded(d) => d <= id
    BY <1>1 DEF InsertDecoded, WasDecoded, HistoryInv
  <2> QED BY <1>1, <1>3, <1>5, <2>1
<1>6. CASE id - WindowSize < d /\ d < id
  <2>1. FrameIdToIndex(d) # FrameIdToIndex(id)
    BY <1>1, <1>6, SlotsDiffer
  <2>2. CASE lastFrameId = None
    BY <1>1, <1>2, <1>3, <1>6, <2>1, <2>2 DEF HistoryInv, WasDecoded, Cleared
  <2>3. CASE lastFrameId # None /\ id - lastFrameId >= WindowSize
    <3>1. lastFrameId \in Int
      BY <2>3, FrameIdsAssumption, NoneAssumption DEF HistoryInv
    <3>2. FrameIdToIndex(d) \in Expired(id)
      BY <1>2, <2>3 DEF Expired
    <3>3. ~ WasDecoded(d)
      BY <1>1, <1>6, <2>3, <3>1 DEF WasDecoded
    <3> QED BY <1>1, <1>3, <1>6, <2>1, <3>2, <3>3
  <2>4. CASE lastFrameId # None /\ id - lastFrameId < WindowSize
    <3>1. lastFrameId \in Int /\ lastFrameId < id
      BY <2>4, FrameIdsAssumption, NoneAssumption DEF HistoryInv, InsertDecoded
    <3>2. FrameIdToIndex(d) \in Expired(id) <=> lastFrameId < d
      BY <1>1, <1>6, <2>4, <3>1, ExpiredAreSkipped
    <3>3. WasDecoded(d) <=> d <= lastFrameId /\ buffer[FrameIdToIndex(d)]
      BY <1>1, <1>6, <2>4, <3>1 DEF WasDecoded
    <3> QED BY <1>1, <1>3, <1>6, <2>1, <3>1, <3>2, <3>3
  <2>5. lastFrameId # None => lastFrameId \in Int
    BY FrameIdsAssumption, NoneAssumption DEF HistoryInv
  <2> QED BY <1>1, <2>2, <2>3, <2>4, <2>5
<1> QED BY <1>1, <1>4, <1>5, <1>6

\* The cyclic buffer is a sliding window: every step of the history is a step
\* of DecodedWindow, or leaves the answers of WasDecoded as they are.
THEOREM Refinement == HistorySpec => ImplementsWindow
<1> DEFINE answers == {id \in FrameIds : WasDecoded(id)}
<1>1. HistoryInit => Window!Init
  BY DEF HistoryInit, Window!Init, WasDecoded
<1>2. HistoryInv /\ [HistoryNext]_historyVars => [Window!Next]_<<lastFrameId, answers>>
  <2> SUFFICES ASSUME HistoryInv, [HistoryNext]_historyVars
               PROVE  [Window!Next]_<<lastFrameId, answers>>
    OBVIOUS
  <2>1. CASE Clear
    <3>1. lastFrameId' = None /\ answers' = {}
      BY <2>1 DEF Clear, WasDecoded
    <3> QED BY <3>1 DEF Window!Next, Window!Forget
  <2>2. ASSUME NEW id \in FrameIds, InsertDecoded(id) PROVE Window!Next
    <3>1. lastFrameId' = id /\ (lastFrameId = None \/ lastFrameId < id)
      BY <2>2 DEF InsertDecoded
    <3>2. answers' = {d \in FrameIds : WasDecoded(d)'}
      OBVIOUS
    <3>3. answers' = {d \in answers \cup {id} : d > id - WindowSize}
      BY <2>2, <3>2, InsertSlidesWindow
    <3> QED BY <3>1, <3>3 DEF Window!Next, Window!Decode
  <2>3. ASSUME NEW id \in FrameIds, InsertDecodedAgain(id)
        PROVE  UNCHANGED <<lastFrameId, answers>>
    BY <2>3 DEF InsertDecodedAgain, WasDecoded
  <2>4. CASE UNCHANGED historyVars
    BY <2>4 DEF historyVars, WasDecoded
  <2> QED BY <2>1, <2>2, <2>3, <2>4 DEF HistoryNext
<1> QED BY <1>1, <1>2, HistoryInvHolds, PTL DEF HistorySpec, ImplementsWindow, Window!Spec
=============================================================================
