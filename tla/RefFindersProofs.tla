-------------------------- MODULE RefFindersProofs --------------------------
(***************************************************************************)
(* What becomes of a frame in the reference finders.  StashedFramesProofs  *)
(* proves about the stash that three of them keep what holds whatever they *)
(* decide, if their decision hands off the frame it is about and no other  *)
(* and leaves the stash alone; here, that their decisions do so, and from  *)
(* that: every frame is accounted for (FramesStayAccountedFor), and what   *)
(* has been cleared is not handed off (ClearedFramesStayOut).              *)
(***************************************************************************)
EXTENDS RefFinders, TLAPS

SeqNumStash == INSTANCE StashedFramesProofs WITH Decide <- SeqNumOnly!Decide
Vp8Stash    == INSTANCE StashedFramesProofs WITH Decide <- Vp8!Decide
Vp9Stash    == INSTANCE StashedFramesProofs WITH Decide <- Vp9!Decide

\* The finders' operations, as the proofs about the stash know them.
LEMMA SeqNumStashManages ==
  ASSUME NEW st, NEW f
  PROVE  SeqNumOnly!ManageFrame(st, f) = SeqNumStash!Managed(st, f)
  BY Zenon DEF SeqNumOnly!ManageFrame, SeqNumStash!Managed, SeqNumOnly!RetryStashedFrames,
     SeqNumOnly!Stash!RetryStashedFrames, SeqNumStash!RetryStashedFrames,
     SeqNumOnly!Stash!Repeat, SeqNumStash!Repeat,
     SeqNumOnly!Stash!RetryPass, SeqNumStash!RetryPass, SeqNumOnly!Stash!Retry,
     SeqNumStash!Retry, SeqNumOnly!Stash!Dropped, SeqNumStash!Dropped,
     SeqNumOnly!Stash!Stashed, SeqNumStash!Stashed, SeqNumOnly!Stash!StashFull,
     SeqNumStash!StashFull,
     SeqNumOnly!Stash!Front, SeqNumStash!Front, SeqNumOnly!Stash!Last, SeqNumStash!Last

\* The VP8 finder manages a frame in the same way.
LEMMA Vp8StashManages ==
  ASSUME NEW st, NEW f
  PROVE  Vp8!ManageFrame(st, f) = Vp8Stash!Managed(st, f)
  BY Zenon DEF Vp8!ManageFrame, Vp8Stash!Managed, Vp8!RetryStashedFrames,
     Vp8!Stash!RetryStashedFrames, Vp8Stash!RetryStashedFrames, Vp8!Stash!Repeat, Vp8Stash!Repeat,
     Vp8!Stash!RetryPass, Vp8Stash!RetryPass, Vp8!Stash!Retry, Vp8Stash!Retry, Vp8!Stash!Dropped,
     Vp8Stash!Dropped,
     Vp8!Stash!Stashed, Vp8Stash!Stashed, Vp8!Stash!StashFull, Vp8Stash!StashFull,
     Vp8!Stash!Front, Vp8Stash!Front, Vp8!Stash!Last, Vp8Stash!Last

\* So does the VP9 finder.
LEMMA Vp9StashManages ==
  ASSUME NEW st, NEW f
  PROVE  Vp9!ManageFrame(st, f) = Vp9Stash!Managed(st, f)
  BY Zenon DEF Vp9!ManageFrame, Vp9Stash!Managed, Vp9!RetryStashedFrames,
     Vp9!Stash!RetryStashedFrames, Vp9Stash!RetryStashedFrames, Vp9!Stash!Repeat, Vp9Stash!Repeat,
     Vp9!Stash!RetryPass, Vp9Stash!RetryPass, Vp9!Stash!Retry, Vp9Stash!Retry, Vp9!Stash!Dropped,
     Vp9Stash!Dropped,
     Vp9!Stash!Stashed, Vp9Stash!Stashed, Vp9!Stash!StashFull, Vp9Stash!StashFull,
     Vp9!Stash!Front, Vp9Stash!Front, Vp9!Stash!Last, Vp9Stash!Last

\* So do their ClearTo.
LEMMA SeqNumStashClears ==
  ASSUME NEW st, NEW seq, NEW S, SeqNumStash!Accounts(st, S)
  PROVE  SeqNumStash!Accounts(SeqNumOnly!ClearTo(st, seq), S)
<1> DEFINE old == {f \in SeqNumStash!Range(st.stash) : SeqNumOnly!AheadOf(seq, SeqNumOnly!FirstSeq(f))}
<1>1. SeqNumOnly!ClearTo(st, seq) = SeqNumStash!Cleared(st, old)
  BY Zenon DEF SeqNumOnly!ClearTo, SeqNumOnly!Stash!Cleared, SeqNumStash!Cleared,
     SeqNumOnly!Stash!Without, SeqNumStash!Without,
     SeqNumOnly!Range, SeqNumStash!Range

<1>2. old \in SUBSET SeqNumStash!Range(st.stash)
  OBVIOUS
<1> HIDE DEF old
<1> QED BY <1>1, <1>2, SeqNumStash!ClearedKeepsBooks

\* ClearTo of the VP8 finder.
LEMMA Vp8StashClears ==
  ASSUME NEW st, NEW seq, NEW S, Vp8Stash!Accounts(st, S)
  PROVE  Vp8Stash!Accounts(Vp8!ClearTo(st, seq), S)
<1> DEFINE old == {f \in Vp8Stash!Range(st.stash) : Vp8!SN!AheadOf(seq, Vp8!FirstSeq(f))}
<1>1. Vp8!ClearTo(st, seq) = Vp8Stash!Cleared(st, old)
  BY Zenon DEF Vp8!ClearTo, Vp8!Stash!Cleared, Vp8Stash!Cleared, Vp8!Stash!Without,
     Vp8Stash!Without,
     Vp8!Range, Vp8Stash!Range

<1>2. old \in SUBSET Vp8Stash!Range(st.stash)
  OBVIOUS
<1> HIDE DEF old
<1> QED BY <1>1, <1>2, Vp8Stash!ClearedKeepsBooks

\* ClearTo of the VP9 finder.
LEMMA Vp9StashClears ==
  ASSUME NEW st, NEW seq, NEW S, Vp9Stash!Accounts(st, S)
  PROVE  Vp9Stash!Accounts(Vp9!ClearTo(st, seq), S)
<1> DEFINE old == {f \in Vp9Stash!Range(st.stash) : Vp9!SN!AheadOf(seq, Vp9!FirstSeq(f))}
<1>1. Vp9!ClearTo(st, seq) = Vp9Stash!Cleared(st, old)
  BY Zenon DEF Vp9!ClearTo, Vp9!Stash!Cleared, Vp9Stash!Cleared, Vp9!Stash!Without,
     Vp9Stash!Without,
     Vp9!Range, Vp9Stash!Range

<1>2. old \in SUBSET Vp9Stash!Range(st.stash)
  OBVIOUS
<1> HIDE DEF old
<1> QED BY <1>1, <1>2, Vp9Stash!ClearedKeepsBooks

\* UpdateLastPictureIdWithPadding does nothing to the books.
LEMMA AdvanceKeepsBooks ==
  ASSUME NEW st, NEW seq, SeqNumStash!Fields \subseteq DOMAIN st
  PROVE  SeqNumStash!SameBooks(SeqNumOnly!AdvanceOverPadding(st, seq), st)
  BY DEF SeqNumOnly!AdvanceOverPadding, SeqNumStash!Fields, SeqNumStash!SameBooks

\* The finder for sequence numbers hands off the frame it decides about.
LEMMA SeqNumKeepsBooks ==
  ASSUME NEW F
  PROVE  SeqNumStash!Bookkeeping(F)
<1> SUFFICES ASSUME NEW st, NEW f \in F, SeqNumStash!Fields \subseteq DOMAIN st
             PROVE  SeqNumStash!KeepsBooks(SeqNumOnly!Decide(st, f), st, f)
  BY DEF SeqNumStash!Bookkeeping
<1> DEFINE r == SeqNumOnly!Decide(st, f)
           seq == SeqNumOnly!LastSeq(f)
           Judged == \E clean : r \in {<<"drop", [st EXCEPT !.gops = clean]>>,
                                       <<"stash", [st EXCEPT !.gops = clean]>>}
           HandedOff ==
             \E moved, id, frame :
               /\ frame.frame = f
               /\ r = <<"handoff", [SeqNumOnly!AdvanceOverPadding([st EXCEPT !.gops = moved], seq)
                                      EXCEPT !.unwrapper = id, !.handed = Append(@, frame)]>>
<1>1. r = <<"stash", st>> \/ Judged \/ HandedOff
  BY DEF SeqNumOnly!Decide
<1> HIDE DEF r
<1> SUFFICES SeqNumStash!KeepsBooks(r, st, f)
  BY DEF r
<1>2. CASE r = <<"stash", st>>
  BY <1>2, SeqNumStash!JudgedKeepsBooks DEF SeqNumStash!SameBooks
<1>3. CASE Judged
  <2>1. PICK clean : r \in {<<"drop", [st EXCEPT !.gops = clean]>>,
                            <<"stash", [st EXCEPT !.gops = clean]>>}
    BY <1>3
  <2> DEFINE new == [st EXCEPT !.gops = clean]
  <2>2. SeqNumStash!SameBooks(new, st)
    BY DEF SeqNumStash!Fields, SeqNumStash!SameBooks
  <2>3. r \in {<<"drop", new>>, <<"stash", new>>}
    BY <2>1
  <2> HIDE DEF new
  <2> QED BY <2>2, <2>3, SeqNumStash!JudgedKeepsBooks
<1>4. CASE HandedOff
  <2>1. PICK moved, id, frame :
          /\ frame.frame = f
          /\ r = <<"handoff", [SeqNumOnly!AdvanceOverPadding([st EXCEPT !.gops = moved], seq)
                                 EXCEPT !.unwrapper = id, !.handed = Append(@, frame)]>>
    BY <1>4
  <2> DEFINE one == [st EXCEPT !.gops = moved]
             two == SeqNumOnly!AdvanceOverPadding(one, seq)
             new == [two EXCEPT !.unwrapper = id, !.handed = Append(@, frame)]
  <2>2. SeqNumStash!SameBooks(one, st)
    BY DEF SeqNumStash!Fields, SeqNumStash!SameBooks
  <2>3. SeqNumStash!SameBooks(two, st)
    <3> HIDE DEF one
    <3> QED BY <2>2, AdvanceKeepsBooks DEF SeqNumStash!SameBooks
  <2>4. /\ SeqNumStash!Fields \subseteq DOMAIN new /\ new.stash = st.stash
        /\ new.handed = Append(st.handed, frame) /\ new.dropped = st.dropped
    <3> HIDE DEF two
    <3> QED BY <2>3 DEF SeqNumStash!Fields, SeqNumStash!SameBooks
  <2>5. r = <<"handoff", new>>
    BY <2>1
  <2> HIDE DEF new
  <2>6. r[1] = "handoff" /\ r[2] = new
    BY <2>5
  <2> QED BY <2>1, <2>4, <2>6 DEF SeqNumStash!KeepsBooks
<1> HIDE DEF Judged, HandedOff
<1> QED BY <1>1, <1>2, <1>3, <1>4

-----------------------------------------------------------------------------
\* The VP8 finder: what is handed off is the frame it was called with.
LEMMA Vp8HandsOffTheFrame ==
  ASSUME NEW st, Vp8Stash!Fields \subseteq DOMAIN st, NEW f, NEW refs
  PROVE  Vp8Stash!KeepsBooks(Vp8!HandedOff(st, f, refs), st, f)
<1> DEFINE id     == Vp8!PicId(f)
           us     == Tail(Vp8!UnwrapAll(st.unwrapper, Append(refs, id)))
           frame  == [frame |-> f, id |-> Vp8!Last(us).unwrapped,
                      refs |-> {u.unwrapped : u \in Vp8!Range(Vp8!Front(us))}]
           layers == Vp8!UpdatedLayers(st.layers, st.tl0.unwrapped, f.temporal, id)
           notYet == st.notYet \ {id}
           last   == Vp8!Last(us)
           new    == [st EXCEPT !.layers = layers, !.notYet = notYet, !.unwrapper = last,
                                !.handed = Append(@, frame)]
           r      == Vp8!HandedOff(st, f, refs)
<1>1. r = <<"handoff", new>>
  BY Zenon DEF Vp8!HandedOff
<1>2. frame.frame = f
  OBVIOUS
<1> HIDE DEF layers, notYet, last, frame, r
<1>3. /\ Vp8Stash!Fields \subseteq DOMAIN new /\ new.stash = st.stash
      /\ new.handed = Append(st.handed, frame) /\ new.dropped = st.dropped
  BY DEF Vp8Stash!Fields
<1>4. r[1] = "handoff" /\ r[2] = new
  <2> HIDE DEF new
  <2> QED BY <1>1
<1> HIDE DEF new
<1>5. Vp8Stash!KeepsBooks(r, st, f)
  BY <1>2, <1>3, <1>4 DEF Vp8Stash!KeepsBooks
<1> QED BY <1>5 DEF r

\* The kinds of frames.
LEMMA Vp8KeyKeepsBooks ==
  ASSUME NEW st, Vp8Stash!Fields \subseteq DOMAIN st, NEW f
  PROVE  Vp8Stash!KeepsBooks(Vp8!DecideKey(st, f), st, f)
<1> DEFINE group  == st.tl0.unwrapped :> [t \in Vp8!Layers |-> Vp8!NoPid]
           layers == group @@ st.layers
           joined == [st EXCEPT !.layers = layers]
<1>1. Vp8!DecideKey(st, f) = IF f.temporal # 0 THEN <<"drop", st>>
                             ELSE Vp8!HandedOff(joined, f, <<>>)
  BY Zenon DEF Vp8!DecideKey
<1> HIDE DEF layers
<1>2. Vp8Stash!SameBooks(joined, st) /\ Vp8Stash!SameBooks(st, st)
  BY DEF Vp8Stash!SameBooks, Vp8Stash!Fields
<1> HIDE DEF joined
<1>3. CASE f.temporal # 0
  BY <1>1, <1>2, <1>3, Vp8Stash!JudgedKeepsBooks
<1>4. CASE f.temporal = 0
  <2>1. Vp8Stash!KeepsBooks(Vp8!HandedOff(joined, f, <<>>), joined, f)
    BY <1>2, Vp8HandsOffTheFrame DEF Vp8Stash!SameBooks
  <2> QED BY <1>1, <1>2, <1>4, <2>1, Vp8Stash!StillKeepsBooks
<1> QED BY <1>3, <1>4

\* A frame of the base layer, stashed while something before it is missing.
LEMMA Vp8BaseKeepsBooks ==
  ASSUME NEW st, Vp8Stash!Fields \subseteq DOMAIN st, NEW f
  PROVE  Vp8Stash!KeepsBooks(Vp8!DecideBase(st, f), st, f)
<1> DEFINE tl0    == st.tl0.unwrapped
           layers == st.layers @@ (tl0 :> st.layers[tl0 - 1])
           joined == [st EXCEPT !.layers = layers]
           last   == joined.layers[tl0][0]
           r      == Vp8!DecideBase(st, f)
<1>1. \/ r = <<"stash", st>>
      \/ r = <<"drop", joined>>
      \/ r = Vp8!HandedOff(joined, f, <<last>>)
  BY Zenon DEF Vp8!DecideBase
<1> HIDE DEF layers, last, r
<1>2. Vp8Stash!SameBooks(joined, st) /\ Vp8Stash!SameBooks(st, st)
  BY DEF Vp8Stash!SameBooks, Vp8Stash!Fields
<1> HIDE DEF joined
<1>3. Vp8Stash!KeepsBooks(Vp8!HandedOff(joined, f, <<last>>), joined, f)
  BY <1>2, Vp8HandsOffTheFrame DEF Vp8Stash!SameBooks
<1>4. Vp8Stash!KeepsBooks(r, st, f)
  BY <1>1, <1>2, <1>3, Vp8Stash!JudgedKeepsBooks, Vp8Stash!StillKeepsBooks
<1> QED BY <1>4 DEF r

\* A layer sync frame, which needs the base layer only.
LEMMA Vp8SyncKeepsBooks ==
  ASSUME NEW st, Vp8Stash!Fields \subseteq DOMAIN st, NEW f
  PROVE  Vp8Stash!KeepsBooks(Vp8!DecideSync(st, f), st, f)
<1> DEFINE layer == st.layers[st.tl0.unwrapped]
           r     == Vp8!DecideSync(st, f)
<1>1. \/ r = <<"stash", st>>
      \/ r = <<"drop", st>>
      \/ r = Vp8!HandedOff(st, f, <<layer[0]>>)
  BY Zenon DEF Vp8!DecideSync
<1> HIDE DEF layer, r
<1>2. Vp8Stash!KeepsBooks(Vp8!HandedOff(st, f, <<layer[0]>>), st, f)
  BY Vp8HandsOffTheFrame
<1>3. Vp8Stash!KeepsBooks(r, st, f)
  BY <1>1, <1>2, Vp8Stash!JudgedKeepsBooks DEF Vp8Stash!SameBooks
<1> QED BY <1>3 DEF r

\* The layer that stands in the way of another frame exists, so the frame is
\* stashed or dropped for it and not lost.
LEMMA Vp8DeltaKeepsBooks ==
  ASSUME NEW st, Vp8Stash!Fields \subseteq DOMAIN st, NEW f, f.temporal \in Nat
  PROVE  Vp8Stash!KeepsBooks(Vp8!DecideDelta(st, f), st, f)
<1> DEFINE layer == st.layers[st.tl0.unwrapped]
           id    == Vp8!PicId(f)
           verdict(t) ==
             IF layer[t] = Vp8!NoPid THEN "stash"
             ELSE IF Vp8!Pid!AheadOf(layer[t], id) THEN "drop"
             ELSE IF Vp8!MissingBetween(st, layer[t], id) THEN "stash"
             ELSE IF layer[t] = id THEN "drop"
             ELSE "none"
           against == {t \in 0 .. f.temporal : verdict(t) # "none"}
           first   == Vp8!Min(against)
           refs    == [k \in 1 .. f.temporal + 1 |-> layer[k - 1]]
           r       == Vp8!DecideDelta(st, f)
<1>1. \/ r = <<"stash", st>>
      \/ against # {} /\ r = <<verdict(first), st>>
      \/ r = Vp8!HandedOff(st, f, refs)
  BY Zenon DEF Vp8!DecideDelta
<1>2. against # {} => first \in against
  <2> SUFFICES ASSUME against # {} PROVE first \in against
    OBVIOUS
  <2>1. against \in SUBSET Nat
    OBVIOUS
  <2> HIDE DEF against
  <2>2. \E n \in against : \A m \in against : n <= m
    BY <2>1, Vp8Stash!Smallest
  <2> QED BY <2>2 DEF Vp8!Min
<1>3. \A t : verdict(t) \in {"stash", "drop", "none"}
  OBVIOUS
<1> HIDE DEF verdict
<1>4. against # {} => verdict(first) \in {"stash", "drop"}
  BY <1>2, <1>3
<1> HIDE DEF against, first, refs, r
<1>5. Vp8Stash!KeepsBooks(Vp8!HandedOff(st, f, refs), st, f)
  BY Vp8HandsOffTheFrame
<1>6. Vp8Stash!SameBooks(st, st)
  BY DEF Vp8Stash!SameBooks
<1>7. Vp8Stash!KeepsBooks(r, st, f)
  BY <1>1, <1>4, <1>5, <1>6, Vp8Stash!JudgedKeepsBooks
<1> QED BY <1>7 DEF r

\* ManageFrameInternal of the VP8 finder: what it notes down first, of gaps and of
\* layers, changes nothing in the books.
LEMMA Vp8KeepsBooks ==
  ASSUME NEW F, \A f \in F : f.temporal \in Nat
  PROVE  Vp8Stash!Bookkeeping(F)
<1> SUFFICES ASSUME NEW st, NEW f \in F, Vp8Stash!Fields \subseteq DOMAIN st
             PROVE  Vp8Stash!KeepsBooks(Vp8!Decide(st, f), st, f)
  BY DEF Vp8Stash!Bookkeeping
<1> DEFINE noted == Vp8!NotedGap(st, Vp8!PicId(f))
           known == Vp8!Grouped(noted, f)
           r     == Vp8!Decide(st, f)
<1>1. \/ r = <<"drop", st>>
      \/ r \in {Vp8!DecideKey(known, f), Vp8!DecideBase(known, f),
                Vp8!DecideSync(known, f), Vp8!DecideDelta(known, f)}
  BY DEF Vp8!Decide
<1>2. Vp8Stash!SameBooks(st, st)
  BY DEF Vp8Stash!SameBooks
<1>3. Vp8Stash!SameBooks(noted, st)
  BY DEF Vp8Stash!SameBooks, Vp8Stash!Fields, Vp8!NotedGap
<1>4. Vp8Stash!SameBooks(known, st)
  <2> HIDE DEF noted
  <2> QED BY <1>3 DEF Vp8Stash!SameBooks, Vp8Stash!Fields, Vp8!Grouped
<1> HIDE DEF known, r
<1>5. Vp8Stash!Fields \subseteq DOMAIN known
  BY <1>4 DEF Vp8Stash!SameBooks
<1>6. r = <<"drop", st>> \/ Vp8Stash!KeepsBooks(r, known, f)
  BY <1>1, <1>5, Vp8KeyKeepsBooks, Vp8BaseKeepsBooks, Vp8SyncKeepsBooks, Vp8DeltaKeepsBooks
<1>7. Vp8Stash!KeepsBooks(r, st, f)
  BY <1>2, <1>4, <1>6, Vp8Stash!JudgedKeepsBooks, Vp8Stash!StillKeepsBooks
<1> QED BY <1>7 DEF r

-----------------------------------------------------------------------------
\* The VP9 finder: what is handed off is the frame it was called with.
LEMMA Vp9HandsOffTheFrame ==
  ASSUME NEW st, Vp9Stash!Fields \subseteq DOMAIN st, NEW f, NEW refs
  PROVE  Vp9Stash!KeepsBooks(Vp9!HandedOff(st, f, refs), st, f)
<1> DEFINE us      == Tail(Vp9!UnwrapAll(st.unwrapper, Append(refs, Vp9!PicId(f))))
           flat(u) == u.unwrapped * MaxSpatialLayers + f.spatial
           id      == flat(Vp9!Last(us))
           below   == IF f.interLayer /\ Len(refs) + 1 <= MaxReferences THEN {id - 1} ELSE {}
           frame   == [frame |-> f, id |-> id,
                       refs |-> {flat(u) : u \in Vp9!Range(Vp9!Front(us))} \cup below]
           last    == Vp9!Last(us)
           new     == [st EXCEPT !.unwrapper = last, !.handed = Append(@, frame)]
           r       == Vp9!HandedOff(st, f, refs)
<1>1. r = <<"handoff", new>>
  BY Zenon DEF Vp9!HandedOff
<1>2. frame.frame = f
  OBVIOUS
<1> HIDE DEF last, frame, r
<1>3. /\ Vp9Stash!Fields \subseteq DOMAIN new /\ new.stash = st.stash
      /\ new.handed = Append(st.handed, frame) /\ new.dropped = st.dropped
  BY DEF Vp9Stash!Fields
<1> HIDE DEF new
<1>4. r[1] = "handoff" /\ r[2] = new
  BY <1>1
<1>5. Vp9Stash!KeepsBooks(r, st, f)
  BY <1>2, <1>3, <1>4 DEF Vp9Stash!KeepsBooks
<1> QED BY <1>5 DEF r

\* FrameReceivedVp9 changes what is known of the group only.
LEMMA Vp9ReceivedKeepsBooks ==
  ASSUME NEW st, Vp9Stash!Fields \subseteq DOMAIN st, NEW id, NEW tl0
  PROVE  Vp9Stash!SameBooks(Vp9!FrameReceived(st, id, tl0), st)
<1> DEFINE last == st.gofs[tl0].last
           new  == Vp9!FrameReceived(st, id, tl0)
<1>1. \E noted, own, newLast, newOwn :
        new \in {st, [st EXCEPT !.missing = noted, !.gofs[tl0].last = newLast],
                 [st EXCEPT !.missing[own] = newOwn]}
  BY DEF Vp9!FrameReceived
<1> HIDE DEF new
<1>2. PICK noted, own, newLast, newOwn :
        new \in {st, [st EXCEPT !.missing = noted, !.gofs[tl0].last = newLast],
                 [st EXCEPT !.missing[own] = newOwn]}
  BY <1>1
<1>3. Vp9Stash!SameBooks(new, st)
  BY <1>2 DEF Vp9Stash!SameBooks, Vp9Stash!Fields
<1> QED BY <1>3 DEF new

\* What two steps leave alone one after the other, both do together.
LEMMA Vp9SameBooksIsTransitive ==
  ASSUME NEW a, NEW b, NEW c, Vp9Stash!SameBooks(b, a), Vp9Stash!SameBooks(c, b)
  PROVE  Vp9Stash!SameBooks(c, a)
BY DEF Vp9Stash!SameBooks

\* The kinds of frames.
LEMMA Vp9FlexibleKeepsBooks ==
  ASSUME NEW st, Vp9Stash!Fields \subseteq DOMAIN st, NEW f
  PROVE  Vp9Stash!KeepsBooks(Vp9!DecideFlexible(st, f), st, f)
<1> DEFINE refs == [i \in DOMAIN f.diffs |-> Vp9!Pid!Minus(Vp9!PicId(f), f.diffs[i])]
           r    == Vp9!DecideFlexible(st, f)
<1>1. r = <<"drop", st>> \/ r = Vp9!HandedOff(st, f, refs)
  BY Zenon DEF Vp9!DecideFlexible
<1> HIDE DEF refs, r
<1>2. Vp9Stash!KeepsBooks(Vp9!HandedOff(st, f, refs), st, f)
  BY Vp9HandsOffTheFrame
<1>3. Vp9Stash!KeepsBooks(r, st, f)
  BY <1>1, <1>2, Vp9Stash!JudgedKeepsBooks DEF Vp9Stash!SameBooks
<1> QED BY <1>3 DEF r

\* A keyframe is always handed off.
LEMMA Vp9KeyKeepsBooks ==
  ASSUME NEW st, Vp9Stash!Fields \subseteq DOMAIN st, NEW f
  PROVE  Vp9Stash!KeepsBooks(Vp9!DecideKey(st, f), st, f)
<1> DEFINE new == Vp9!FrameReceived(st, Vp9!PicId(f), st.tl0.unwrapped)
<1>1. Vp9!DecideKey(st, f) = Vp9!HandedOff(new, f, <<>>)
  BY DEF Vp9!DecideKey
<1>2. Vp9Stash!SameBooks(new, st)
  BY Vp9ReceivedKeepsBooks
<1> HIDE DEF new
<1>3. Vp9Stash!KeepsBooks(Vp9!HandedOff(new, f, <<>>), new, f)
  BY <1>2, Vp9HandsOffTheFrame DEF Vp9Stash!SameBooks
<1> QED BY <1>1, <1>2, <1>3, Vp9Stash!StillKeepsBooks

\* A frame whose references the structure of its group names.
LEMMA Vp9StructureKeepsBooks ==
  ASSUME NEW st, Vp9Stash!Fields \subseteq DOMAIN st, NEW f
  PROVE  Vp9Stash!KeepsBooks(Vp9!DecideByStructure(st, f), st, f)
<1> DEFINE id       == Vp9!PicId(f)
           tl0      == st.tl0.unwrapped
           gofs     == Vp9!Restrict(st.gofs, {g \in DOMAIN st.gofs : g >= tl0 - MaxGofSaved})
           recent   == [st EXCEPT !.gofs = gofs]
           received == Vp9!FrameReceived(recent, id, tl0)
           switched == IF f.upSwitch THEN received.upSwitch @@ (id :> f.temporal)
                       ELSE received.upSwitch
           old      == Vp9!Pid!BelowLowerBound(DOMAIN switched, Vp9!Pid!Minus(id, UpSwitchAge))
           kept     == Vp9!Restrict(switched, DOMAIN switched \ old)
           cleaned  == [received EXCEPT !.upSwitch = kept]
           diffs    == Vp9!PositionOf(Vp9!StructureOf(received, tl0), id).diffs
           refs     == IF f.interPic THEN Vp9!References(cleaned, f, diffs) ELSE <<>>
           r        == Vp9!DecideByStructure(st, f)
<1>1. r \in {<<"stash", received>>, <<"drop", cleaned>>, Vp9!HandedOff(cleaned, f, refs)}
  BY Zenon DEF Vp9!DecideByStructure
<1>2. Vp9Stash!SameBooks(recent, st)
  <2> HIDE DEF gofs
  <2> QED BY DEF Vp9Stash!SameBooks, Vp9Stash!Fields
<1> HIDE DEF recent, refs, r
<1>3. Vp9Stash!SameBooks(received, st)
  BY <1>2, Vp9ReceivedKeepsBooks, Vp9SameBooksIsTransitive DEF Vp9Stash!SameBooks
<1> HIDE DEF kept, received
<1>4. Vp9Stash!SameBooks(cleaned, st)
  BY <1>3 DEF Vp9Stash!SameBooks, Vp9Stash!Fields
<1> HIDE DEF cleaned
<1>5. Vp9Stash!KeepsBooks(Vp9!HandedOff(cleaned, f, refs), cleaned, f)
  BY <1>4, Vp9HandsOffTheFrame DEF Vp9Stash!SameBooks
<1>6. Vp9Stash!KeepsBooks(r, st, f)
  BY <1>1, <1>3, <1>4, <1>5, Vp9Stash!JudgedKeepsBooks, Vp9Stash!StillKeepsBooks
<1> QED BY <1>6 DEF r

\* A frame that announces a structure of its own.
LEMMA Vp9WithStructureKeepsBooks ==
  ASSUME NEW st, Vp9Stash!Fields \subseteq DOMAIN st, NEW f
  PROVE  Vp9Stash!KeepsBooks(Vp9!DecideWithStructure(st, f), st, f)
<1> DEFINE announced == Vp9!Announced(st, f)
           known     == IF f.temporal = 0 THEN announced ELSE st
           r         == Vp9!DecideWithStructure(st, f)
<1>1. r \in {<<"drop", st>>, <<"stash", known>>, Vp9!DecideKey(known, f),
             Vp9!DecideByStructure(known, f)}
  BY Zenon DEF Vp9!DecideWithStructure
<1>2. Vp9Stash!SameBooks(st, st)
  BY DEF Vp9Stash!SameBooks
<1>3. Vp9Stash!SameBooks(announced, st)
  BY DEF Vp9Stash!SameBooks, Vp9Stash!Fields, Vp9!Announced
<1> HIDE DEF announced, r
<1>4. Vp9Stash!SameBooks(known, st)
  BY <1>2, <1>3
<1> HIDE DEF known
<1>5. /\ Vp9Stash!KeepsBooks(Vp9!DecideKey(known, f), known, f)
      /\ Vp9Stash!KeepsBooks(Vp9!DecideByStructure(known, f), known, f)
  BY <1>4, Vp9KeyKeepsBooks, Vp9StructureKeepsBooks DEF Vp9Stash!SameBooks
<1>6. Vp9Stash!KeepsBooks(r, st, f)
  BY <1>1, <1>2, <1>4, <1>5, Vp9Stash!JudgedKeepsBooks, Vp9Stash!StillKeepsBooks
<1> QED BY <1>6 DEF r

\* A keyframe that announces none.
LEMMA Vp9WithoutStructureKeepsBooks ==
  ASSUME NEW st, Vp9Stash!Fields \subseteq DOMAIN st, NEW f
  PROVE  Vp9Stash!KeepsBooks(Vp9!DecideKeyWithoutStructure(st, f), st, f)
<1> DEFINE r == Vp9!DecideKeyWithoutStructure(st, f)
<1>1. r \in {<<"drop", st>>, <<"stash", st>>, Vp9!DecideKey(st, f)}
  BY Zenon DEF Vp9!DecideKeyWithoutStructure
<1> HIDE DEF r
<1>2. Vp9Stash!KeepsBooks(r, st, f)
  BY <1>1, Vp9KeyKeepsBooks, Vp9Stash!JudgedKeepsBooks DEF Vp9Stash!SameBooks
<1> QED BY <1>2 DEF r

\* A delta frame, stashed while its group is not known.
LEMMA Vp9DeltaKeepsBooks ==
  ASSUME NEW st, Vp9Stash!Fields \subseteq DOMAIN st, NEW f
  PROVE  Vp9Stash!KeepsBooks(Vp9!DecideDelta(st, f), st, f)
<1> DEFINE tl0    == st.tl0.unwrapped
           from   == IF f.temporal = 0 THEN tl0 - 1 ELSE tl0
           gofs   == st.gofs @@ (tl0 :> [st.gofs[from] EXCEPT !.last = Vp9!PicId(f)])
           joined == [st EXCEPT !.gofs = gofs]
           r      == Vp9!DecideDelta(st, f)
<1>1. r \in {<<"stash", st>>, Vp9!DecideByStructure(joined, f)}
  BY Zenon DEF Vp9!DecideDelta
<1> HIDE DEF gofs, r
<1>2. Vp9Stash!SameBooks(joined, st) /\ Vp9Stash!SameBooks(st, st)
  BY DEF Vp9Stash!SameBooks, Vp9Stash!Fields
<1> HIDE DEF joined
<1>3. Vp9Stash!KeepsBooks(Vp9!DecideByStructure(joined, f), joined, f)
  BY <1>2, Vp9StructureKeepsBooks DEF Vp9Stash!SameBooks
<1>4. Vp9Stash!KeepsBooks(r, st, f)
  BY <1>1, <1>2, <1>3, Vp9Stash!JudgedKeepsBooks, Vp9Stash!StillKeepsBooks
<1> QED BY <1>4 DEF r

\* ManageFrameInternal of the VP9 finder.
LEMMA Vp9KeepsBooks ==
  ASSUME NEW F
  PROVE  Vp9Stash!Bookkeeping(F)
<1> SUFFICES ASSUME NEW st, NEW f \in F, Vp9Stash!Fields \subseteq DOMAIN st
             PROVE  Vp9Stash!KeepsBooks(Vp9!Decide(st, f), st, f)
  BY DEF Vp9Stash!Bookkeeping
<1> DEFINE tl0   == Vp9!Tl0!Unwrap(st.tl0, f.tl0 % Tl0M)
           known == [st EXCEPT !.tl0 = tl0]
           r     == Vp9!Decide(st, f)
<1>1. r \in {<<"drop", st>>, Vp9!DecideFlexible(st, f), Vp9!DecideWithStructure(known, f),
             Vp9!DecideKeyWithoutStructure(known, f), Vp9!DecideDelta(known, f)}
  BY Zenon DEF Vp9!Decide
<1> HIDE DEF tl0, r
<1>2. Vp9Stash!SameBooks(known, st) /\ Vp9Stash!SameBooks(st, st)
  BY DEF Vp9Stash!SameBooks, Vp9Stash!Fields
<1> HIDE DEF known
<1>3. /\ Vp9Stash!KeepsBooks(Vp9!DecideFlexible(st, f), st, f)
      /\ Vp9Stash!KeepsBooks(Vp9!DecideWithStructure(known, f), known, f)
      /\ Vp9Stash!KeepsBooks(Vp9!DecideKeyWithoutStructure(known, f), known, f)
      /\ Vp9Stash!KeepsBooks(Vp9!DecideDelta(known, f), known, f)
  BY <1>2, Vp9FlexibleKeepsBooks, Vp9WithStructureKeepsBooks, Vp9WithoutStructureKeepsBooks,
     Vp9DeltaKeepsBooks DEF Vp9Stash!SameBooks
<1>4. Vp9Stash!KeepsBooks(r, st, f)
  BY <1>1, <1>2, <1>3, Vp9Stash!JudgedKeepsBooks, Vp9Stash!StillKeepsBooks
<1> QED BY <1>4 DEF r

-----------------------------------------------------------------------------
\* The books of the finder in use are the same, whichever instance is read.
Books(st, S) == SeqNumStash!Accounts(st, S)

\* The three instances of the books say the same.
LEMMA BooksAreTheSame ==
  ASSUME NEW st, NEW S
  PROVE  /\ Vp8Stash!Accounts(st, S) = Books(st, S)
         /\ Vp9Stash!Accounts(st, S) = Books(st, S)
BY Zenon DEF Books, SeqNumStash!Accounts, Vp8Stash!Accounts, Vp9Stash!Accounts,
   SeqNumStash!Fields, Vp8Stash!Fields, Vp9Stash!Fields,
   SeqNumStash!Queue, Vp8Stash!Queue, Vp9Stash!Queue,
   SeqNumStash!Out, Vp8Stash!Out, Vp9Stash!Out,
   SeqNumStash!Range, Vp8Stash!Range, Vp9Stash!Range,
   SeqNumStash!IsInjective, Vp8Stash!IsInjective, Vp9Stash!IsInjective

Given == {Items[i] : i \in arrived} \cap Frames

\* The invariant: the frames in the books of the finder are those that arrived.
BooksInv ==
  /\ stream \in DOMAIN Streams
  /\ arrived \subseteq DOMAIN Items
  /\ Books(finder, Given)

\* Books that are kept account for every frame.
LEMMA BooksAccount == BooksInv => FramesAccountedFor
BY Zenon DEF BooksInv, Given, FramesAccountedFor, Books, SeqNumStash!Accounts, SeqNumStash!Out,
   SeqNumStash!Range, SeqNumStash!IsInjective, Range, IsInjective

\* A finder that has seen nothing has nothing in its books.
LEMMA FreshBooks ==
  ASSUME NEW st, SeqNumStash!Fields \subseteq DOMAIN st,
         st.stash = <<>>, st.handed = <<>>, st.dropped = {}
  PROVE  Books(st, {})
<1>1. /\ SeqNumStash!Queue(<<>>) /\ SeqNumStash!IsInjective(<<>>)
      /\ SeqNumStash!Range(<<>>) = {}
  BY DEF SeqNumStash!Queue, SeqNumStash!IsInjective, SeqNumStash!Range
<1>2. SeqNumStash!Out(st) = <<>>
  BY DEF SeqNumStash!Out
<1> QED BY <1>1, <1>2 DEF Books, SeqNumStash!Accounts

\* No finder holds anything at first.
LEMMA InitBooks == Init => BooksInv
<1> SUFFICES ASSUME Init PROVE BooksInv
  OBVIOUS
<1>1. Codec \in {"seqnum", "frameid", "vp8", "vp9"}
  BY StreamsAssumption DEF Init, Codec
<1>2. finder \in {SeqNumOnly!NewFinder, FrameIdOnly!NewFinder, Vp8!NewFinder, Vp9!NewFinder}
  BY <1>1 DEF Init, NewFinder
<1>3. /\ SeqNumStash!Fields \subseteq DOMAIN finder
      /\ finder.stash = <<>> /\ finder.handed = <<>> /\ finder.dropped = {}
  BY <1>2 DEF SeqNumOnly!NewFinder, FrameIdOnly!NewFinder, Vp8!NewFinder, Vp9!NewFinder,
     SeqNumStash!Fields
<1>4. Given = {}
  BY DEF Init, Given
<1> QED BY <1>3, <1>4, FreshBooks DEF Init, BooksInv

\* Every frame that is delivered is a new one.
LEMMA NextIsNew ==
  ASSUME BooksInv, NEW i \in DOMAIN Items, Arrives(i)
  PROVE  /\ Given' = Given \cup ({Items[i]} \cap Frames)
         /\ Items[i] \notin Given
         /\ BooksInv' <=> Books(finder', Given')
<1>1. /\ arrived' = arrived \cup {i} /\ i \notin arrived /\ stream' = stream
  BY DEF Arrives
<1>2. Items' = Items /\ Frames' = Frames
  BY <1>1 DEF Items, Frames
<1>3. \A j \in DOMAIN Items : Items[j] = Items[i] => j = i
  BY StreamsAssumption DEF Items, BooksInv, IsInjective
<1>4. Given' = {Items[j] : j \in arrived \cup {i}} \cap Frames
  BY <1>1, <1>2 DEF Given
<1>5. Items[i] \notin Given
  BY <1>1, <1>3 DEF BooksInv, Given
<1>6. Given' = Given \cup ({Items[i]} \cap Frames)
  BY <1>4 DEF Given
<1>7. BooksInv' <=> Books(finder', Given')
  BY <1>1, <1>2 DEF BooksInv
<1> QED BY <1>5, <1>6, <1>7

\* ManageFrame: the frame is new, and in the books afterwards.
LEMMA ManageFrameStep ==
  ASSUME BooksInv, NEW i \in DOMAIN Items, ManageFrame(i)
  PROVE  BooksInv'
<1> DEFINE f == Items[i]
           S == Given
           T == Given \cup {f}
<1>1. /\ f \in Frames /\ f \notin S /\ S \in SUBSET Frames
      /\ Given' = T /\ (BooksInv' <=> Books(finder', Given'))
  <2>1. f \in Frames
    BY DEF ManageFrame, Frames, Range
  <2> QED BY <2>1, NextIsNew DEF ManageFrame, Given
<1>2. finder' = Managed(f)
  BY DEF ManageFrame
<1>3. /\ Codec \in {"seqnum", "frameid", "vp8", "vp9"} /\ MaxStashed \in Nat
      /\ Codec = "vp8" => \A g \in Frames : g.temporal \in Nat
  <2>1. stream \in DOMAIN Streams
    BY DEF BooksInv
  <2>2. Codec = "vp8" => \A j \in DOMAIN Items : Items[j].temporal \in Nat
    BY <2>1, StreamsAssumption DEF Codec, Items
  <2> QED BY <2>1, <2>2, StreamsAssumption, CountAssumption DEF Codec, Frames, Range
<1>4. Books(finder, S)
  BY DEF BooksInv
<1> HIDE DEF f, S
<1>5. CASE Codec = "seqnum"
  <2>1. finder' = SeqNumStash!Managed(finder, f)
    BY <1>2, <1>5, SeqNumStashManages DEF Managed
  <2>2. Books(SeqNumStash!Managed(finder, f), S \cup {f})
    BY <1>1, <1>3, <1>4, SeqNumKeepsBooks, SeqNumStash!ManagedKeepsBooks DEF Books
  <2> QED BY <1>1, <2>1, <2>2 DEF S
<1>6. CASE Codec = "vp8"
  <2>1. finder' = Vp8Stash!Managed(finder, f)
    BY <1>2, <1>6, Vp8StashManages DEF Managed
  <2>2. Vp8Stash!Bookkeeping(Frames)
    BY <1>3, <1>6, Vp8KeepsBooks
  <2>3. Vp8Stash!Accounts(finder, S)
    BY <1>4, BooksAreTheSame
  <2>4. Vp8Stash!Accounts(Vp8Stash!Managed(finder, f), S \cup {f})
    BY <1>1, <1>3, <2>2, <2>3, Vp8Stash!ManagedKeepsBooks
  <2> QED BY <1>1, <2>1, <2>4, BooksAreTheSame DEF S
<1>7. CASE Codec = "vp9"
  <2>1. finder' = Vp9Stash!Managed(finder, f)
    BY <1>2, <1>7, Vp9StashManages DEF Managed
  <2>2. Vp9Stash!Accounts(finder, S)
    BY <1>4, BooksAreTheSame
  <2>3. Vp9Stash!Accounts(Vp9Stash!Managed(finder, f), S \cup {f})
    BY <1>1, <1>3, <2>2, Vp9KeepsBooks, Vp9Stash!ManagedKeepsBooks
  <2> QED BY <1>1, <2>1, <2>3, BooksAreTheSame DEF S
<1>8. CASE Codec = "frameid"
  <2> DEFINE id    == FrameIdOnly!Pid!Unwrap(finder.unwrapper, f.pic % PicM)
             refs  == IF f.kind = "key" THEN {} ELSE {id.unwrapped - 1}
             frame == [frame |-> f, id |-> id.unwrapped, refs |-> refs]
             new   == [finder EXCEPT !.unwrapper = id, !.handed = Append(@, frame)]
  <2>1. finder' = new
    BY <1>2, <1>8 DEF Managed, FrameIdOnly!ManageFrame
  <2>2. frame.frame = f
    OBVIOUS
  <2> HIDE DEF id, frame
  <2>3. /\ SeqNumStash!Fields \subseteq DOMAIN new /\ new.stash = finder.stash
        /\ new.dropped = finder.dropped /\ new.handed = Append(finder.handed, frame)
    BY <1>4 DEF Books, SeqNumStash!Accounts, SeqNumStash!Fields
  <2> HIDE DEF new
  <2>4. Books(new, S \cup {f})
    BY <1>1, <1>4, <2>2, <2>3, SeqNumStash!HandedFrame DEF Books
  <2> QED BY <1>1, <2>1, <2>4 DEF S
<1> QED BY <1>3, <1>5, <1>6, <1>7, <1>8

\* Padding adds nothing to the books; the retry moves frames within them.
LEMMA PaddingStep ==
  ASSUME BooksInv, NEW i \in DOMAIN Items, PaddingReceived(i)
  PROVE  BooksInv'
<1> DEFINE seq  == SeqNumOnly!LastSeq(Items[i])
           kept == finder.padding
                     \ SeqNumOnly!BelowLowerBound(finder.padding, SeqNumOnly!Minus(seq, PaddingAge))
           stashed == [finder EXCEPT !.padding = kept \cup {seq}]
           st   == SeqNumOnly!AdvanceOverPadding(stashed, seq)
<1>1. /\ Items[i] \notin Frames /\ Given' = Given
      /\ BooksInv' <=> Books(finder', Given')
  <2>1. Items[i] \notin Frames
    BY DEF PaddingReceived, Frames
  <2> QED BY <2>1, NextIsNew DEF PaddingReceived
<1>2. finder' = SeqNumStash!RetryStashedFrames(st)
  BY Zenon DEF PaddingReceived, SeqNumOnly!PaddingReceived, SeqNumOnly!RetryStashedFrames,
     SeqNumOnly!Stash!RetryStashedFrames, SeqNumStash!RetryStashedFrames,
     SeqNumOnly!Stash!Repeat, SeqNumStash!Repeat, SeqNumOnly!Stash!RetryPass,
     SeqNumStash!RetryPass,
     SeqNumOnly!Stash!Retry, SeqNumStash!Retry, SeqNumOnly!Stash!Dropped, SeqNumStash!Dropped
<1>3. Books(finder, Given)
  BY DEF BooksInv
<1>4. SeqNumStash!SameBooks(stashed, finder)
  BY <1>3 DEF Books, SeqNumStash!Accounts, SeqNumStash!SameBooks, SeqNumStash!Fields
<1> HIDE DEF stashed
<1>5. SeqNumStash!SameBooks(st, stashed)
  BY <1>4, AdvanceKeepsBooks DEF SeqNumStash!SameBooks
<1> HIDE DEF st
<1>6. SeqNumStash!Accounts(st, Given)
  BY <1>3, <1>4, <1>5, SeqNumStash!SameAccounts DEF Books
<1>7. Books(SeqNumStash!RetryStashedFrames(st), Given)
  <2> DEFINE S == Given
  <2>1. S \in SUBSET Frames
    BY DEF Given
  <2> HIDE DEF S
  <2>2. SeqNumStash!Accounts(st, S)
    BY <1>6 DEF S
  <2> QED BY <2>1, <2>2, SeqNumKeepsBooks, SeqNumStash!RetryKeepsBooks DEF Books, S
<1> QED BY <1>1, <1>2, <1>7

\* ClearTo gives up stashed frames.
LEMMA ClearToStep ==
  ASSUME BooksInv, NEW i \in DOMAIN Items, ClearTo(i)
  PROVE  BooksInv'
<1> DEFINE seq == SeqNumOnly!FirstSeq(Items[i])
<1>1. /\ finder' = Cleared(seq) /\ stream' = stream /\ arrived' = arrived
      /\ Codec \in {"seqnum", "frameid", "vp8", "vp9"}
  BY StreamsAssumption DEF ClearTo, BooksInv, Codec
<1>2. Given' = Given /\ (BooksInv' <=> Books(finder', Given))
  BY <1>1 DEF BooksInv, Given, Items, Frames
<1>3. Books(finder, Given)
  BY DEF BooksInv
<1> DEFINE S == Given
<1> HIDE DEF S, seq
<1>4. Books(finder, S)
  BY <1>3 DEF S
<1>5. CASE Codec = "seqnum"
  <2>1. finder' = SeqNumOnly!ClearTo(finder, seq)
    BY <1>1, <1>5 DEF Cleared
  <2> QED BY <1>2, <1>4, <2>1, SeqNumStashClears DEF Books, S
<1>6. CASE Codec = "vp8"
  <2>1. finder' = Vp8!ClearTo(finder, seq)
    BY <1>1, <1>6 DEF Cleared
  <2> QED BY <1>2, <1>4, <2>1, Vp8StashClears, BooksAreTheSame DEF S
<1>7. CASE Codec = "vp9"
  <2>1. finder' = Vp9!ClearTo(finder, seq)
    BY <1>1, <1>7 DEF Cleared
  <2> QED BY <1>2, <1>4, <2>1, Vp9StashClears, BooksAreTheSame DEF S
<1>8. CASE Codec = "frameid"
  BY <1>1, <1>2, <1>3, <1>8 DEF Cleared
<1> QED BY <1>1, <1>5, <1>6, <1>7, <1>8

\* Every frame that a reference finder has been given is stashed, handed off or
\* given up, in one of these places and once: for every stream of each of the four
\* codecs, every order and loss of its items, every retry and every clearing.
THEOREM FramesStayAccountedFor == Spec => []FramesAccountedFor
<1>1. Init => BooksInv
  BY InitBooks
<1>2. BooksInv /\ [Next]_vars => BooksInv'
  <2> SUFFICES ASSUME BooksInv, [Next]_vars PROVE BooksInv'
    OBVIOUS
  <2>1. CASE Send \/ UNCHANGED vars
    <3>1. UNCHANGED <<stream, finder, arrived>>
      BY <2>1 DEF Send, vars
    <3> QED BY <3>1 DEF BooksInv, Given, Items, Frames
  <2>2. CASE \E i \in DOMAIN Items : ManageFrame(i) \/ PaddingReceived(i) \/ ClearTo(i)
    <3>1. PICK i \in DOMAIN Items : ManageFrame(i) \/ PaddingReceived(i) \/ ClearTo(i)
      BY <2>2
    <3> QED BY <3>1, ManageFrameStep, PaddingStep, ClearToStep
  <2> QED BY <2>1, <2>2 DEF Next
<1>3. BooksInv => FramesAccountedFor
  BY BooksAccount
<1> QED BY <1>1, <1>2, <1>3, PTL DEF Spec

-----------------------------------------------------------------------------
\* RtpFrameReferenceFinder, driven by a stream of its own; the finder in use has
\* the name it has in RefFinders.
CONSTANTS DispatchedItems, None
VARIABLES active, clearedTo, queue, failure
Dispatch == INSTANCE RtpFrameReferenceFinder WITH Items <- DispatchedItems

DispatchStash == INSTANCE StashedFramesProofs WITH Decide <- Dispatch!SeqNumOnly!Decide

\* Its finder for sequence numbers manages a frame as the proofs about the
\* stash know it.
LEMMA DispatchStashManages ==
  ASSUME NEW st, NEW f
  PROVE  Dispatch!SeqNumOnly!ManageFrame(st, f) = DispatchStash!Managed(st, f)
  BY Zenon DEF Dispatch!SeqNumOnly!ManageFrame, DispatchStash!Managed,
       Dispatch!SeqNumOnly!RetryStashedFrames,
       Dispatch!SeqNumOnly!Stash!RetryStashedFrames, DispatchStash!RetryStashedFrames,
       Dispatch!SeqNumOnly!Stash!Repeat, DispatchStash!Repeat,
       Dispatch!SeqNumOnly!Stash!RetryPass, DispatchStash!RetryPass,
       Dispatch!SeqNumOnly!Stash!Retry, DispatchStash!Retry,
       Dispatch!SeqNumOnly!Stash!Dropped, DispatchStash!Dropped,
       Dispatch!SeqNumOnly!Stash!Stashed, DispatchStash!Stashed,
       Dispatch!SeqNumOnly!Stash!StashFull, DispatchStash!StashFull,
       Dispatch!SeqNumOnly!Stash!Front, DispatchStash!Front,
       Dispatch!SeqNumOnly!Stash!Last, DispatchStash!Last

\* UpdateLastPictureIdWithPadding does nothing to the books.
LEMMA DispatchAdvanceKeepsBooks ==
  ASSUME NEW st, NEW seq, DispatchStash!Fields \subseteq DOMAIN st
  PROVE  DispatchStash!SameBooks(Dispatch!SeqNumOnly!AdvanceOverPadding(st, seq), st)
  BY DEF Dispatch!SeqNumOnly!AdvanceOverPadding, DispatchStash!Fields, DispatchStash!SameBooks

\* The finder for sequence numbers hands off the frame it decides about.
LEMMA DispatchKeepsBooks ==
  ASSUME NEW F
  PROVE  DispatchStash!Bookkeeping(F)
<1> SUFFICES ASSUME NEW st, NEW f \in F, DispatchStash!Fields \subseteq DOMAIN st
             PROVE  DispatchStash!KeepsBooks(Dispatch!SeqNumOnly!Decide(st, f), st, f)
  BY DEF DispatchStash!Bookkeeping
<1> DEFINE r == Dispatch!SeqNumOnly!Decide(st, f)
           seq == Dispatch!SeqNumOnly!LastSeq(f)
           Judged == \E clean : r \in {<<"drop", [st EXCEPT !.gops = clean]>>,
                                       <<"stash", [st EXCEPT !.gops = clean]>>}
           HandedOff ==
             \E moved, id, frame :
               /\ frame.frame = f
               /\ r = <<"handoff",
                        [Dispatch!SeqNumOnly!AdvanceOverPadding([st EXCEPT !.gops = moved], seq)
                           EXCEPT !.unwrapper = id, !.handed = Append(@, frame)]>>
<1>1. r = <<"stash", st>> \/ Judged \/ HandedOff
  BY DEF Dispatch!SeqNumOnly!Decide
<1> HIDE DEF r
<1> SUFFICES DispatchStash!KeepsBooks(r, st, f)
  BY DEF r
<1>2. CASE r = <<"stash", st>>
  BY <1>2, DispatchStash!JudgedKeepsBooks DEF DispatchStash!SameBooks
<1>3. CASE Judged
  <2>1. PICK clean : r \in {<<"drop", [st EXCEPT !.gops = clean]>>,
                            <<"stash", [st EXCEPT !.gops = clean]>>}
    BY <1>3
  <2> DEFINE new == [st EXCEPT !.gops = clean]
  <2>2. DispatchStash!SameBooks(new, st)
    BY DEF DispatchStash!Fields, DispatchStash!SameBooks
  <2>3. r \in {<<"drop", new>>, <<"stash", new>>}
    BY <2>1
  <2> HIDE DEF new
  <2> QED BY <2>2, <2>3, DispatchStash!JudgedKeepsBooks
<1>4. CASE HandedOff
  <2>1. PICK moved, id, frame :
          /\ frame.frame = f
          /\ r = <<"handoff", [Dispatch!SeqNumOnly!AdvanceOverPadding([st EXCEPT !.gops = moved], seq)
                                 EXCEPT !.unwrapper = id, !.handed = Append(@, frame)]>>
    BY <1>4
  <2> DEFINE one == [st EXCEPT !.gops = moved]
             two == Dispatch!SeqNumOnly!AdvanceOverPadding(one, seq)
             new == [two EXCEPT !.unwrapper = id, !.handed = Append(@, frame)]
  <2>2. DispatchStash!SameBooks(one, st)
    BY DEF DispatchStash!Fields, DispatchStash!SameBooks
  <2>3. DispatchStash!SameBooks(two, st)
    <3> HIDE DEF one
    <3> QED BY <2>2, DispatchAdvanceKeepsBooks DEF DispatchStash!SameBooks
  <2>4. /\ DispatchStash!Fields \subseteq DOMAIN new /\ new.stash = st.stash
        /\ new.handed = Append(st.handed, frame) /\ new.dropped = st.dropped
    <3> HIDE DEF two
    <3> QED BY <2>3 DEF DispatchStash!Fields, DispatchStash!SameBooks
  <2>5. r = <<"handoff", new>>
    BY <2>1
  <2> HIDE DEF new
  <2>6. r[1] = "handoff" /\ r[2] = new
    BY <2>5
  <2> QED BY <2>1, <2>4, <2>6 DEF DispatchStash!KeepsBooks
<1> HIDE DEF Judged, HandedOff
<1> QED BY <1>1, <1>2, <1>3, <1>4


\* Frames that are not older than what has been cleared.
NotCleared == {f \in Dispatch!Range(DispatchedItems) : ~ Dispatch!ClearedPast(f)}

\* The invariant: no cleared frame is stashed.
ClearedInv ==
  /\ active \in {"generic", "seqnum"}
  /\ DispatchStash!Within(finder, Len(finder.handed), NotCleared)
  /\ active = "generic" => finder.stash = <<>>

\* ManageFrame: a frame that gets past the test of cleared_to_seq_num_ is not
\* cleared, and a finder that is replaced takes its stash with it.
LEMMA DispatchManageFrameStep ==
  ASSUME ClearedInv, NEW i \in DOMAIN DispatchedItems, Dispatch!ManageFrame(i)
  PROVE  /\ active' \in {"generic", "seqnum"} /\ clearedTo' = clearedTo
         /\ DispatchStash!Within(finder', Len(finder.handed), NotCleared)
         /\ active' = "generic" => finder'.stash = <<>>
<1> DEFINE f    == DispatchedItems[i]
           kind == IF f.kind = "generic" THEN "generic" ELSE "seqnum"
           st   == Dispatch!GetRefFinderAs(kind)
           n    == Len(finder.handed)
<1>1. /\ active' = kind /\ clearedTo' = clearedTo /\ f \in NotCleared
      /\ finder' = IF kind = "generic" THEN Dispatch!ManagedGeneric(st, f)
                   ELSE Dispatch!SeqNumOnly!ManageFrame(st, f)
  BY DEF Dispatch!ManageFrame, NotCleared, Dispatch!Range
<1>2. DispatchStash!Within(finder, n, NotCleared) /\ n \in Nat
  <2>1. DispatchStash!Within(finder, n, NotCleared)
    BY DEF ClearedInv
  <2> QED BY <2>1, DispatchStash!LengthenedBy DEF DispatchStash!Within
<1> HIDE DEF f, n
<1>3. /\ DispatchStash!Within(st, n, NotCleared)
      /\ kind = "generic" => st.stash = <<>>
  <2>1. CASE active = kind
    <3>1. st = finder
      BY <2>1 DEF Dispatch!GetRefFinderAs
    <3> QED BY <1>2, <2>1, <3>1 DEF ClearedInv
  <2>2. CASE active # kind
    <3>1. /\ DispatchStash!Fields \subseteq DOMAIN st /\ st.stash = <<>>
          /\ st.handed = finder.handed
      BY <2>2 DEF Dispatch!GetRefFinderAs, Dispatch!SeqNumOnly!NewFinder, DispatchStash!Fields
    <3>2. DispatchStash!Queue(<<>>) /\ DispatchStash!Range(<<>>) = {}
      BY DEF DispatchStash!Queue, DispatchStash!Range
    <3> HIDE DEF st
    <3> QED BY <1>2, <3>1, <3>2 DEF DispatchStash!Within
  <2> QED BY <2>1, <2>2
<1> HIDE DEF st
<1>4. CASE kind = "generic"
  <2> DEFINE frame == [frame |-> f, id |-> f.to, refs |-> f.refs]
             out   == [st EXCEPT !.handed = Append(@, frame)]
             lost  == [st EXCEPT !.dropped = @ \cup {f}]
  <2>1. finder' \in {out, lost}
    BY <1>1, <1>4 DEF Dispatch!ManagedGeneric
  <2>2. DispatchStash!Within(lost, n, NotCleared) /\ lost.stash = st.stash
    BY <1>3 DEF DispatchStash!Within, DispatchStash!Fields
  <2>3. DispatchStash!Within(out, n, NotCleared) /\ out.stash = st.stash
    <3>1. frame.frame = f
      OBVIOUS
    <3> HIDE DEF frame
    <3>2. /\ DispatchStash!Fields \subseteq DOMAIN out /\ out.stash = st.stash
          /\ out.handed = Append(st.handed, frame)
      BY <1>3 DEF DispatchStash!Within, DispatchStash!Fields
    <3> HIDE DEF out
    <3>3. DispatchStash!Queue(st.handed)
      BY <1>3 DEF DispatchStash!Within
    <3>4. /\ DispatchStash!Queue(out.handed) /\ Len(out.handed) = Len(st.handed) + 1
          /\ Len(st.handed) \in Nat
          /\ \A k \in 1 .. Len(st.handed) : out.handed[k] = st.handed[k]
          /\ out.handed[Len(st.handed) + 1] = frame
      BY <3>2, <3>3, DispatchStash!Appended, DispatchStash!LengthenedBy
    <3>5. \A k \in n + 1 .. Len(out.handed) : out.handed[k].frame \in NotCleared
      <4>1. \A k \in n + 1 .. Len(st.handed) : st.handed[k].frame \in NotCleared
        BY <1>3 DEF DispatchStash!Within
      <4>2. frame.frame \in NotCleared
        BY <1>1, <3>1
      <4> DEFINE l == Len(st.handed)
      <4>3. \A k \in n + 1 .. Len(out.handed) : k = l + 1 \/ k \in n + 1 .. l
        BY <1>2, <3>4
      <4>4. \A k \in n + 1 .. l : out.handed[k] = st.handed[k]
        BY <1>2, <3>4
      <4> HIDE DEF l
      <4> QED BY <3>4, <4>1, <4>2, <4>3, <4>4 DEF l
    <3> QED BY <1>3, <3>2, <3>4, <3>5 DEF DispatchStash!Within
  <2> HIDE DEF out, lost
  <2> QED BY <1>1, <1>3, <1>4, <2>1, <2>2, <2>3 DEF n
<1>5. CASE kind = "seqnum"
  <2>1. finder' = DispatchStash!Managed(st, f)
    BY <1>1, <1>5, DispatchStashManages
  <2>2. MaxStashed \in Nat
    BY CountAssumption
  <2>3. DispatchStash!Within(finder', n, NotCleared)
    BY <1>1, <1>2, <1>3, <2>1, <2>2, DispatchKeepsBooks, DispatchStash!ManagedWithin
  <2> QED BY <1>1, <1>5, <2>3 DEF n
<1> HIDE DEF kind
<1>6. kind \in {"generic", "seqnum"}
  BY DEF kind
<1> QED BY <1>1, <1>4, <1>5, <1>6 DEF n

\* Padding makes the finder retry stashed frames only.
LEMMA DispatchPaddingStep ==
  ASSUME ClearedInv, NEW i \in DOMAIN DispatchedItems, Dispatch!PaddingReceived(i)
  PROVE  DispatchStash!Within(finder', Len(finder.handed), NotCleared)
<1> DEFINE seq  == Dispatch!SeqNumOnly!LastSeq(DispatchedItems[i])
           kept == finder.padding
                     \ Dispatch!SeqNumOnly!BelowLowerBound(finder.padding, Dispatch!SeqNumOnly!Minus(seq, PaddingAge))
           stashed == [finder EXCEPT !.padding = kept \cup {seq}]
           st == Dispatch!SeqNumOnly!AdvanceOverPadding(stashed, seq)
           n  == Len(finder.handed)
<1>1. DispatchStash!Within(finder, n, NotCleared)
  BY DEF ClearedInv
<1>2. n \in Nat
  BY <1>1, DispatchStash!LengthenedBy DEF DispatchStash!Within
<1>3. CASE active # "seqnum"
  <2>1. finder' = finder
    BY <1>3 DEF Dispatch!PaddingReceived
  <2> QED BY <1>1, <2>1
<1>4. CASE active = "seqnum"
  <2>1. finder' = Dispatch!SeqNumOnly!PaddingReceived(finder, seq)
    BY <1>4 DEF Dispatch!PaddingReceived
  <2>2. finder' = DispatchStash!RetryStashedFrames(st)
    BY Zenon, <2>1 DEF Dispatch!SeqNumOnly!PaddingReceived,
       Dispatch!SeqNumOnly!RetryStashedFrames,
       Dispatch!SeqNumOnly!Stash!RetryStashedFrames, DispatchStash!RetryStashedFrames,
       Dispatch!SeqNumOnly!Stash!Repeat, DispatchStash!Repeat,
       Dispatch!SeqNumOnly!Stash!RetryPass, DispatchStash!RetryPass,
       Dispatch!SeqNumOnly!Stash!Retry, DispatchStash!Retry,
       Dispatch!SeqNumOnly!Stash!Dropped, DispatchStash!Dropped
  <2>3. DispatchStash!SameBooks(stashed, finder)
    BY <1>1 DEF DispatchStash!Within, DispatchStash!SameBooks, DispatchStash!Fields
  <2> HIDE DEF stashed
  <2>4. DispatchStash!SameBooks(st, stashed)
    BY <2>3, DispatchAdvanceKeepsBooks DEF DispatchStash!SameBooks
  <2> HIDE DEF st, n
  <2>5. DispatchStash!Within(st, n, NotCleared)
    BY <1>1, <2>3, <2>4, DispatchStash!SameWithin
  <2>6. DispatchStash!Within(DispatchStash!RetryStashedFrames(st), n, NotCleared)
    BY <1>2, <2>5, DispatchKeepsBooks, DispatchStash!RetryWithin
  <2> QED BY <2>2, <2>6 DEF n
<1> QED BY <1>3, <1>4

\* ClearTo empties the stash of the frames that are cleared from now on.
LEMMA DispatchClearToStep ==
  ASSUME ClearedInv, NEW i \in DOMAIN DispatchedItems, Dispatch!ClearTo(i)
  PROVE  ClearedInv' /\ finder'.handed = finder.handed
<1> DEFINE seq == Dispatch!SeqNumOnly!FirstSeq(DispatchedItems[i])
           old == {f \in DispatchStash!Range(finder.stash) :
                     Dispatch!SeqNumOnly!AheadOf(seq, Dispatch!SeqNumOnly!FirstSeq(f))}
           n   == Len(finder.handed)
           F   == Dispatch!Range(DispatchedItems)
<1>1. clearedTo' = seq /\ active' = active /\ finder' = Dispatch!Cleared(seq)
  BY DEF Dispatch!ClearTo
<1>2. NotCleared' =
        {f \in F : seq = None \/ ~ Dispatch!SeqNumOnly!AheadOf(seq, Dispatch!SeqNumOnly!FirstSeq(f))}
  BY <1>1 DEF NotCleared, Dispatch!ClearedPast
<1>3. DispatchStash!Within(finder, n, F) /\ n \in Nat
  <2>1. DispatchStash!Within(finder, n, NotCleared)
    BY DEF ClearedInv
  <2>2. n \in Nat /\ NotCleared \subseteq F
    BY <2>1, DispatchStash!LengthenedBy DEF DispatchStash!Within, NotCleared
  <2> QED BY <2>1, <2>2 DEF DispatchStash!Within
<1>4. CASE active = "generic"
  <2>1. finder' = finder /\ finder.stash = <<>>
    BY <1>1, <1>4 DEF Dispatch!Cleared, ClearedInv
  <2>2. DispatchStash!Range(finder.stash) = {}
    BY <2>1 DEF DispatchStash!Range
  <2>3. DispatchStash!Within(finder, n, NotCleared')
    BY <1>3, <2>2 DEF DispatchStash!Within
  <2> QED BY <1>1, <1>4, <2>1, <2>3 DEF ClearedInv
<1>5. CASE active = "seqnum"
  <2>1. finder' = DispatchStash!Cleared(finder, old)
    BY Zenon, <1>1, <1>5 DEF Dispatch!Cleared, Dispatch!SeqNumOnly!ClearTo,
       Dispatch!SeqNumOnly!Stash!Cleared,
       DispatchStash!Cleared, Dispatch!SeqNumOnly!Stash!Without, DispatchStash!Without,
       Dispatch!SeqNumOnly!Range, DispatchStash!Range
  <2>2. /\ DispatchStash!Within(finder', n, F) /\ finder'.handed = finder.handed
        /\ DispatchStash!Range(finder'.stash) = DispatchStash!Range(finder.stash) \ old
    <3> HIDE DEF old, F, n
    <3> QED BY <1>3, <2>1, DispatchStash!ClearedWithin
  <2>3. DispatchStash!Range(finder'.stash) \subseteq NotCleared'
    BY <1>2, <2>2 DEF DispatchStash!Within
  <2>4. DispatchStash!Within(finder', n, NotCleared')
    <3> HIDE DEF old, F
    <3> QED BY <1>3, <2>2, <2>3 DEF DispatchStash!Within
  <2> QED BY <1>1, <1>5, <2>2, <2>4 DEF ClearedInv
<1> QED BY <1>4, <1>5 DEF ClearedInv

\* "Clear all stashed frames that include packets older than |seq_num|"
\* (reference_finder.h:33): what has been cleared is not handed off later, neither
\* a frame that was stashed then nor one that arrives afterwards, whatever the
\* stream, the order of its items and the changes of the finder.
THEOREM ClearedFramesStayOut == Dispatch!Spec => Dispatch!ClearedStayOut
<1> DEFINE Kept ==
      \A k \in Len(finder.handed) + 1 .. Len(finder'.handed) :
        ~ Dispatch!ClearedPast(finder'.handed[k].frame)
<1>1. Dispatch!Init => ClearedInv
  <2> SUFFICES ASSUME Dispatch!Init PROVE ClearedInv
    OBVIOUS
  <2>1. /\ DispatchStash!Fields \subseteq DOMAIN finder /\ active = "generic"
        /\ finder.stash = <<>> /\ finder.handed = <<>>
    BY DEF Dispatch!Init, Dispatch!SeqNumOnly!NewFinder, DispatchStash!Fields
  <2>2. DispatchStash!Queue(<<>>) /\ DispatchStash!Range(<<>>) = {} /\ Len(<<>>) = 0
    BY DEF DispatchStash!Queue, DispatchStash!Range
  <2>3. DispatchStash!Within(finder, 0, NotCleared)
    BY <2>1, <2>2 DEF DispatchStash!Within
  <2> QED BY <2>1, <2>2, <2>3 DEF ClearedInv
<1>2. ASSUME ClearedInv, [Dispatch!Next]_Dispatch!vars
      PROVE  ClearedInv' /\ (Kept \/ UNCHANGED Dispatch!vars)
  <2>1. CASE UNCHANGED <<finder, active, clearedTo>>
    <3>1. NotCleared' = NotCleared
      BY <2>1 DEF NotCleared, Dispatch!ClearedPast
    <3>2. Len(finder.handed) \in Nat
      BY <1>2, DispatchStash!LengthenedBy DEF ClearedInv, DispatchStash!Within
    <3>3. Kept
      BY <2>1, <3>2
    <3> QED BY <1>2, <2>1, <3>1, <3>3 DEF ClearedInv
  <2>2. CASE \E i \in DOMAIN DispatchedItems : Dispatch!ManageFrame(i)
    <3>1. PICK i \in DOMAIN DispatchedItems : Dispatch!ManageFrame(i)
      BY <2>2
    <3>2. /\ active' \in {"generic", "seqnum"} /\ clearedTo' = clearedTo
          /\ DispatchStash!Within(finder', Len(finder.handed), NotCleared)
          /\ active' = "generic" => finder'.stash = <<>>
      BY <1>2, <3>1, DispatchManageFrameStep
    <3>3. NotCleared' = NotCleared
      BY <3>2 DEF NotCleared, Dispatch!ClearedPast
    <3>4. Kept
      BY <3>2 DEF DispatchStash!Within, NotCleared
    <3>5. Len(finder'.handed) \in Nat
      BY <3>2, DispatchStash!LengthenedBy DEF DispatchStash!Within
    <3>6. DispatchStash!Within(finder', Len(finder'.handed), NotCleared)
      BY <3>2, <3>5 DEF DispatchStash!Within
    <3> QED BY <3>2, <3>3, <3>4, <3>6 DEF ClearedInv
  <2>3. CASE \E i \in DOMAIN DispatchedItems : Dispatch!DropClearedFrame(i)
    <3>1. PICK i \in DOMAIN DispatchedItems : Dispatch!DropClearedFrame(i)
      BY <2>3
    <3> DEFINE lost == [finder EXCEPT !.dropped = @ \cup {DispatchedItems[i]}]
    <3>2. finder' = lost /\ UNCHANGED <<active, clearedTo>>
      BY <3>1 DEF Dispatch!DropClearedFrame
    <3>3. NotCleared' = NotCleared
      BY <3>2 DEF NotCleared, Dispatch!ClearedPast
    <3>4. /\ DispatchStash!Fields \subseteq DOMAIN lost
          /\ lost.handed = finder.handed /\ lost.stash = finder.stash
      BY <1>2 DEF ClearedInv, DispatchStash!Within, DispatchStash!Fields
    <3>5. Len(finder.handed) \in Nat
      BY <1>2, DispatchStash!LengthenedBy DEF ClearedInv, DispatchStash!Within
    <3> HIDE DEF lost
    <3>6. Kept
      BY <3>2, <3>4, <3>5
    <3> QED BY <1>2, <3>2, <3>3, <3>4, <3>6 DEF ClearedInv, DispatchStash!Within
  <2>4. CASE \E i \in DOMAIN DispatchedItems : Dispatch!PaddingReceived(i)
    <3>1. PICK i \in DOMAIN DispatchedItems : Dispatch!PaddingReceived(i)
      BY <2>4
    <3>2. UNCHANGED <<active, clearedTo>> /\ NotCleared' = NotCleared
      BY <3>1 DEF NotCleared, Dispatch!ClearedPast, Dispatch!PaddingReceived
    <3>3. DispatchStash!Within(finder', Len(finder.handed), NotCleared)
      BY <1>2, <3>1, DispatchPaddingStep
    <3>4. active = "generic" => finder' = finder
      BY <3>1 DEF Dispatch!PaddingReceived
    <3>5. Kept
      BY <3>2, <3>3 DEF DispatchStash!Within, NotCleared
    <3>6. Len(finder'.handed) \in Nat
      BY <3>3, DispatchStash!LengthenedBy DEF DispatchStash!Within
    <3>7. DispatchStash!Within(finder', Len(finder'.handed), NotCleared)
      BY <3>3, <3>6 DEF DispatchStash!Within
    <3> QED BY <1>2, <3>2, <3>4, <3>5, <3>7 DEF ClearedInv
  <2>5. CASE \E i \in DOMAIN DispatchedItems : Dispatch!ClearTo(i)
    <3>1. PICK i \in DOMAIN DispatchedItems : Dispatch!ClearTo(i)
      BY <2>5
    <3>2. ClearedInv' /\ finder'.handed = finder.handed
      BY <1>2, <3>1, DispatchClearToStep
    <3>3. Len(finder.handed) \in Nat
      BY <1>2, DispatchStash!LengthenedBy DEF ClearedInv, DispatchStash!Within
    <3> QED BY <3>2, <3>3
  <2>6. \/ UNCHANGED <<finder, active, clearedTo>>
        \/ \E i \in DOMAIN DispatchedItems :
             \/ Dispatch!ManageFrame(i) \/ Dispatch!DropClearedFrame(i)
             \/ Dispatch!PaddingReceived(i) \/ Dispatch!ClearTo(i)
    BY <1>2 DEF Dispatch!Next, Dispatch!vars, Dispatch!Send, Dispatch!ManageCodecFrame
  <2> QED BY <2>1, <2>2, <2>3, <2>4, <2>5, <2>6
<1>3. ClearedInv /\ [Dispatch!Next]_Dispatch!vars => [Kept]_Dispatch!vars
  BY <1>2
<1>4. ClearedInv /\ [Dispatch!Next]_Dispatch!vars => ClearedInv'
  BY <1>2
<1> QED BY <1>1, <1>3, <1>4, PTL DEF Dispatch!Spec, Dispatch!ClearedStayOut
=============================================================================
