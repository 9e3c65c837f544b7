--------------------------- MODULE RtpVp9RefFinder ---------------------------
(***************************************************************************)
(* webrtc::RtpVp9RefFinder: VP9 frames with temporal and spatial layers.   *)
(* In flexible mode a frame names its references.  Otherwise they follow   *)
(* from a scalability structure, the group of frames (GOF) that a keyframe *)
(* announces: it tells, for each position in a repeating pattern, the      *)
(* temporal layer and the distances to the references.                     *)
(*                                                                         *)
(* The finder is a record and its operations are functions of it.  A frame *)
(* has its true picture number pic and base layer number tl0; the finder   *)
(* sees them modulo PicM and Tl0M.  A GOF is a sequence of positions.      *)
(***************************************************************************)
EXTENDS Integers, Sequences, SequencesExt, FiniteSetsExt

CONSTANTS
  M,                  \* of RTP sequence numbers (2^16)
  PicM,               \* kFrameIdLength (2^15)
  Tl0M,               \* of tl0 picture indices (2^8)
  MaxStashed,         \* kMaxStashedFrames (100)
  MaxTemporalLayers,  \* kMaxTemporalLayers (5)
  MaxSpatialLayers,   \* kMaxSpatialLayers (5)
  MaxGofSaved,        \* kMaxGofSaved (50)
  UpSwitchAge,        \* clean-up distance for up switches (50)
  MaxReferences       \* kMaxFrameReferences (5)

SN  == INSTANCE SeqNum
Pid == INSTANCE SeqNum WITH M <- PicM
Tl0 == INSTANCE SeqNum WITH M <- Tl0M

PicId(f) == f.pic % PicM
FirstSeq(f) == f.from % M
IsKey(f) == f.kind = "key"

\* A GOF; gof = NoGof says that the frame has no scalability structure with it,
\* an empty one that it counts no frames.
Position(layer, diffs) == [layer |-> layer, diffs |-> diffs]
NoGof == "none"
NoTl0 == -1
MaxRefPics == 3  \* kMaxVp9RefPics
MaxFramesInGof == 255  \* kMaxVp9FramesInGof

\* SetGofInfoVP9: the temporal structures with 1, 2, 3 and again 3 layers.
GofOfMode(mode) ==
  LET base == Position(0, <<4>>)
      high == Position(2, <<1>>)
      both == Position(2, <<1, 2>>)
  IN  CASE mode = 1 -> <<Position(0, <<1>>)>>
        [] mode = 2 -> <<Position(0, <<2>>), Position(1, <<1>>)>>
        [] mode = 3 -> <<base, high, Position(1, <<2>>), high>>
        [] mode = 4 -> <<base, high, Position(1, <<2>>), both,
                         base, both, Position(1, <<2, 4>>), both>>

\* A finder that has seen nothing.  structures is scalability_structures_, as far
\* as it is filled; gofs says where a group's structure is in it.
NewFinder ==
  [current |-> 0,                      \* current_ss_idx_
   structures |-> <<>>,                \* index -> [gof, start]
   gofs |-> <<>>,                      \* gof_info_: tl0 -> [structure, last]
   upSwitch |-> <<>>,                  \* up_switch_: picture id -> temporal layer
   missing |-> [l \in 0 .. MaxTemporalLayers - 1 |-> {}],  \* missing_frames_for_layer_
   unwrapper |-> Pid!FreshUnwrapper,   \* unwrapper_
   tl0 |-> Tl0!FreshUnwrapper,         \* tl0_unwrapper_
   stash |-> <<>>,                     \* stashed_frames_, front first
   handed |-> <<>>,                    \* frames handed off, with id and references
   dropped |-> {}]                     \* frames given up
-----------------------------------------------------------------------------
\* FlattenFrameIdAndRefs: ids leave room for the spatial layers of a picture; a
\* frame may reference the next lower layer of its own picture, too.
UnwrapAll(u, values) ==
  FoldLeft(LAMBDA us, v : Append(us, Pid!Unwrap(Last(us), v)), <<u>>, values)
HandedOff(st, f, refs) ==
  LET us      == Tail(UnwrapAll(st.unwrapper, Append(refs, PicId(f))))
      flat(u) == u.unwrapped * MaxSpatialLayers + f.spatial
      id      == flat(Last(us))
      below   == IF f.interLayer /\ Len(refs) + 1 <= MaxReferences THEN {id - 1} ELSE {}
  IN  <<"handoff",
        [st EXCEPT !.unwrapper = Last(us),
                   !.handed = Append(@, [frame |-> f, id |-> id,
                                         refs |-> {flat(u) : u \in Range(Front(us))} \cup below])]>>

\* The structure that a group of frames uses, and where a picture is in it.
StructureOf(st, tl0) == st.structures[st.gofs[tl0].structure]
PositionAt(s, diff) == s.gof[(diff % Len(s.gof)) + 1]
PositionOf(s, id) == PositionAt(s, Pid!ForwardDiff(s.start, id))

\* FrameReceivedVp9: the pictures skipped since the last one of the group are
\* missing on their layers, up to the first on a layer that is not supported; a
\* picture that is not ahead is no longer missing.
FrameReceived(st, id, tl0) ==
  LET last     == st.gofs[tl0].last
      s        == StructureOf(st, tl0)
      skipped  == 1 .. Pid!ForwardDiff(last, id) - 1
      layer(k) == PositionAt(s, Pid!ForwardDiff(s.start, last) + k).layer
      gap      == {k \in skipped : \A j \in 1 .. k : layer(j) < MaxTemporalLayers}
      noted    == [l \in DOMAIN st.missing |->
                     st.missing[l] \cup {Pid!Plus(last, k) : k \in {j \in gap : layer(j) = l}}]
      own      == PositionOf(s, id).layer
  IN  IF Pid!AheadOf(id, last)
      THEN [st EXCEPT !.missing = noted, !.gofs[tl0].last = IF gap = skipped THEN id ELSE @]
      ELSE IF own < MaxTemporalLayers THEN [st EXCEPT !.missing[own] = @ \ {id}]
      ELSE st

\* MissingRequiredFrameVp9: between a reference (included) and the picture, one
\* on a lower layer is missing; it could have had the up switch flag set.
\* Mutant: nothing is required.
NothingRequired(st, id, tl0) == FALSE
MissingRequired(st, id, tl0) ==
  LET position == PositionOf(StructureOf(st, tl0), id)
  IN  \/ position.layer >= MaxTemporalLayers
      \/ \E d \in Range(position.diffs), l \in 0 .. position.layer - 1 :
           \E p \in st.missing[l] : ~ Pid!Before(p, Pid!Minus(id, d)) /\ Pid!Before(p, id)

\* UpSwitchInIntervalVp9: no need to look beyond this picture for references.
UpSwitchInInterval(st, f, ref) ==
  \E p \in DOMAIN st.upSwitch :
    Pid!Before(ref, p) /\ Pid!Before(p, PicId(f)) /\ st.upSwitch[p] < f.temporal

\* The references that the loop of lines 186-196 leaves: each that lies before an
\* up switch makes the list shorter by one, at its end, also for the loop itself.
References(st, f, diffs) ==
  LET ref(i) == Pid!Minus(PicId(f), diffs[i])
      kept   == FoldLeft(LAMBDA n, i : IF i <= n /\ UpSwitchInInterval(st, f, ref(i))
                                       THEN n - 1 ELSE n,
                         Len(diffs), [i \in DOMAIN diffs |-> i])
  IN  [i \in 1 .. kept |-> ref(i)]
-----------------------------------------------------------------------------
\* The kinds of frames.  A frame that names its references:
DecideFlexible(st, f) ==
  IF Len(f.diffs) > MaxReferences THEN <<"drop", st>>
  ELSE HandedOff(st, f, [i \in DOMAIN f.diffs |-> Pid!Minus(PicId(f), f.diffs[i])])

DecideKey(st, f) == HandedOff(FrameReceived(st, PicId(f), st.tl0.unwrapped), f, <<>>)

\* A frame whose references follow from the structure of its group (157-204).
DecideByStructure(st, f) ==
  LET id       == PicId(f)
      tl0      == st.tl0.unwrapped
      recent   == [st EXCEPT !.gofs = Restrict(@, {g \in DOMAIN @ : g >= tl0 - MaxGofSaved})]
      received == FrameReceived(recent, id, tl0)
      switched == IF f.upSwitch THEN received.upSwitch @@ (id :> f.temporal) ELSE received.upSwitch
      old      == Pid!BelowLowerBound(DOMAIN switched, Pid!Minus(id, UpSwitchAge))
      cleaned  == [received EXCEPT !.upSwitch = Restrict(switched, DOMAIN switched \ old)]
      diffs    == PositionOf(StructureOf(received, tl0), id).diffs
  IN  IF MissingRequired(received, id, tl0) THEN <<"stash", received>>
      ELSE IF Len(diffs) > MaxReferences THEN <<"drop", cleaned>>
      ELSE HandedOff(cleaned, f, IF f.interPic THEN References(cleaned, f, diffs) ELSE <<>>)

\* A scalability structure goes to the next place in the ring, and counts for the
\* group unless that has one.
Announced(st, f) ==
  LET place == (st.current + 1) % MaxGofSaved
      gof   == IF f.gof = <<>> THEN GofOfMode(1) ELSE f.gof
  IN  [st EXCEPT
         !.current = place,
         !.structures = (place :> [gof |-> gof, start |-> PicId(f)]) @@ @,
         !.gofs = @ @@ (st.tl0.unwrapped :> [structure |-> place, last |-> PicId(f)])]

\* A frame with a scalability structure, which only the base layer may change.
DecideWithStructure(st, f) ==
  LET known == IF f.temporal = 0 THEN Announced(st, f) ELSE st
      tooLarge == Len(f.gof) > MaxFramesInGof
                  \/ \E p \in Range(f.gof) : Len(p.diffs) > MaxRefPics
  IN  IF f.temporal = 0 /\ tooLarge THEN <<"drop", st>>
      ELSE IF known.tl0.unwrapped \notin DOMAIN known.gofs THEN <<"stash", known>>
      ELSE IF IsKey(f) THEN DecideKey(known, f)
      ELSE DecideByStructure(known, f)

\* A keyframe of a higher spatial layer goes with that of the base layer.
DecideKeyWithoutStructure(st, f) ==
  IF f.spatial = 0 THEN <<"drop", st>>
  ELSE IF st.tl0.unwrapped \notin DOMAIN st.gofs THEN <<"stash", st>>
  ELSE DecideKey(st, f)

\* A base layer frame takes over the structure of the group before.
DecideDelta(st, f) ==
  LET tl0    == st.tl0.unwrapped
      from   == IF f.temporal = 0 THEN tl0 - 1 ELSE tl0
      joined == [st EXCEPT !.gofs = @ @@ (tl0 :> [st.gofs[from] EXCEPT !.last = PicId(f)])]
  IN  IF from \notin DOMAIN st.gofs THEN <<"stash", st>>
      ELSE DecideByStructure(joined, f)

\* ManageFrameInternal: the decision and the state after it.
Decide(st, f) ==
  LET known == [st EXCEPT !.tl0 = Tl0!Unwrap(@, f.tl0 % Tl0M)]
  IN  IF f.temporal >= MaxTemporalLayers \/ f.spatial >= MaxSpatialLayers THEN <<"drop", st>>
      ELSE IF f.flexible THEN DecideFlexible(st, f)
      ELSE IF f.tl0 = NoTl0 THEN <<"drop", st>>
      ELSE IF f.gof # NoGof THEN DecideWithStructure(known, f)
      ELSE IF IsKey(f) THEN DecideKeyWithoutStructure(known, f)
      ELSE DecideDelta(known, f)
-----------------------------------------------------------------------------
Stash == INSTANCE StashedFrames

RetryStashedFrames(st) == Stash!RetryStashedFrames(st)

ManageFrame(st, f) ==
  LET r == Decide(st, f)
  IN  CASE r[1] = "stash" -> Stash!Stashed(r[2], f)
        [] r[1] = "drop"  -> Stash!Dropped(r[2], f)
        [] OTHER          -> RetryStashedFrames(r[2])

ClearTo(st, seq) ==
  Stash!Cleared(st, {f \in Range(st.stash) : SN!AheadOf(seq, FirstSeq(f))})
-----------------------------------------------------------------------------
\* The type of a finder that deals with the given frames; every group has its
\* structure.
FinderOK(st, frames) ==
  /\ st.current \in 0 .. MaxGofSaved - 1
  /\ DOMAIN st.structures \subseteq 0 .. MaxGofSaved - 1
  /\ \A g \in DOMAIN st.gofs : /\ st.gofs[g].structure \in DOMAIN st.structures
                               /\ st.gofs[g].last \in Pid!Num
  /\ DOMAIN st.upSwitch \subseteq Pid!Num
  /\ \A l \in 0 .. MaxTemporalLayers - 1 : st.missing[l] \subseteq Pid!Num
  /\ st.unwrapper \in [value : Pid!Num \cup {Pid!Fresh}, unwrapped : Int]
  /\ st.tl0 \in [value : Tl0!Num \cup {Tl0!Fresh}, unwrapped : Int]
  /\ st.stash \in Seq(frames)
  /\ st.handed \in Seq([frame : frames, id : Int, refs : SUBSET Int])
  /\ st.dropped \subseteq frames
=============================================================================
