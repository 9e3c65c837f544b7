--------------------------- MODULE RtpVp8RefFinder ---------------------------
(***************************************************************************)
(* webrtc::RtpVp8RefFinder: VP8 frames with temporal layers.  Every base   *)
(* layer frame (temporal layer 0) starts a group with its own tl0 picture  *)
(* index; the finder keeps, per group, the last picture on each layer, and *)
(* the picture ids that it knows to exist but has not handed off.          *)
(*                                                                         *)
(* The finder is a record and its operations are functions of it.  A frame *)
(* has its true picture number pic and group number tl0; the finder sees   *)
(* them modulo PicM and Tl0M.                                              *)
(***************************************************************************)
EXTENDS Integers, Sequences, SequencesExt, FiniteSetsExt

CONSTANTS
  M,                  \* of RTP sequence numbers (2^16)
  PicM,               \* kFrameIdLength (2^15)
  Tl0M,               \* of tl0 picture indices (2^8)
  MaxStashed,         \* kMaxStashedFrames (100)
  MaxTemporalLayers,  \* kMaxTemporalLayers (5)
  MaxLayerInfo,       \* kMaxLayerInfo (50)
  MaxNotYetReceived   \* kMaxNotYetReceivedFrames (100)

SN  == INSTANCE SeqNum
Pid == INSTANCE SeqNum WITH M <- PicM
Tl0 == INSTANCE SeqNum WITH M <- Tl0M

Layers == 0 .. MaxTemporalLayers - 1
NoPid  == -1
PicId(f) == f.pic % PicM
FirstSeq(f) == f.from % M

\* A finder that has seen nothing.
NewFinder ==
  [lastPicture |-> NoPid,              \* last_picture_id_
   notYet |-> {},                      \* not_yet_received_frames_
   layers |-> <<>>,                    \* layer_info_
   unwrapper |-> Pid!FreshUnwrapper,   \* unwrapper_
   tl0 |-> Tl0!FreshUnwrapper,         \* tl0_unwrapper_
   stash |-> <<>>,                     \* stashed_frames_, front first
   handed |-> <<>>,                    \* frames handed off, with id and references
   dropped |-> {}]                     \* frames given up
-----------------------------------------------------------------------------
\* The picture ids up to id, when there is a gap before it, are noted as not yet
\* received, id itself included; those that are too old are forgotten.
\* Mutant: the gap is not looked at.
NotedLast(st, id) == [st EXCEPT !.lastPicture = id]
NotedGap(st, id) ==
  LET old  == Pid!Minus(id, MaxNotYetReceived)
      last == IF st.lastPicture = NoPid THEN id ELSE st.lastPicture
      from == IF Pid!AheadOf(old, last) THEN old ELSE last
      gap  == {k \in 1 .. Pid!ForwardDiff(from, id) : Pid!AheadOf(id, from)}
  IN  [st EXCEPT !.lastPicture = IF gap = {} THEN from ELSE id,
                 !.notYet = (@ \ Pid!BelowLowerBound(@, old)) \cup {Pid!Plus(from, k) : k \in gap}]

\* The group of a frame, unwrapped; groups that are too old are forgotten.
Grouped(st, f) ==
  LET tl0 == Tl0!Unwrap(st.tl0, f.tl0 % Tl0M)
  IN  [st EXCEPT !.tl0 = tl0,
                 !.layers = Restrict(@, {g \in DOMAIN @ : g >= tl0.unwrapped - MaxLayerInfo})]

\* UpdateLayerInfoVp8: the frame is the last one on its layer, in its group and
\* in the groups that follow it, up to the first that has a newer one.
UpdatedLayers(layers, tl0, t, id) ==
  LET takes(g) == g \in DOMAIN layers /\ ~ (layers[g][t] # NoPid /\ Pid!AheadOf(layers[g][t], id))
      run == {k \in 0 .. Cardinality(DOMAIN layers) : \A j \in 0 .. k : takes(tl0 + j)}
  IN  [g \in DOMAIN layers |->
         IF g - tl0 \in run THEN [layers[g] EXCEPT ![t] = id] ELSE layers[g]]

\* The states of an unwrapper that is given a sequence of values.
UnwrapAll(u, values) ==
  FoldLeft(LAMBDA us, v : Append(us, Pid!Unwrap(Last(us), v)), <<u>>, values)

\* UpdateLayerInfoVp8 and UnwrapPictureIds of a frame that is handed off.
HandedOff(st, f, refs) ==
  LET id == PicId(f)
      us == Tail(UnwrapAll(st.unwrapper, Append(refs, id)))
  IN  <<"handoff",
        [st EXCEPT
           !.layers = UpdatedLayers(@, st.tl0.unwrapped, f.temporal, id),
           !.notYet = @ \ {id},
           !.unwrapper = Last(us),
           !.handed = Append(@, [frame |-> f, id |-> Last(us).unwrapped,
                                 refs |-> {u.unwrapped : u \in Range(Front(us))}])]>>
-----------------------------------------------------------------------------
\* The kinds of frames.  A keyframe starts its group from nothing.
DecideKey(st, f) ==
  IF f.temporal # 0 THEN <<"drop", st>>
  ELSE HandedOff([st EXCEPT !.layers = (st.tl0.unwrapped :> [t \in Layers |-> NoPid]) @@ @],
                 f, <<>>)

\* A base layer frame inherits the layers of the group before and references its
\* base layer frame.
DecideBase(st, f) ==
  LET tl0    == st.tl0.unwrapped
      joined == [st EXCEPT !.layers = @ @@ (tl0 :> st.layers[tl0 - 1])]
      last   == joined.layers[tl0][0]
  IN  IF tl0 - 1 \notin DOMAIN st.layers THEN <<"stash", st>>
      ELSE IF Pid!AheadOrAt(last, PicId(f)) THEN <<"drop", joined>>
      ELSE HandedOff(joined, f, <<last>>)

\* A layer sync frame references the base layer frame of its group only.
DecideSync(st, f) ==
  LET layer == st.layers[st.tl0.unwrapped]
      last  == layer[f.temporal]
  IN  IF st.tl0.unwrapped \notin DOMAIN st.layers THEN <<"stash", st>>
      ELSE IF last # NoPid /\ Pid!AheadOrAt(last, PicId(f)) THEN <<"drop", st>>
      ELSE HandedOff(st, f, <<layer[0]>>)

\* A picture that is not yet received lies between ref and id.
\* Mutant: nobody looks.
NoneBetween(st, ref, id) == FALSE
MissingBetween(st, ref, id) ==
  \E p \in st.notYet : Pid!Before(ref, p) /\ Pid!Before(p, id)

\* Any other frame references the last picture on each layer up to its own; the
\* first layer that stands in its way decides.
DecideDelta(st, f) ==
  LET layer == st.layers[st.tl0.unwrapped]
      id    == PicId(f)
      verdict(t) ==
        IF layer[t] = NoPid THEN "stash"
        ELSE IF Pid!AheadOf(layer[t], id) THEN "drop"
        ELSE IF MissingBetween(st, layer[t], id) THEN "stash"
        ELSE IF layer[t] = id THEN "drop"
        ELSE "none"
      against == {t \in 0 .. f.temporal : verdict(t) # "none"}
  IN  IF st.tl0.unwrapped \notin DOMAIN st.layers THEN <<"stash", st>>
      ELSE IF against # {} THEN <<verdict(Min(against)), st>>
      ELSE HandedOff(st, f, [k \in 1 .. f.temporal + 1 |-> layer[k - 1]])

\* ManageFrameInternal: the decision and the state after it.
Decide(st, f) ==
  LET known == Grouped(NotedGap(st, PicId(f)), f)
  IN  IF f.temporal >= MaxTemporalLayers THEN <<"drop", st>>
      ELSE IF f.kind = "key" THEN DecideKey(known, f)
      ELSE IF f.temporal = 0 THEN DecideBase(known, f)
      ELSE IF f.layerSync    THEN DecideSync(known, f)
      ELSE DecideDelta(known, f)
-----------------------------------------------------------------------------
Stash == INSTANCE StashedFrames

RetryStashedFrames(st) == Stash!RetryStashedFrames(st)

ManageFrame(st, f) ==
  LET r == Decide(st, f)
  IN  CASE r[1] = "stash" -> Stash!Stashed(r[2], f)
        [] r[1] = "drop"  -> Stash!Dropped(r[2], f)
        [] OTHER          -> RetryStashedFrames(r[2])

ClearTo(st, seq) ==
  Stash!Cleared(st, {f \in Range(st.stash) : SN!AheadOf(seq, FirstSeq(f))})
-----------------------------------------------------------------------------
\* The type of a finder that deals with the given frames.
FinderOK(st, frames) ==
  /\ st.lastPicture \in Pid!Num \cup {NoPid}
  /\ st.notYet \subseteq Pid!Num
  /\ DOMAIN st.layers \subseteq Int
  /\ \A g \in DOMAIN st.layers : /\ st.layers[g] \in [Layers -> Pid!Num \cup {NoPid}]
                                 /\ st.layers[g][0] # NoPid
  /\ st.unwrapper \in [value : Pid!Num \cup {Pid!Fresh}, unwrapped : Int]
  /\ st.tl0 \in [value : Tl0!Num \cup {Tl0!Fresh}, unwrapped : Int]
  /\ st.stash \in Seq(frames)
  /\ st.handed \in Seq([frame : frames, id : Int, refs : SUBSET Int])
  /\ st.dropped \subseteq frames
=============================================================================
