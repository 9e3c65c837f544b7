----------------------------- MODULE RefFinders -----------------------------
(***************************************************************************)
(* The reference finders, each driven by a stream of frames of its codec.  *)
(* The network delivers an item at most once, within Reordering items of   *)
(* the newest one, or never; the owner may clear what it has given up.     *)
(*                                                                         *)
(* An item has its true place in the stream: from and to are the sequence  *)
(* numbers of its packets, pic and tl0 its picture and base layer numbers, *)
(* none of them wrapped, and at is its place on the scale of frame ids.    *)
(* refs are the places of the frames that the encoder has used for it.     *)
(***************************************************************************)
EXTENDS Integers, Sequences, SequencesExt, FiniteSetsExt

CONSTANTS
  Streams,     \* name -> [codec, inOrderStart, items]
  Reordering,  \* bound on reordering by the network
  M, PicM, Tl0M, MaxStashed, GopAge, PaddingAge, RekeyDistance,
  MaxTemporalLayers, MaxSpatialLayers, MaxLayerInfo, MaxNotYetReceived,
  MaxGofSaved, UpSwitchAge, MaxReferences

ASSUME CountAssumption ==
  /\ {Reordering, MaxStashed, MaxLayerInfo, MaxReferences} \subseteq Nat
  /\ {MaxTemporalLayers, MaxSpatialLayers, MaxGofSaved} \subseteq Nat \ {0}

\* Every clean-up distance is less than half of the cycle it is used in, as 100
\* and 10000 of 2^16, and 100 and 50 of 2^15 are.
ASSUME DistanceAssumption ==
  /\ {M, PicM, Tl0M} \subseteq {n \in 4 .. 65536 : n % 2 = 0}
  /\ {GopAge, PaddingAge, RekeyDistance} \subseteq 1 .. M \div 2 - 1
  /\ {MaxNotYetReceived, UpSwitchAge} \subseteq 1 .. PicM \div 2 - 1

\* The items of a stream are different, and of its codec: a VP8 frame has a
\* temporal layer, and padding comes with frames of sequence numbers only.
ASSUME StreamsAssumption ==
  \A s \in DOMAIN Streams : LET items == Streams[s].items IN
    /\ Streams[s].codec \in {"seqnum", "frameid", "vp8", "vp9"}
    /\ IsInjective(items)
    /\ \A i \in DOMAIN items :
         /\ items[i].kind = "padding" => Streams[s].codec = "seqnum"
         /\ Streams[s].codec = "vp8" => items[i].temporal \in Nat

VARIABLES
  stream,   \* the stream that is received, and with it the finder in use
  finder,   \* its state
  sent,     \* how far the stream has been sent
  arrived   \* items delivered
vars == <<stream, finder, sent, arrived>>

SeqNumOnly  == INSTANCE RtpSeqNumOnlyRefFinder
FrameIdOnly == INSTANCE RtpFrameIdOnlyRefFinder
Vp8         == INSTANCE RtpVp8RefFinder
Vp9         == INSTANCE RtpVp9RefFinder

Items  == Streams[stream].items
Codec  == Streams[stream].codec
Frames == {f \in Range(Items) : f.kind # "padding"}

NewFinder(codec) ==
  CASE codec = "seqnum"  -> SeqNumOnly!NewFinder
    [] codec = "frameid" -> FrameIdOnly!NewFinder
    [] codec = "vp8"     -> Vp8!NewFinder
    [] codec = "vp9"     -> Vp9!NewFinder

Managed(f) ==
  CASE Codec = "seqnum"  -> SeqNumOnly!ManageFrame(finder, f)
    [] Codec = "frameid" -> FrameIdOnly!ManageFrame(finder, f)
    [] Codec = "vp8"     -> Vp8!ManageFrame(finder, f)
    [] Codec = "vp9"     -> Vp9!ManageFrame(finder, f)

Cleared(seq) ==
  CASE Codec = "seqnum"  -> SeqNumOnly!ClearTo(finder, seq)
    [] Codec = "frameid" -> finder
    [] Codec = "vp8"     -> Vp8!ClearTo(finder, seq)
    [] Codec = "vp9"     -> Vp9!ClearTo(finder, seq)

Init ==
  /\ stream \in DOMAIN Streams
  /\ finder = NewFinder(Codec)
  /\ sent = 0
  /\ arrived = {}
-----------------------------------------------------------------------------
Send ==
  /\ sent < Len(Items)
  /\ sent' = sent + 1
  /\ UNCHANGED <<stream, finder, arrived>>

\* An item arrives once, unless it is too late or lost.
Arrives(i) ==
  /\ i \in (sent - Reordering) .. sent \ arrived
  /\ Streams[stream].inOrderStart /\ arrived = {} => i = 1
  /\ arrived' = arrived \cup {i}
  /\ UNCHANGED <<stream, sent>>

ManageFrame(i) ==
  /\ Arrives(i)
  /\ Items[i].kind # "padding"
  /\ finder' = Managed(Items[i])

\* Only the finder for sequence numbers takes padding.
PaddingReceived(i) ==
  /\ Arrives(i)
  /\ Items[i].kind = "padding"
  /\ finder' = SeqNumOnly!PaddingReceived(finder, SeqNumOnly!LastSeq(Items[i]))

\* The owner gives up the frames before item i, when that has been sent.
ClearTo(i) ==
  /\ i <= sent
  /\ \E f \in Range(finder.stash) : f.from < Items[i].from
  /\ finder' = Cleared(SeqNumOnly!FirstSeq(Items[i]))
  /\ UNCHANGED <<stream, sent, arrived>>

Next ==
  \/ Send
  \/ \E i \in DOMAIN Items : ManageFrame(i) \/ PaddingReceived(i) \/ ClearTo(i)

Spec == Init /\ [][Next]_vars
-----------------------------------------------------------------------------
\* The types of the finder in use: numbers within their range, frames of the
\* stream, layer information with a base layer, groups with a structure.
TypeOK ==
  /\ stream \in DOMAIN Streams
  /\ sent \in 0 .. Len(Items)
  /\ arrived \subseteq 1 .. sent
  /\ CASE Codec = "seqnum"  -> SeqNumOnly!FinderOK(finder, Frames)
       [] Codec = "frameid" -> FrameIdOnly!FinderOK(finder, Frames)
       [] Codec = "vp8"     -> Vp8!FinderOK(finder, Frames)
       [] Codec = "vp9"     -> Vp9!FinderOK(finder, Frames)

\* No frame is in two places: stashed, handed off or given up.
FramesAccountedFor ==
  LET out == [k \in DOMAIN finder.handed |-> finder.handed[k].frame]
  IN  /\ IsInjective(out)
      /\ IsInjective(finder.stash)
      /\ Range(out) \cap Range(finder.stash) = {}
      /\ finder.dropped \cap (Range(out) \cup Range(finder.stash)) = {}
      /\ Range(out) \cup Range(finder.stash) \cup finder.dropped
           = {Items[i] : i \in arrived} \cap Frames

\* The VP8 finder forgets that a picture was not handed off, when it is too old:
\* whether something is missing before f cannot be told any more.
ForgotSomething(f, handed, got) ==
  /\ Codec = "vp8"
  /\ \E g \in Frames \ {handed[k].frame : k \in DOMAIN handed}, i \in got :
       g.pic < f.pic /\ Items[i].pic >= g.pic + MaxNotYetReceived

\* A frame is handed off with exactly the references that the encoder has used,
\* although they are not named in it (but in flexible mode): also when frames are
\* lost or late, stashed and retried, and across the wrap-around of every number.
\* The finders for sequence numbers and VP8 have handed them off before.
ReferencesAreTheEncoders ==
  [][\A k \in Len(finder.handed) + 1 .. Len(finder'.handed) :
       LET new == finder'.handed[k]
       IN  \/ ForgotSomething(new.frame, SubSeq(finder'.handed, 1, k - 1), arrived')
           \/ /\ {new.id - r : r \in new.refs} = {new.frame.at - a : a \in new.frame.refs}
              /\ Codec \in {"seqnum", "vp8"} =>
                   new.refs \subseteq {finder'.handed[j].id : j \in 1 .. k - 1}]_vars

\* Ids of frames that were handed off differ by as much as their places in the
\* stream: they are unwrapped consistently.
IdsFollowStream ==
  \A j, k \in DOMAIN finder.handed :
    finder.handed[j].id - finder.handed[k].id
      = finder.handed[j].frame.at - finder.handed[k].frame.at

\* A stashed frame waits for something: retried now, it would not be handed off.
StashedFramesWait ==
  \A f \in Range(finder.stash) :
    CASE Codec = "seqnum" -> SeqNumOnly!Decide(finder, f)[1] # "handoff"
      [] Codec = "vp8"    -> ForgotSomething(f, finder.handed, arrived) \/ Vp8!Decide(finder, f)[1] # "handoff"
      [] Codec = "vp9"    -> Vp9!Decide(finder, f)[1] # "handoff"

\* The frame to come next: the one that continues what was handed off last, or,
\* with picture ids, any that is newer than all that was handed off.
ComesNext(f) ==
  /\ finder.handed # <<>>
  /\ IF Codec = "seqnum" THEN Last(finder.handed).frame.at \in f.refs
     ELSE \A k \in DOMAIN finder.handed : finder.handed[k].frame.at < f.at

\* Such a frame is not dropped, unless it is pushed out of the stash or cleared.
\* The re-keying of the finder for sequence numbers exists for that (lines
\* 149-152); what it drops nevertheless has been overtaken, by a keyframe, after
\* which the old GoP is forgotten, or by padding, which has re-keyed the GoP past
\* the frame.
NextFrameIsKept ==
  [][\A f \in finder'.dropped \ finder.dropped :
       f \notin Range(finder.stash) /\ ComesNext(f) =>
         /\ Codec = "seqnum"
         /\ \E i \in arrived : Items[i].from > f.to /\ Items[i].kind \in {"key", "padding"}]_vars
=============================================================================
