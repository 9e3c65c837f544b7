---------------------- MODULE RtpFrameReferenceFinder ----------------------
(***************************************************************************)
(* brtc::RtpFrameReferenceFinder (reference_finder.cpp): dispatches every  *)
(* frame to the finder that fits it and queues what the finder hands off.  *)
(* One std::variant holds the finder in use: to change it destroys the old *)
(* one, stashed frames included.                                           *)
(*                                                                         *)
(* Frames with a generic descriptor go to RtpGenericFrameRefFinder, which  *)
(* keeps no state; frames of a codec without header extensions go to       *)
(* RtpSeqNumOnlyRefFinder.  The other finders are never reached, because   *)
(* ManageFrame reads the header first as RTPVideoHeader, which throws for  *)
(* a VP8 or VP9 header, and then as one of these, which throws for others. *)
(* pop_gop_inter_continous_frame is left out: see QueueHandedOff.          *)
(*                                                                         *)
(* Items are the stream, as in RefFinders.                                 *)
(***************************************************************************)
EXTENDS Integers, Sequences, SequencesExt, FiniteSetsExt

CONSTANTS
  Items,           \* a sequence of frames and padding packets
  Reordering,      \* bound on reordering by the network
  M, MaxStashed, GopAge, PaddingAge, RekeyDistance,
  MaxReferences,   \* kMaxFrameReferences (5)
  None

ASSUME ReferencesAssumption == {MaxReferences, MaxStashed, Reordering} \subseteq Nat
ASSUME DistanceAssumption ==
  /\ M \in Nat /\ M % 2 = 0
  /\ {GopAge, PaddingAge, RekeyDistance} \subseteq 1 .. M \div 2 - 1
ASSUME NoneAssumption == None \notin Int

VARIABLES
  finder,     \* the finder that ref_finder_ holds, with what has become of frames
  active,     \* which alternative it is: "generic" or "seqnum"
  clearedTo,  \* cleared_to_seq_num_
  queue,      \* frames_
  failure,    \* how a call ended the program, or "none"
  sent,       \* how far the stream has been sent
  arrived     \* items delivered
vars == <<finder, active, clearedTo, queue, failure, sent, arrived>>

SeqNumOnly == INSTANCE RtpSeqNumOnlyRefFinder

\* The variant starts with its first alternative.
Init ==
  /\ finder = SeqNumOnly!NewFinder
  /\ active = "generic"
  /\ clearedTo = None
  /\ queue = <<>>
  /\ failure = "none"
  /\ sent = 0
  /\ arrived = {}
-----------------------------------------------------------------------------
\* GetRefFinderAs<T>: the finder in use, or a new one in its place.  Frames are
\* lost with the old one, but what has become of the others is still known.
GetRefFinderAs(kind) ==
  IF active = kind THEN finder
  ELSE [SeqNumOnly!NewFinder EXCEPT !.handed = finder.handed, !.dropped = finder.dropped]

\* RtpGenericFrameRefFinder::ManageFrame: id and references are those of the
\* descriptor; more references than a frame can hold, and it is dropped.
ManagedGeneric(st, f) ==
  IF Cardinality(f.refs) > MaxReferences
  THEN [st EXCEPT !.dropped = @ \cup {f}]
  ELSE [st EXCEPT !.handed = Append(@, [frame |-> f, id |-> f.to, refs |-> f.refs])]

\* A frame older than what has been cleared is dropped before any finder.
ClearedPast(f) == clearedTo # None /\ SeqNumOnly!AheadOf(clearedTo, SeqNumOnly!FirstSeq(f))

\* The frames handed off are pushed inside the loop over their references: a
\* frame without one is not pushed, and after the first push the loop reads the
\* number of references of a pointer that has been moved from.
QueueHandedOff(new) ==
  LET fatal == {k \in DOMAIN new : new[k].refs # {}}
  IN  IF fatal = {} THEN UNCHANGED <<queue, failure>>
      ELSE queue' = Append(queue, new[Min(fatal)]) /\ failure' = "null_dereference"

\* The network delivers an item once, unless it is too late or lost.
Arrives(i) ==
  /\ failure = "none"
  /\ i \in (sent - Reordering) .. sent \ arrived
  /\ arrived' = arrived \cup {i}
  /\ UNCHANGED sent

ManageFrame(i) ==
  LET f    == Items[i]
      kind == IF f.kind = "generic" THEN "generic" ELSE "seqnum"
      st   == GetRefFinderAs(kind)
  IN  /\ Arrives(i)
      /\ f.kind \in {"generic", "key", "delta"}
      /\ ~ ClearedPast(f)
      /\ active' = kind
      /\ finder' = IF kind = "generic" THEN ManagedGeneric(st, f) ELSE SeqNumOnly!ManageFrame(st, f)
      /\ QueueHandedOff(SubSeq(finder'.handed, Len(finder.handed) + 1, Len(finder'.handed)))
      /\ UNCHANGED clearedTo

DropClearedFrame(i) ==
  /\ Arrives(i)
  /\ Items[i].kind # "padding"
  /\ ClearedPast(Items[i])
  /\ finder' = [finder EXCEPT !.dropped = @ \cup {Items[i]}]
  /\ UNCHANGED <<active, clearedTo, queue, failure>>

\* A frame with a VP8 or VP9 header.
ManageCodecFrame(i) ==
  /\ Arrives(i)
  /\ Items[i].kind = "vp8"
  /\ ~ ClearedPast(Items[i])
  /\ failure' = "bad_variant_access"
  /\ UNCHANGED <<finder, active, clearedTo, queue>>

\* What the finder returns goes to the caller and not into the queue.  With any
\* other finder std::get throws, although every caller may tell of padding
\* (reference_finder.h:29-30).
PaddingReceived(i) ==
  /\ Arrives(i)
  /\ Items[i].kind = "padding"
  /\ IF active = "seqnum"
     THEN /\ finder' = SeqNumOnly!PaddingReceived(finder, SeqNumOnly!LastSeq(Items[i]))
          /\ UNCHANGED failure
     ELSE failure' = "bad_variant_access" /\ UNCHANGED finder
  /\ UNCHANGED <<active, clearedTo, queue>>

\* Mutant: what is stashed is kept.
ClearNothing(seq) == finder
Cleared(seq) == IF active = "seqnum" THEN SeqNumOnly!ClearTo(finder, seq) ELSE finder

ClearTo(i) ==
  /\ failure = "none"
  /\ i <= sent
  /\ clearedTo' = SeqNumOnly!FirstSeq(Items[i])
  /\ finder' = Cleared(SeqNumOnly!FirstSeq(Items[i]))
  /\ UNCHANGED <<active, queue, failure, sent, arrived>>

Send ==
  /\ failure = "none"
  /\ sent < Len(Items)
  /\ sent' = sent + 1
  /\ UNCHANGED <<finder, active, clearedTo, queue, failure, arrived>>

Next ==
  \/ Send
  \/ \E i \in DOMAIN Items :
       \/ ManageFrame(i) \/ DropClearedFrame(i) \/ ManageCodecFrame(i)
       \/ PaddingReceived(i) \/ ClearTo(i)

Spec == Init /\ [][Next]_vars
-----------------------------------------------------------------------------
\* "Clear all stashed frames that include packets older than |seq_num|": what
\* has been cleared is not handed off later, neither a frame that was stashed
\* then nor one that arrives afterwards (reference_finder.h:33).
ClearedStayOut ==
  [][\A k \in Len(finder.handed) + 1 .. Len(finder'.handed) :
       ~ ClearedPast(finder'.handed[k].frame)]_vars

\* "We have all information needed to determine its references, after which
\* |frame_callback_| is called with the completed frame" (reference_finder.h:22-23),
\* here: the frame is put into the queue.
CompletedFramesAreQueued == Range(finder.handed) = Range(queue)
=============================================================================
