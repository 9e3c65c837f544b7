----------------------- MODULE RtpSeqNumOnlyRefFinder -----------------------
(***************************************************************************)
(* webrtc::RtpSeqNumOnlyRefFinder: frames whose packets carry nothing but  *)
(* sequence numbers are chained into groups of pictures (GoPs); a delta    *)
(* frame is handed off once it continues the GoP it belongs to.            *)
(*                                                                         *)
(* The finder is a record and its operations are functions of it: one call *)
(* of ManageFrame may go through many stashed frames.  A frame has its     *)
(* true positions in the stream, from and to, of which the finder sees the *)
(* numbers modulo M only.                                                  *)
(***************************************************************************)
EXTENDS SeqNum, Sequences, SequencesExt, FiniteSetsExt

CONSTANTS
  MaxStashed,      \* kMaxStashedFrames (100)
  GopAge,          \* clean-up distance for keyframes (100)
  PaddingAge,      \* kMaxPaddingAge (100)
  RekeyDistance    \* 10000

Seq16(p) == p % M
FirstSeq(f) == Seq16(f.from)
LastSeq(f)  == Seq16(f.to)
IsKey(f)    == f.kind = "key"

\* A finder that has seen nothing.  handed and dropped tell what it has done
\* with the frames it no longer holds.
NewFinder ==
  [gops |-> <<>>,      \* last_seq_num_gop_: keyframe -> last frame, and that with padding
   padding |-> {},     \* stashed_padding_
   stash |-> <<>>,     \* stashed_frames_, front first
   unwrapper |-> FreshUnwrapper,  \* rtp_seq_num_unwrapper_
   handed |-> <<>>,    \* frames handed off so far, with their id and references
   dropped |-> {}]     \* frames given up (kDrop, or pushed out of the stash)
-----------------------------------------------------------------------------
\* std::map with the sequence number comparator: its last key, and the last one
\* that is not after seq (upper_bound(seq), then one step back).
NewestKey(S) == CHOOSE k \in S : \A j \in S : ~ Before(k, j)
NotAfter(g, seq) == BelowUpperBound(DOMAIN g, seq)
GopOf(g, seq) == NewestKey(NotAfter(g, seq))

\* Old keyframes are forgotten, but never the last of them.
CleanGops(g, seq) ==
  LET keys == DOMAIN g
      old  == BelowLowerBound(keys, Minus(seq, GopAge))
  IN  Restrict(g, IF old = keys THEN {NewestKey(keys)} ELSE keys \ old)

\* Mutants: the number with padding is not cut to 16 bits; the GoP keeps its key.
AdvanceUnwrapped(st, seq) ==
  LET key == GopOf(st.gops, seq)
      run == {k \in 1 .. Cardinality(st.padding) :
                \A i \in 1 .. k : Plus(st.gops[key].padded, i) \in st.padding}
  IN  IF NotAfter(st.gops, seq) = {} THEN st
      ELSE [st EXCEPT !.gops[key].padded = @ + Cardinality(run)]
AdvanceNeverRekeys(st, seq) ==
  LET key == GopOf(st.gops, seq)
      run == {k \in 1 .. Cardinality(st.padding) :
                \A i \in 1 .. k : Plus(st.gops[key].padded, i) \in st.padding}
  IN  IF NotAfter(st.gops, seq) = {} THEN st
      ELSE [st EXCEPT !.gops[key].padded = Plus(@, Cardinality(run))]

\* UpdateLastPictureIdWithPadding(seq) on a state record.
AdvanceOverPadding(st, seq) ==
  IF NotAfter(st.gops, seq) = {} THEN st
  ELSE LET key  == GopOf(st.gops, seq)
           gop  == st.gops[key]
           run  == {k \in 1 .. Cardinality(st.padding) :
                      \A i \in 1 .. k : Plus(gop.padded, i) \in st.padding}
           gop2 == [gop EXCEPT !.padded = Plus(@, Cardinality(run))]
       IN  [st EXCEPT
              !.padding = @ \ {Plus(gop.padded, k) : k \in run},
              !.gops = IF ForwardDiff(key, seq) > RekeyDistance
                       THEN seq :> gop2
                       ELSE [@ EXCEPT ![key] = gop2]]

\* A delta frame that starts right after the GoP, padding included.
\* Mutant: wherever it starts.
ContinuesAnywhere(f, gop) == TRUE
Continues(f, gop) == Pred(FirstSeq(f)) = gop.padded

\* The record of the GoP after a frame that ends at seq.
GopAfter(gop, seq) == IF AheadOf(seq, gop.last) THEN [last |-> seq, padded |-> seq] ELSE gop

\* ManageFrameInternal: the decision and the state after it.
Decide(st, f) ==
  LET seq   == LastSeq(f)
      keyed == IF IsKey(f) /\ seq \notin DOMAIN st.gops
               THEN st.gops @@ (seq :> [last |-> seq, padded |-> seq])
               ELSE st.gops
      clean == CleanGops(keyed, seq)
      gop   == clean[GopOf(clean, seq)]
      ref   == Unwrap(st.unwrapper, gop.last)
      id    == Unwrap(ref, seq)
      moved == [clean EXCEPT ![GopOf(clean, seq)] = GopAfter(@, seq)]
      frame == [frame |-> f, id |-> id.unwrapped,
                refs |-> IF IsKey(f) THEN {} ELSE {ref.unwrapped}]
  IN  IF DOMAIN keyed = {} THEN <<"stash", st>>
      ELSE IF NotAfter(clean, seq) = {} THEN <<"drop", [st EXCEPT !.gops = clean]>>
      ELSE IF ~ IsKey(f) /\ ~ Continues(f, gop)
           THEN <<"stash", [st EXCEPT !.gops = clean]>>
      ELSE <<"handoff",
             [AdvanceOverPadding([st EXCEPT !.gops = moved], seq)
                EXCEPT !.unwrapper = id, !.handed = Append(@, frame)]>>

Stash == INSTANCE StashedFrames

RetryStashedFrames(st) == Stash!RetryStashedFrames(st)

\* ManageFrame, PaddingReceived and ClearTo.
ManageFrame(st, f) ==
  LET r == Decide(st, f)
  IN  CASE r[1] = "stash" -> Stash!Stashed(r[2], f)
        [] r[1] = "drop"  -> Stash!Dropped(r[2], f)
        [] OTHER          -> RetryStashedFrames(r[2])

PaddingReceived(st, seq) ==
  LET kept == st.padding \ BelowLowerBound(st.padding, Minus(seq, PaddingAge))
  IN  RetryStashedFrames(AdvanceOverPadding([st EXCEPT !.padding = kept \cup {seq}], seq))

ClearTo(st, seq) ==
  Stash!Cleared(st, {f \in Range(st.stash) : AheadOf(seq, FirstSeq(f))})
-----------------------------------------------------------------------------
\* The type of a finder that deals with the given frames.
FinderOK(st, frames) ==
  /\ DOMAIN st.gops \subseteq Num
  /\ \A k \in DOMAIN st.gops : st.gops[k] \in [last : Num, padded : Num]
  /\ st.padding \subseteq Num
  /\ st.unwrapper \in [value : Num \cup {Fresh}, unwrapped : Int]
  /\ st.stash \in Seq(frames)
  /\ st.handed \in Seq([frame : frames, id : Int, refs : SUBSET Int])
  /\ st.dropped \subseteq frames
=============================================================================
