----------------------- MODULE RtpFrameIdOnlyRefFinder -----------------------
(***************************************************************************)
(* webrtc::RtpFrameIdOnlyRefFinder: frames carry a picture id and nothing  *)
(* about layers; every delta frame references the picture before it.       *)
(***************************************************************************)
EXTENDS Integers, Sequences

CONSTANT PicM  \* kFrameIdLength (2^15)

Pid == INSTANCE SeqNum WITH M <- PicM

\* A finder that has seen nothing; handed and dropped as in the other finders.
NewFinder ==
  [unwrapper |-> Pid!FreshUnwrapper, stash |-> <<>>, handed |-> <<>>, dropped |-> {}]

ManageFrame(st, f) ==
  LET id   == Pid!Unwrap(st.unwrapper, f.pic % PicM)
      refs == IF f.kind = "key" THEN {} ELSE {id.unwrapped - 1}
  IN  [st EXCEPT !.unwrapper = id,
                 !.handed = Append(@, [frame |-> f, id |-> id.unwrapped, refs |-> refs])]

FinderOK(st, frames) ==
  /\ st.unwrapper \in [value : Pid!Num \cup {Pid!Fresh}, unwrapped : Int]
  /\ st.handed \in Seq([frame : frames, id : Int, refs : SUBSET Int])
  /\ st.stash = <<>> /\ st.dropped = {}
=============================================================================
