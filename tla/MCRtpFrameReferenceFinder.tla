--------------------- MODULE MCRtpFrameReferenceFinder ---------------------
(* A small stream for RtpFrameReferenceFinder.                              *)
EXTENDS RtpFrameReferenceFinder

Key(a, z)         == [kind |-> "key", from |-> a, to |-> z]
Delta(a, z)       == [kind |-> "delta", from |-> a, to |-> z]
Pad(p)            == [kind |-> "padding", from |-> p, to |-> p]
Generic(a, z, rs) == [kind |-> "generic", from |-> a, to |-> z, refs |-> rs]
CodecFrame(p)     == [kind |-> "vp8", from |-> p, to |-> p]

\* A key frame and its delta frames, with frames that carry a generic
\* descriptor before and after them.
MixedStream == <<Generic(13, 13, {}), Key(14, 15), Pad(16), Delta(17, 17),
                 Delta(18, 18), Key(19, 20), Delta(21, 21), Generic(22, 22, {1, 2, 3}),
                 Generic(23, 23, {}), CodecFrame(24)>>
=============================================================================
