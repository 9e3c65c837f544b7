-------------------------- MODULE MCPacketizerH264 --------------------------
(* Small frames and limits for PacketizerH264.                              *)
EXTENDS PacketizerH264

Nalu(code, len) == [code |-> code, len |-> len]
NoReductions(max) == [max |-> max, first |-> 0, last |-> 0, single |-> 0]

\* Frames of up to n NAL units with lengths from lens, the last one with either
\* start code.
FramesOf(lens, n) ==
  UNION {{[k \in 1 .. m |-> Nalu(IF k = m THEN c ELSE 4, ls[k])] :
            ls \in [1 .. m -> lens], c \in {3, 4}} : m \in 1 .. n}

\* Around the capacity of one packet (10) and of two and three fragments.
MixedFrames == FramesOf({1, 2, 4, 9, 10, 11, 17, 18, 26}, 3) \cup FramesOf({1, 2}, 4)
\* All sizes of a frame of one NAL unit, and pairs.
AllFrames == MixedFrames \cup FramesOf(1 .. 26, 1) \cup FramesOf({1, 3, 6, 7, 8, 11, 20}, 2)

\* All reductions that leave half of a packet.
ReducedLimits == {l \in [max : {10}, first : {0, 1, 4}, last : {0, 1, 4}, single : {0, 3, 6}] :
                    l.single <= l.first + l.last}
=============================================================================
