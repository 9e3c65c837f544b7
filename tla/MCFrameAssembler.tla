-------------------------- MODULE MCFrameAssembler --------------------------
(* Small streams for FrameAssembler.                                        *)
EXTENDS FrameAssembler

\* The packets of a stream that starts at sequence number base and is cut into
\* frames of the given lengths; the packet with id in bares has no payload.
StreamPackets(base, lengths, bares) ==
  LET ends  == [k \in 0 .. Len(lengths) |->
                  FoldFunctionOnSet(+, 0, lengths, 1 .. k)]
      frame(i) == Min({k \in 1 .. Len(lengths) : ends[k] >= i})
  IN  {[id |-> i, seq |-> (base + i) % M, ts |-> frame(i),
        first |-> i = ends[frame(i) - 1] + 1, last |-> i = ends[frame(i)],
        key |-> frame(i) \in {1, 4}, bare |-> i \in bares]
         : i \in 1 .. ends[Len(lengths)]}

\* Ten packets across the wrap-around of a 5-bit sequence number.
WrappingStream == StreamPackets(26, <<1, 4, 2, 1, 2>>, {7})
\* Frames that are far apart in a ring of four slots and collide in six.
SparseStream == StreamPackets(3, <<4, 3, 2>>, {})
\* The same across a wrap-around at 20, with collisions on either side of it.
SparseWrappingStream == StreamPackets(12, <<4, 3, 2>>, {})
=============================================================================
