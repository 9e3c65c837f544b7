---------------------------- MODULE MCRefFinders ----------------------------
(* Small streams for RefFinders.                                            *)
EXTENDS RefFinders

Stream(codec, items) == [codec |-> codec, inOrderStart |-> codec = "vp8", items |-> items]

\* Frames with sequence numbers only: two groups of pictures across the
\* wrap-around; the second one is longer than half of the cycle.
Key(a, z)        == [kind |-> "key", from |-> a, to |-> z, at |-> z, refs |-> {}]
Delta(a, z, ref) == [kind |-> "delta", from |-> a, to |-> z, at |-> z, refs |-> {ref}]
Pad(p)           == [kind |-> "padding", from |-> p, to |-> p]

TwoGops == <<Key(8, 9), Delta(10, 10, 9), Pad(11), Key(12, 12), Pad(13),
             Delta(14, 15, 12), Pad(16), Delta(17, 17, 15), Delta(18, 20, 17), Delta(21, 22, 20)>>

\* Frames with a picture id, each in one packet with the same number.
Picture(kind, p, refs) ==
  [kind |-> kind, from |-> p, to |-> p, pic |-> p, at |-> p, refs |-> refs]

PicturesOnly == <<Picture("key", 29, {})>>
                  \o [i \in 1 .. 3 |-> Picture("delta", 29 + i, {28 + i})]
                  \o <<Picture("key", 33, {}), Picture("delta", 34, {33})>>

\* Three temporal layers, in the order 0 2 1 2, the first pictures on the higher
\* ones synchronised to the base layer.
Vp8Frame(kind, p, base, t, sync, refs) ==
  Picture(kind, p, refs) @@ [tl0 |-> base, temporal |-> t, layerSync |-> sync]

TemporalLayers ==
  <<Vp8Frame("key", 27, 6, 0, FALSE, {}),
    Vp8Frame("delta", 28, 6, 2, TRUE, {27}),
    Vp8Frame("delta", 29, 6, 1, TRUE, {27}),
    Vp8Frame("delta", 30, 6, 2, FALSE, {27, 28, 29}),
    Vp8Frame("delta", 31, 7, 0, FALSE, {27}),
    Vp8Frame("delta", 32, 7, 2, FALSE, {29, 30, 31}),
    Vp8Frame("delta", 33, 7, 1, FALSE, {29, 31}),
    Vp8Frame("delta", 34, 7, 2, FALSE, {31, 32, 33}),
    Vp8Frame("delta", 35, 8, 0, FALSE, {31}),
    Vp8Frame("delta", 36, 8, 2, TRUE, {35})>>

\* Ids of VP9 frames leave room for the spatial layers.
At(p, s) == p * MaxSpatialLayers + s
Vp9Frame(kind, p, base, t, gof, refs) ==
  [kind |-> kind, from |-> p, to |-> p, pic |-> p, at |-> At(p, 0), refs |-> {At(r, 0) : r \in refs},
   tl0 |-> base, temporal |-> t, spatial |-> 0, gof |-> gof, flexible |-> FALSE, diffs |-> <<>>,
   upSwitch |-> FALSE, interPic |-> kind = "delta", interLayer |-> FALSE]
Switch(f) == [f EXCEPT !.upSwitch = TRUE]

\* The structure with eight positions and three temporal layers.  Frame 29 may
\* use 28 only, since one can switch up at 28.
Gof == Vp9!GofOfMode(4)
ScalabilityStructure ==
  <<Vp9Frame("key", 26, 6, 0, Gof, {}),
    Switch(Vp9Frame("delta", 27, 6, 2, "none", {26})),
    Switch(Vp9Frame("delta", 28, 6, 1, "none", {26})),
    Vp9Frame("delta", 29, 6, 2, "none", {28}),
    Vp9Frame("delta", 30, 7, 0, "none", {26}),
    Vp9Frame("delta", 31, 7, 2, "none", {29, 30}),
    Vp9Frame("delta", 32, 7, 1, "none", {28, 30}),
    Vp9Frame("delta", 33, 7, 2, "none", {31, 32}),
    Vp9Frame("delta", 34, 8, 0, "none", {30}),
    Vp9Frame("delta", 35, 8, 2, "none", {34})>>

\* Two spatial layers, and a second keyframe with a structure of its own.
Layer(s, f, seq, refs) ==
  [f EXCEPT !.from = seq, !.to = seq, !.spatial = s, !.at = @ + s, !.refs = refs,
            !.interLayer = s > 0]
SpatialLayers ==
  <<Layer(0, Vp9Frame("key", 30, 7, 0, <<>>, {}), 29, {}),
    Layer(1, Vp9Frame("key", 30, 7, 0, "none", {}), 30, {At(30, 0)}),
    Layer(0, Vp9Frame("delta", 31, 8, 0, "none", {}), 31, {At(30, 0)}),
    Layer(1, Vp9Frame("delta", 31, 8, 0, "none", {}), 32, {At(30, 1), At(31, 0)}),
    Layer(0, Vp9Frame("key", 32, 9, 0, Vp9!GofOfMode(1), {}), 33, {}),
    Layer(1, Vp9Frame("key", 32, 9, 0, "none", {}), 34, {At(32, 0)}),
    Layer(0, Vp9Frame("delta", 33, 10, 0, "none", {}), 35, {At(32, 0)}),
    Layer(1, Vp9Frame("delta", 33, 10, 0, "none", {}), 36, {At(32, 1), At(33, 0)})>>

\* Flexible mode: the frames name their references.
Flexible(kind, p, refs) ==
  [Vp9Frame(kind, p, -1, 0, "none", refs) EXCEPT
     !.flexible = TRUE, !.diffs = SetToSeq({p - r : r \in refs})]
FlexibleMode == <<Flexible("key", 30, {}), Flexible("delta", 31, {30}), Flexible("delta", 32, {30, 31}),
                  Flexible("delta", 33, {30}), Flexible("delta", 34, {32, 33})>>

AllStreams ==
  [seqnum   |-> Stream("seqnum", TwoGops),
   pictures |-> Stream("frameid", PicturesOnly),
   vp8      |-> Stream("vp8", TemporalLayers),
   vp9      |-> Stream("vp9", ScalabilityStructure),
   spatial  |-> Stream("vp9", SpatialLayers),
   flexible |-> Stream("vp9", FlexibleMode)]
=============================================================================
