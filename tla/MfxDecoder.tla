----------------------------- MODULE MfxDecoder -----------------------------
(***************************************************************************)
(* brtc::builtin::MfxDecoder and its MfxDecoderFrameAllocator (mfx_common/ *)
(* mfx_allocator.cpp), as operators on a record: decoding a frame returns  *)
(* the decoders and the frames that may come of it, as every call of the   *)
(* Media SDK may fail.  The first frames initialise the decoder, and the   *)
(* next one tries again when that failed.                                  *)
(*                                                                         *)
(* The SDK is not in the repository.  It decodes into the surface it is    *)
(* given, keeps a surface locked while it has a use for it, and puts out   *)
(* what it decoded in order, now or with a later frame.  What is put out   *)
(* is the handle of a texture; the picture stays in the texture.           *)
(***************************************************************************)
EXTENDS Integers, Sequences, SequencesExt, FiniteSetsExt

CONSTANT NumFrameSuggested   \* what the SDK asks for

ASSUME SuggestedAssumption == NumFrameSuggested \in Nat \ {0}

Garbage == 0   \* what malloc left in a place of mids
Texture == 1 .. NumFrameSuggested   \* in the order of their creation
NoFrame == 0   \* encoded frames are numbered from 1 on

\* A decoded Frame: the texture that is its data and, for the properties only,
\* the frame that was in it when it was put out.  Frame {} has no data.
Empty == [texture |-> 0, frame |-> NoFrame]
Handle == [texture : Texture, frame : Nat] \union {Empty}

\* external_frames_ (mids is <<>> while it is null), surfaces_, already_init_;
\* of the SDK, the textures it has still to put out, and for each texture the
\* frame that was last decoded into it.
Decoder ==
  [mids : Seq(Texture \union {Garbage}), frames : 0 .. NumFrameSuggested,
   surfaces : Seq([mem : Texture, locked : BOOLEAN]), alreadyInit : BOOLEAN,
   pending : Seq(Texture), picture : [Texture -> Nat]]

NewDecoder ==
  [mids |-> <<>>, frames |-> 0, surfaces |-> <<>>, alreadyInit |-> FALSE,
   pending |-> <<>>, picture |-> [t \in Texture |-> NoFrame]]
-----------------------------------------------------------------------------
\* alloc_external_frame: the textures made before one fails are kept, and a
\* second call (a retry, or DECODE_Init) finds mids and succeeds.

Response(d, actual, ok) == [decoder |-> d, actual |-> actual, ok |-> ok]
\* Mutant: every place gets the first texture.
MidsOfFirst(n) == [i \in Texture |-> IF i <= n THEN 1 ELSE Garbage]
MidsOf(n) == [i \in Texture |-> IF i <= n THEN i ELSE Garbage]

ExistingExternal(d) == Response(d, d.frames, TRUE)
NewExternal(d, n) ==
  Response([d EXCEPT !.mids = MidsOf(n), !.frames = n], n, n = NumFrameSuggested)
AllocExternalFrame(d) ==
  IF d.mids # <<>> THEN {ExistingExternal(d)} ELSE {NewExternal(d, n) : n \in 0 .. NumFrameSuggested}

\* init2: the offset behind the headers, or 0 when a call fails.  It is also 0
\* when the SDK is where it began, and then the decoder is initialised.
Init2Result(d, offset) == [decoder |-> d, offset |-> offset]

Initialised(r) ==
  [r.decoder EXCEPT !.alreadyInit = TRUE,
     !.surfaces = [i \in 1 .. r.actual |-> [mem |-> r.decoder.mids[i], locked |-> FALSE]]]

HeaderFails(d) == {Init2Result(d, 0)}
AllocFails(d)  == {Init2Result(r.decoder, 0) : r \in {r \in AllocExternalFrame(d) : ~ r.ok}}
InitFails(d)   == {Init2Result(r.decoder, 0) : r \in {r \in AllocExternalFrame(d) : r.ok}}
InitDone(d)    == {Init2Result(Initialised(r), offset) :
                     r \in {r \in AllocExternalFrame(d) : r.ok}, offset \in {0, 1}}
Init2(d) == HeaderFails(d) \union AllocFails(d) \union InitFails(d) \union InitDone(d)
-----------------------------------------------------------------------------
Output(d, out) == [decoder |-> d, out |-> out]
Nothing(d) == {Output(d, Empty)}

Unlocked(d) == {i \in DOMAIN d.surfaces : ~ d.surfaces[i].locked}
\* Mutant: a surface that is locked does for a work surface.
GetAnyFrame(d) == IF d.surfaces = <<>> THEN 0 ELSE 1
GetUnlockedFrame(d) == IF Unlocked(d) = {} THEN 0 ELSE Min(Unlocked(d))

\* The SDK takes the frame: the work surface is locked and its texture, whatever
\* was in it and whoever has its handle, is filled.
Accepted(d, i, frame) ==
  [d EXCEPT !.surfaces[i].locked = TRUE, !.pending = Append(@, d.surfaces[i].mem),
            !.picture[d.surfaces[i].mem] = frame]

\* Mutant: the work surface is taken for the one that is put out.
HandleOf(d, t) == [texture |-> t, frame |-> d.picture[t]]
PutOutWork(d) == Output([d EXCEPT !.pending = Tail(@)], HandleOf(d, Last(d.pending)))
PutOut(d) == Output([d EXCEPT !.pending = Tail(@)], HandleOf(d, Head(d.pending)))

\* DecodeFrameAsync fails or wants more of the bitstream; takes the frame and
\* has nothing to put out yet; puts a frame out, and SyncOperation may fail.
DecodeFrameAsync(d, i, frame) ==
  LET taken == Accepted(d, i, frame)
  IN  Nothing(d) \union Nothing(taken) \union {PutOut(taken)} \union Nothing(PutOut(taken).decoder)

\* With the decoder at work: no surface, no frame.
Decode(d, frame) ==
  IF GetUnlockedFrame(d) = 0 THEN Nothing(d) ELSE DecodeFrameAsync(d, GetUnlockedFrame(d), frame)

DecodeOneFrame(d, frame) ==
  IF d.alreadyInit THEN Decode(d, frame)
  ELSE UNION {IF r.offset = 0 THEN Nothing(r.decoder) ELSE Decode(r.decoder, frame) : r \in Init2(d)}

\* The SDK unlocks a surface it has no use for any more; nobody else locks or
\* unlocks one (MfxDecoder::release_frame has no caller).
Unlocks(d) ==
  {[d EXCEPT !.surfaces[i].locked = FALSE] :
     i \in {i \in DOMAIN d.surfaces : /\ d.surfaces[i].locked
                                      /\ d.surfaces[i].mem \notin Range(d.pending)}}
=============================================================================
