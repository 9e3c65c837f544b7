--------------------------- MODULE MediaReceiver ---------------------------
(***************************************************************************)
(* brtc::MediaReceiverImpl (controller/media_receiver_impl.cpp): start()   *)
(* spawns a network loop, a decode loop and a render loop, each on the one *)
(* thread of its context, which hand frames on through two channels; the   *)
(* decode loop decodes with MfxDecoder.  Each loop tests stop_ at its head *)
(* and waits for what it needs, so that it works without waiting from one  *)
(* co_await to the next: one action.                                       *)
(*                                                                         *)
(* What the network loop does with packets is in FrameAssembler and in the *)
(* modules of the finders and of FrameBuffer, whose pop_decodable_frame is *)
(* a stub: which frames it will return is left to the environment.         *)
(***************************************************************************)
EXTENDS MfxDecoder

CONSTANTS
  MaxStarts,   \* bound on the calls of start()
  MaxFrames    \* bound on the frames that become decodable

ASSUME BoundAssumption == MaxStarts \in Nat /\ MaxFrames \in Nat

Kinds == {"network", "decode", "render"}
Loops == (1 .. MaxStarts) \X Kinds   \* the loops of each call of start()

VARIABLES
  stop,        \* stop_
  started,     \* calls of start() so far
  loops,       \* where each loop is
  waitingAtStop, \* the loops that were waiting when stop() was called
  worked,      \* how often each loop has worked since then
  frames,      \* frames that became decodable so far; the number of the last
  undecoded,   \* undecoded_frames_
  decoder,     \* decoder_
  decoded,     \* decoded_frames_
  rendered     \* what was rendered last: the frame it was put out as, and the
               \* picture that was in its texture
vars == <<stop, started, loops, waitingAtStop, worked, frames, undecoded, decoder, decoded,
          rendered>>
control  == <<stop, started, waitingAtStop>>
pipeline == <<frames, undecoded, decoder, decoded, rendered>>

Init ==
  /\ stop = FALSE /\ started = 0
  /\ loops = [l \in Loops |-> "none"]
  /\ waitingAtStop = {} /\ worked = [l \in Loops |-> 0]
  /\ frames = 0 /\ undecoded = <<>> /\ decoder = NewDecoder /\ decoded = <<>>
  /\ rendered = [frame |-> NoFrame, picture |-> NoFrame]
-----------------------------------------------------------------------------
\* Mutant: nobody decodes.
SpawnedButDecode(n) == {l \in Loops : l[1] = n /\ l[2] # "decode"}
SpawnedBy(n) == {l \in Loops : l[1] = n}

\* start() does not reset the flag.
Start ==
  /\ started < MaxStarts
  /\ started' = started + 1
  /\ loops' = [l \in Loops |-> IF l \in SpawnedBy(started + 1) THEN "spawned" ELSE loops[l]]
  /\ UNCHANGED <<stop, waitingAtStop, worked, pipeline>>

Stop ==
  /\ ~ stop /\ stop' = TRUE
  /\ waitingAtStop' = {l \in Loops : loops[l] = "waiting"}
  /\ UNCHANGED <<started, loops, worked, pipeline>>

\* while (!stop_), and the co_await behind it.
\* Mutant: the flag is not tested.
NeverDone == "waiting"
FromHead == IF stop THEN "done" ELSE "waiting"

Enter(l) ==
  /\ loops[l] = "spawned"
  /\ loops' = [loops EXCEPT ![l] = FromHead]
  /\ UNCHANGED <<control, worked, pipeline>>

\* A loop that waited has got something and goes back to its head.
Works(l) ==
  /\ loops[l] = "waiting"
  /\ loops' = [loops EXCEPT ![l] = FromHead]
  /\ worked' = [worked EXCEPT ![l] = IF stop THEN @ + 1 ELSE @]
  /\ UNCHANGED control

\* A packet arrives and none, one or two frames become decodable.
NetworkStep(l) ==
  /\ l[2] = "network" /\ Works(l)
  /\ \E n \in 0 .. 2 :
       /\ frames + n <= MaxFrames
       /\ frames' = frames + n
       /\ undecoded' = undecoded \o [i \in 1 .. n |-> frames + i]
  /\ UNCHANGED <<decoder, decoded, rendered>>

\* What the decoder returns is handed on, a frame without data too.
\* Mutant: it overtakes what is already there.
SentFirst(out) == <<out>> \o decoded
SendToRenderLoop(out) == Append(decoded, out)
DecodeStep(l) ==
  /\ l[2] = "decode" /\ Works(l)
  /\ undecoded # <<>> /\ undecoded' = Tail(undecoded)
  /\ \E r \in DecodeOneFrame(decoder, Head(undecoded)) :
       decoder' = r.decoder /\ decoded' = SendToRenderLoop(r.out)
  /\ UNCHANGED <<frames, rendered>>

\* The renderer copies what is in the texture by then.
\* Mutant: the first texture serves for all.
ShownFromFirst(handle) == [frame |-> handle.frame, picture |-> decoder.picture[1]]
Shown(handle) == [frame |-> handle.frame, picture |-> decoder.picture[handle.texture]]
RenderStep(l) ==
  /\ l[2] = "render" /\ Works(l)
  /\ decoded # <<>> /\ decoded' = Tail(decoded)
  /\ rendered' = IF Head(decoded) = Empty THEN rendered ELSE Shown(Head(decoded))
  /\ UNCHANGED <<frames, undecoded, decoder>>

UnlockSurface ==
  /\ decoder' \in Unlocks(decoder)
  /\ UNCHANGED <<control, loops, worked, frames, undecoded, decoded, rendered>>

Next ==
  \/ Start \/ Stop \/ UnlockSurface
  \/ \E l \in Loops : Enter(l) \/ NetworkStep(l) \/ DecodeStep(l) \/ RenderStep(l)

\* The executors run whatever is ready; nobody has to call start() or stop(),
\* no packet has to arrive and the SDK need not unlock anything.
Fairness == \A l \in Loops : WF_vars(Enter(l)) /\ WF_vars(DecodeStep(l)) /\ WF_vars(RenderStep(l))

Spec == Init /\ [][Next]_vars
FairSpec == Spec /\ Fairness
-----------------------------------------------------------------------------
TypeOK ==
  /\ stop \in BOOLEAN /\ started \in 0 .. MaxStarts
  /\ loops \in [Loops -> {"none", "spawned", "waiting", "done"}]
  /\ waitingAtStop \subseteq Loops /\ worked \in [Loops -> Nat]
  /\ frames \in 0 .. MaxFrames /\ undecoded \in Seq(1 .. MaxFrames)
  /\ decoder \in Decoder /\ decoded \in Seq(Handle)
  /\ rendered \in [frame : 0 .. MaxFrames, picture : 0 .. MaxFrames]

\* Through allocations that fail half way and are tried again, every surface of
\* the decoder has a texture of its own that the allocator keeps alive.
SurfacesAreBacked ==
  LET mem(i) == decoder.surfaces[i].mem
  IN  /\ \A i \in DOMAIN decoder.surfaces : mem(i) \in 1 .. decoder.frames
      /\ \A i, j \in DOMAIN decoder.surfaces : mem(i) = mem(j) => i = j

\* From the renderer back to the network loop, through both channels and what
\* the decoder still holds, the frames are in order and none is there twice.
\* What has been put out counts as the frame it was put out as: until then
\* nothing is decoded over a picture.
PutOutFrames  == [i \in DOMAIN decoded |-> decoded[i].frame]
PendingFrames == [p \in DOMAIN decoder.pending |-> decoder.picture[decoder.pending[p]]]
InFlight == <<rendered.frame>> \o PutOutFrames \o PendingFrames \o undecoded
Ordered(s) == \A i, j \in DOMAIN s : i < j /\ s[j] # NoFrame => s[i] < s[j]
FramesStayInOrder == Ordered(InFlight)

\* Nor does the renderer show, now or when it comes to it, an older picture than
\* the frame that was put out: in its texture is that frame or a later one.
ShownIsNotOlder ==
  /\ rendered.frame <= rendered.picture
  /\ \A h \in Range(decoded) : h # Empty => h.frame <= Shown(h).picture

\* mfx_decoder.cpp:120, "sync and present surface_out, unlock?": if a surface were
\* used again only once it has been presented, the renderer would show the frame
\* that was put out.  It does not always, and no run claims it.
PresentedBeforeReuse == rendered.picture = rendered.frame

\* After stop() a loop works at most once more, on what it was waiting for, and
\* a loop that is started later does nothing.
StopLimitsWork ==
  \A l \in Loops : worked[l] <= IF l \in waitingAtStop THEN 1 ELSE 0

\* A frame that is in a channel leaves it, unless the receiver is stopped.
FramesMoveOn == (undecoded # <<>> \/ decoded # <<>>) ~> (stop \/ undecoded \o decoded = <<>>)
=============================================================================
