---------------------------- MODULE MediaSender ----------------------------
(***************************************************************************)
(* brtc::MediaSenderImpl (controller/media_sender_impl.cpp): start()      *)
(* spawns a capture loop, a pacing loop and a network loop, stop() only    *)
(* sets a flag that every loop tests at its head.  Whoever starts again    *)
(* before the loops of the last start have seen the flag gets a second set *)
(* of them.                                                                *)
(*                                                                         *)
(* Each bco::Context runs on one thread (SimpleExecutor), where a          *)
(* coroutine runs until its next co_await; onEncode is the capture loop    *)
(* that is between two of them.                                            *)
(***************************************************************************)
EXTENDS Integers, Sequences, SequencesExt, FiniteSetsExt

CONSTANTS
  MaxStarts,           \* bound on the calls of start()
  MaxFrames,           \* bound on the frames that are captured
  MaxPackets,          \* bound on the packets of a frame
  M,                   \* range of seq_number_ (2^16)
  ReleaseAfterCapture, \* Strategies::release_frame_after_capture()
  ReleaseAfterEncode   \* Strategies::release_frame_after_encode()

ASSUME BoundAssumption ==
  /\ MaxStarts \in Nat \ {0} /\ MaxFrames \in Nat /\ MaxPackets \in Nat
  /\ M \in Nat /\ M >= 2
ASSUME StrategyAssumption == ReleaseAfterCapture \in BOOLEAN /\ ReleaseAfterEncode \in BOOLEAN

VARIABLES
  stop,       \* stop_
  started,    \* calls of start() so far; call k spawned the loops numbered k
  capturing,  \* where each capture_encode_loop is
  pacing,     \* where each pacing_loop is
  network,    \* where each network_loop is
  onEncode,   \* the capture loop that occupies the thread of encode_ctx_, or 0
  acquired,   \* the capture device has an acquired frame
  frames,     \* frames captured so far; the number of the last one
  channel,    \* encoded_frames_
  seqNumber,  \* seq_number_
  wire,       \* packets handed to the transport: [frame, seq]
  afterStop   \* frames sent since stop() was called
vars == <<stop, started, capturing, pacing, network, onEncode, acquired, frames,
          channel, seqNumber, wire, afterStop>>
device == <<onEncode, acquired, frames>>
output == <<seqNumber, wire, afterStop>>

Loops == 1 .. MaxStarts

Init ==
  /\ stop = TRUE
  /\ started = 0
  /\ capturing = [l \in Loops |-> "none"]
  /\ pacing = [l \in Loops |-> "none"]
  /\ network = [l \in Loops |-> "none"]
  /\ onEncode = 0
  /\ acquired = FALSE
  /\ frames = 0
  /\ channel = <<>>
  /\ seqNumber \in 0 .. M - 1
  /\ wire = <<>>
  /\ afterStop = 0
-----------------------------------------------------------------------------
Start ==
  /\ started < MaxStarts
  /\ stop' = FALSE
  /\ started' = started + 1
  /\ capturing' = [capturing EXCEPT ![started + 1] = "head"]
  /\ pacing' = [pacing EXCEPT ![started + 1] = "head"]
  /\ network' = [network EXCEPT ![started + 1] = "head"]
  /\ afterStop' = 0
  /\ UNCHANGED <<device, channel, seqNumber, wire>>

Stop ==
  /\ ~ stop
  /\ stop' = TRUE
  /\ UNCHANGED <<started, capturing, pacing, network, device, channel, output>>

\* while (!stop_): where a loop goes from its head.
\* Mutants: the flag is not tested; it is tested the wrong way round.
NeverDone(next) == next
DoneUnlessStopped(next) == IF stop THEN next ELSE "done"
FromHead(next) == IF stop THEN "done" ELSE next
-----------------------------------------------------------------------------
\* capture_encode_loop

CaptureHead(l) ==
  /\ capturing[l] = "head" /\ onEncode = 0
  /\ capturing' = [capturing EXCEPT ![l] = FromHead("sleeping")]
  /\ UNCHANGED <<stop, started, pacing, network, device, channel, output>>

\* release_frame() on a device without an acquired frame fails, silently.
ReleaseIf(policy, held) == held /\ ~ policy

\* What becomes of the acquired frame: capture_empty_frame, after_capture,
\* encode_failed, after_encode.
\* Mutant: a failed encoding does not release the frame.
EncodeFailedKeeps(held) == held
CaptureEmptyFrame(held) == ReleaseIf(ReleaseAfterEncode, held)
AfterCapture(held)      == ReleaseIf(ReleaseAfterCapture, held)
EncodeFailed(held)      == ReleaseIf(ReleaseAfterEncode, held)
AfterEncode(held)       == ReleaseIf(ReleaseAfterEncode, held)

\* DxgiCapture::capture_one_frame returns an empty frame when nothing could be
\* acquired, and also for an acquired frame without metadata.
CaptureFails(l) ==
  /\ capturing[l] = "sleeping" /\ onEncode = 0
  /\ \E now \in {acquired, TRUE} : acquired' = CaptureEmptyFrame(now)
  /\ capturing' = [capturing EXCEPT ![l] = "head"]
  /\ UNCHANGED <<stop, started, pacing, network, onEncode, frames, channel, output>>

\* AcquireNextFrame fails while the last frame has not been released.
CaptureOneFrame(l) ==
  /\ capturing[l] = "sleeping" /\ onEncode = 0
  /\ frames < MaxFrames /\ ~ acquired
  /\ frames' = frames + 1
  /\ acquired' = AfterCapture(TRUE)
  /\ onEncode' = l
  /\ capturing' = [capturing EXCEPT ![l] = "encoding"]
  /\ UNCHANGED <<stop, started, pacing, network, channel, output>>

EncodeFails(l) ==
  /\ capturing[l] = "encoding"
  /\ acquired' = EncodeFailed(acquired)
  /\ onEncode' = 0
  /\ capturing' = [capturing EXCEPT ![l] = "head"]
  /\ UNCHANGED <<stop, started, pacing, network, frames, channel, output>>

EncodeOneFrame(l) ==
  /\ capturing[l] = "encoding"
  /\ acquired' = AfterEncode(acquired)
  /\ onEncode' = 0
  /\ channel' = Append(channel, frames)
  /\ capturing' = [capturing EXCEPT ![l] = "head"]
  /\ UNCHANGED <<stop, started, pacing, network, frames, output>>
-----------------------------------------------------------------------------
\* pacing_loop: between receiving a frame and the next test of stop_ it does
\* not wait, so that all packets of the frame leave together.

PacingHead(l) ==
  /\ pacing[l] = "head"
  /\ pacing' = [pacing EXCEPT ![l] = FromHead("receiving")]
  /\ UNCHANGED <<stop, started, capturing, network, device, channel, output>>

\* seq_number_++ for every packet, whether packetizing it succeeds or not.
\* Mutants: every frame starts at the same number; numbers do not wrap around.
PacketsUnwrapped(f, n) == [k \in 1 .. n |-> [frame |-> f, seq |-> seqNumber + k - 1]]
PacketsFromZero(f, n) == [k \in 1 .. n |-> [frame |-> f, seq |-> (k - 1) % M]]
PacketsOf(f, n) == [k \in 1 .. n |-> [frame |-> f, seq |-> (seqNumber + k - 1) % M]]

\* bco::Channel hands every frame to one receiver, in order.
Received(c) == [frame |-> Head(c), rest |-> Tail(c)]

SendFrame(l) ==
  /\ pacing[l] = "receiving"
  /\ channel # <<>>
  /\ channel' = Received(channel).rest
  /\ \E n \in 0 .. MaxPackets :
       /\ wire' = wire \o PacketsOf(Received(channel).frame, n)
       /\ seqNumber' = (seqNumber + n) % M
  /\ afterStop' = IF stop THEN afterStop + 1 ELSE 0
  /\ pacing' = [pacing EXCEPT ![l] = "head"]
  /\ UNCHANGED <<stop, started, capturing, network, device>>
-----------------------------------------------------------------------------
\* network_loop: waits for an RTCP packet and forgets it.

NetworkHead(l) ==
  /\ network[l] = "head"
  /\ network' = [network EXCEPT ![l] = FromHead("receiving")]
  /\ UNCHANGED <<stop, started, capturing, pacing, device, channel, output>>

RecvRtcp(l) ==
  /\ network[l] = "receiving"
  /\ network' = [network EXCEPT ![l] = "head"]
  /\ UNCHANGED <<stop, started, capturing, pacing, device, channel, output>>

CaptureStep(l) == CaptureHead(l) \/ CaptureFails(l) \/ CaptureOneFrame(l)
                  \/ EncodeFails(l) \/ EncodeOneFrame(l)
PacingStep(l)  == PacingHead(l) \/ SendFrame(l)
NetworkStep(l) == NetworkHead(l) \/ RecvRtcp(l)

Next == Start \/ Stop \/ \E l \in Loops : CaptureStep(l) \/ PacingStep(l) \/ NetworkStep(l)

\* Every thread runs its loops when they are ready: the sleep ends, the capture
\* device and the encoder return.  Nothing makes an RTCP packet arrive.
Fairness == \A l \in Loops : WF_vars(CaptureStep(l)) /\ WF_vars(PacingStep(l))

Spec == Init /\ [][Next]_vars /\ Fairness
-----------------------------------------------------------------------------
\* Whatever fails, and however many capture loops run: the device has no
\* acquired frame while none of them encodes, so that the next AcquireNextFrame
\* can succeed, and the one that encodes still has its frame.  The run
\* has Strategies1, which releases after encoding; with Strategies2 a capture that
\* comes back empty releases nothing (capture_empty_frame).
FrameReleasedOnce == acquired <=> onEncode # 0

\* Two pacing loops share seq_number_ and the channel: still the packets of a
\* frame are together, frames in the order of capture, numbers without a gap.
StreamIsContiguous ==
  \A i \in 1 .. Len(wire) - 1 :
    /\ wire[i + 1].seq = (wire[i].seq + 1) % M
    /\ wire[i + 1].frame >= wire[i].frame
    /\ wire[i + 1].frame = wire[i].frame => ~ Contains(channel, wire[i].frame)

\* After stop() a pacing loop sends the one frame it is waiting for, no more.
StopLimitsSending == afterStop <= started

\* A stopped sender stops capturing, unless it is started again.
CaptureEnds ==
  (stop /\ started = MaxStarts) ~> \A l \in Loops : capturing[l] = "done"

\* An encoded frame leaves the channel, unless the sender is stopped first.
EncodedFramesLeave ==
  \A f \in 1 .. MaxFrames : Contains(channel, f) ~> (stop \/ ~ Contains(channel, f))
=============================================================================
