# Specifications of brtc

brtc is a small real-time video stack in C++: a sender captures the desktop, encodes,
packetizes and sends RTP; a receiver assembles frames from RTP packets, finds out which
frame references which, buffers and decodes them. Parts of the receiver are taken over from
WebRTC and adapted. This directory holds TLA+ models of the parts that carry the logic, TLC
configurations that check them on small instances, and proofs checked by TLAPS.

Line numbers below refer to `src/`; paths are relative to `src/src/`.
`PROJECT.json` lists components, runs, mutants, the map from definitions to source lines,
findings and hazards in machine-readable form.

    tlasany M.tla                          parse a module
    tlc -workers 2 -config X.cfg M         check a run; module and cfg are in the table below
    tlapm M.tla                            check the proofs of a module

## 1. Inventory

### 1.1 Sender

| Component | State | Operations | Talks to |
|---|---|---|---|
| `MediaSenderImpl` (`controller/media_sender_impl.*`) | `stop_`, `seq_number_`, the channel `encoded_frames_` | `start` spawns three coroutines, `stop` sets the flag | capture, encoder and strategy by call, pacing loop by channel, transport by `send_rtp` |
| `DxgiCapture`, `Strategies` (`builtin/capture`, `builtin/strategies`) | the one acquired frame of the desktop duplication | `capture_one_frame`, `release_frame`; two bits say when the sender releases | called by the capture loop |
| `PacketizerH264` (`video/packetizer`) | `frame_`, `nalus_`, `packets_`, `num_packets_left_` | constructor cuts the frame, `next_packet` hands out a payload | one per frame, owned by the pacing loop |
| `RtpGenericFrameDescriptor`, its extension (`rtp/extension.*`) | the fields of a descriptor | setters, `value_size`, `write_to_buff`, `read_from_buff` | written into an `RtpPacket` |
| `RtpPacket` (`rtp/rtp.*`) | a buffer and the entries of its header extensions | getters and setters, extension allocation | everybody |

### 1.2 Receiver

| Component | State | Operations | Talks to |
|---|---|---|---|
| `MediaReceiverImpl` (`controller/media_receiver_impl.*`) | `stop_`, two channels, and the objects below | `start` spawns three loops: network, decode, render; `stop` sets the flag | transport, decoder, render by call, loops by channels |
| `Transport`, `RtpTransport` (`transport/*`) | a socket and a channel for each kind of packet | `send_rtp`, `recv_rtp`, `recv_loop`, `on_recv_data` | socket; the loops of sender and receiver |
| `MfxDecoder`, `MfxDecoderFrameAllocator` (`builtin/decoder`, `builtin/mfx_common`) | whether it is initialised, the surfaces and their textures | `decode_one_frame`; the SDK calls `alloc` | Media SDK; called by the decode loop |
| `FrameAssembler` (`video/frame_assembler`) | ring of packets with a continuous flag each, `missing_packets_`, newest number, `assembled_frames_` | `insert`, `pop_assembled_frame` | called by the network loop |
| `RtpFrameReferenceFinder` (`video/reference_finder`) | a variant holding the finder in use, `cleared_to_seq_num_`, queue of frames | `ManageFrame`, `PaddingReceived`, `ClearTo`, `pop_gop_inter_continous_frame` | calls one of the finders |
| `RtpSeqNumOnlyRefFinder` | groups of pictures, stashed frames, stashed padding, an unwrapper | `ManageFrame`, `PaddingReceived`, `ClearTo` | - |
| `RtpGenericFrameRefFinder` | none | `ManageFrame` | - |
| `RtpFrameIdOnlyRefFinder`, `RtpVp8RefFinder`, `RtpVp9RefFinder` | stash, layer information, unwrappers | `ManageFrame`, `ClearTo` | not reached by the dispatch |
| `FrameBuffer` (`video/frame_buffer`) | frames and references by unwrapped id | `insert`, `pop_decodable_frame` (a stub) | `DecodedFramesHistory` |
| `DecodedFramesHistory` | cyclic buffer of flags, last id | `InsertDecoded`, `WasDecoded`, `Clear` | - |
| number arithmetic (`common/mod_ops.h`, `common/sequence_number_util.h`) | the unwrapper's last value | `ForwardDiff`, `AheadOf`, comparators, `Unwrap` | used by all of the above |

### 1.3 The rest

The QUIC and SCTP transports are empty. The Media SDK encoder and NVENC are straight lines of vendor
calls, the NVDEC decoder is an empty class; the D3D11 renderer and the device manager keep nothing but
handles. The factories, the P2P stub and the two examples construct the objects above. `bco`, the
coroutine library (channels, executors, sockets, buffers), is a submodule that is not part of
the tree: what is needed of it is modelled from how the code uses it, and marked external in
the map. The same goes for the Media SDK behind the decoder.

### 1.4 What is hard here, and what makes each part correct

* **Order of arrival.** Packets, and so frames, are lost, duplicated, reordered and late, in
  a space of numbers that wraps around. The assembler must hand out every complete frame, and
  nothing but whole frames; the finder must hand off a delta frame only after the frame it
  references, with ids that differ as positions do.
* **A ring that is re-indexed while it is in use**, whose sizes (512, 1000) are unequal
  multiples of nothing in common with 65536. Every packet must stay where lookups search it.
* **Ordered sets of wrapping numbers.** Their comparator is an order only while the set covers
  less than half of the cycle (a warning in the source, nowhere enforced).
* **Two sets of coroutines.** `stop` sets a flag, `start` resets it: loops of two starts share
  the capture device, the channel and the sequence number. Frames must be released exactly
  once, numbers must have no gap, and the capture loops must end.
* **Loops that wait.** The loops of sender and receiver test their flag at the head and then wait in a
  channel: `stop` must bound what they still do, and nothing may be lost or overtake on the way through
  two channels and a decoder that returns its frames later.
* **Calls that fail half way and are tried again**: encoding with an acquired frame in hand,
  the allocation of the decoder's textures, initialisation on each frame until one succeeds.
* **A wire format in three layers**, fixed header, extension, descriptor, whose lengths are taken from
  the blocks of a buffer by the sender, and from the bytes by the receiver.
* **Stale slots and cached ids**: the flag of an id that has left the window, a GoP that has
  been re-keyed, a finder that is replaced together with its stash.
* **Boundaries**: a NAL unit of exactly one packet, a dependency of 63 or 64, a jump of exactly
  one window, a full stash, a full buffer.

`PROJECT.json` lists 40 such places by line, with the property that watches each one, or a note why
none does.

## 2. Modules

| Module | Models | Extends or instantiates |
|---|---|---|
| `SeqNum` | arithmetic and order of wrapping numbers, the unwrapper | - |
| `FrameAssembler` | `FrameAssembler` and the part of `network_loop` that drives it | `SeqNum` |
| `StashedFrames` | the stash that three finders keep in the same way | instantiated by them with their own `Decide` |
| `RtpSeqNumOnlyRefFinder` | that finder, as functions of its state | `SeqNum`, instance of `StashedFrames` |
| `RtpFrameIdOnlyRefFinder` | that finder | instance of `SeqNum` |
| `RtpVp8RefFinder`, `RtpVp9RefFinder` | these finders | instances of `SeqNum` (three moduli) and `StashedFrames` |
| `RefFinders` | the state machine: a network that loses and reorders in front of one of the four finders | instances of the four |
| `RtpFrameReferenceFinder` | the dispatch, with the generic and the sequence-number finder | instance of `RtpSeqNumOnlyRefFinder` |
| `UnwrappedIds` | the frame ids that the next three modules are given | - |
| `DecodedFramesHistory` | the cyclic buffer | `UnwrappedIds`, instance of `DecodedWindow` (refinement) |
| `DecodedWindow` | what the history promises: a sliding window | - |
| `FrameBuffer` | `FrameBuffer::insert` | `UnwrappedIds` |
| `MediaSender` | the three loops of the sender, capture device, strategy and channel | - |
| `PacketizerH264` | `PacketizerH264`, against a depacketizer | - |
| `GenericFrameDescriptor` | setters, writer and reader of the descriptor, as operators | - |
| `RtpPacket` | building and parsing a packet with its header extension, as operators | `GenericFrameDescriptor` |
| `RtpTransport` | the state machine: a packet is filled, sent as a datagram, sorted and parsed | `RtpPacket` |
| `MfxDecoder` | the Media SDK decoder and its allocator, as operators | - |
| `MediaReceiver` | the three loops of the receiver, their channels and the decoder | `MfxDecoder` |
| `MC*` | streams, frames and inputs of the runs | the module they are named after; `MCFrameBuffer` also `DecodedFramesHistory` |
| `FrameAssemblerProofs` | theorems: the ring and the missing numbers, the arithmetic under them, and what `find_frames` finds | `FrameAssembler` |
| `PacketizerH264Proofs` | theorems: what `do_packetization` makes and `next_packet` hands out | `PacketizerH264` |
| `StashedFramesProofs` | lemmas about the stash, for any `Decide` | `StashedFrames` |
| `RefFindersProofs` | theorems: what becomes of a frame in a finder and behind the dispatch | `RefFinders`, instances of `RtpFrameReferenceFinder` and of `StashedFramesProofs` |
| `FrameBufferProofs` | theorems: the buffer, and the history that implements a window | `FrameBuffer`, `DecodedFramesHistory` |
| `RtpTransportProofs` | theorems: what a packet carries, and what the receiver makes of it | `RtpTransport` |
| `MediaSenderProofs`, `MediaReceiverProofs` | theorems | the module they prove about |

Operators with the comment "Mutant:" are small errors somebody could make in the
definition that follows; replacing the definition by the mutant breaks the property it is
listed with, which shows that the run is able to see that error.

### 2.1 FrameAssembler

State and code correspond one to one: `size`/`buffer` are `buffer_`, `newest` is
`newest_inserted_seq_num_`, `missing` is `missing_packets_`, `assembled` is
`assembled_frames_`. `insert` is four actions, one per path through the code: a duplicate, a
free slot, a slot that is free after `expand_buffer`, and `clear_internal`. Each of the
actions that store also does `update_missing_packets` and all of `find_frames`; the frames
that are found are computed from the walk over the slots exactly as the code walks, slot by
slot without comparing sequence numbers, so the assertion of line 272 is part of the model
(`failure`). `PopAssembledFrame` is the inner loop of the network thread, which drains before
it inserts again (`Ready`).

Choices the code leaves open, and how they are taken:

* A moved-from `bco::Buffer` is external: `MovedFrom` is `"empty"` (the slot is free again) or `"kept"`
  (a copy stays). The runs take the first, as for a buffer with a move constructor of its own; the
  theorems that do not name it hold for both. A third outcome, a buffer of no bytes at all, would have
  `empty_payload()` compare 0 with 12 (`rtp.cpp:224`) and say that there is a payload; it is left out.
* `empty_payload()` compares the size of the packet with that of a bare header, so a stored
  packet without a payload looks like a free slot: `bare` packets.
* `is_cleared_to_first_seq_num_` is never set in the code, so the branch it guards
  (`frame_assembler.cpp:28-39`) is left out. The clock fields are written and never read.
* `H264 = TRUE` is the branch of line 185, which reads a variant alternative the header does not hold
  and throws. Nothing in the repository sets that codec on a received packet, so the
  runs use `FALSE`.
* `SizeAssumption` allows one expansion (`MaxSize <= 2 * StartSize`), as with 512 and 1000.

### 2.2 Reference finders

A finder is a record and its operations are functions from a record to a record, since one
call of `ManageFrame` may go through many frames: `Decide` is `ManageFrameInternal` with its
three answers, `StashedFrames!RetryStashedFrames` repeats passes over the stash until one
hands off nothing, and `ManageFrame`, `PaddingReceived` and `ClearTo` are the public operations.
Passes and repetitions are recursive functions of the position they have reached, which a proof can
follow.
The fields keep the names of the members; `handed` and `dropped` record what has become of the
frames the finder no longer holds.

`RefFinders` gives each of them a stream of its codec. An item has its true place in the stream,
never wrapped: `from` and `to` of its packets, `pic` and `tl0` of its picture and base layer, `at` on
the scale of frame ids, and `refs`, the places of the frames that the encoder has used for it. The finder
sees the first four modulo `M`, `PicM` and `Tl0M`, and neither `at` nor `refs`, so that a property can
compare what it infers with what is true. An item arrives at most once, at most `Reordering`
items late, or never; `ClearTo` may come for anything that was sent while something older is
stashed.

* *VP8.* `Decide` notes the gap before a picture (`NotedGap`), finds its group (`Grouped`) and goes by the
  kind of the frame. Of several layers that stand in the way of a delta frame the first one
  decides, as the loop of the code returns there. Pictures before the first one received are not
  tracked by the code; `inOrderStart` says that the stream of the run begins with its keyframe.
  Pictures older than `MaxNotYetReceived` are forgotten, and what was inferred over such a gap is
  excepted by `ForgotSomething`; both are listed in section 6.
* *VP9.* Flexible mode takes the references from the frame, otherwise they follow from the position
  in the group of frames (GOF) that a keyframe announced. `std::map` and `std::set` lookups
  (`lower_bound`, `upper_bound`) are written as sets of what lies between two ids, which is the same as
  long as the keys span less than half of the cycle. `missing_frames_for_layer_` is never cleaned in the
  code; see section 6.
* *Unwrapping.* The ids of a frame and its references pass the unwrapper in the code's order
  (`UnwrapAll`), each from the value the one before has left.

`RtpFrameReferenceFinder` uses the sequence-number finder's record and adds what the dispatch does:
`active` is the alternative of the variant, and to ask for another one loses the old finder's
state (`GetRefFinderAs`). A VP8 or VP9 frame throws before any finder sees it (`ManageCodecFrame`),
which is why these finders are checked at their own interface. `pop_gop_inter_continous_frame` is left
out, because the call that puts a frame into the queue also ends the program (`QueueHandedOff`,
finding 2).

### 2.3 DecodedFramesHistory and FrameBuffer

`DecodedFramesHistory` keeps the signed remainder of `FrameIdToIndex` and the three cases in
which flags expire. Its refinement mapping takes `lastFrameId` for the window's end and the ids
that `WasDecoded` answers true for as the window's content.

`FrameBuffer` models every return of `insert`. Nothing in the repository calls
`InsertDecoded`, and `pop_decodable_frame` returns nothing: the history stays empty, no frame
becomes continuous, and the branches that depend on either are dead. Left out with them are
the timestamps. The receiver passes null frames to the finder today
(`media_receiver_impl.cpp:53-54`), so finder and buffer are modelled at their own interfaces,
not composed with the network loop.

### 2.4 MediaSender

One program counter per coroutine and start: `capturing[l]`, `pacing[l]`, `network[l]`. A
coroutine runs from one `co_await` to the next without being interrupted by another one on
the same context: `onEncode` is the capture loop between capturing and the end of encoding,
during which no other capture loop moves. `stop()`, `start()` and loops on other contexts
interleave freely. `acquired` is the duplicated frame of the capture device; what becomes of
it on each path (`CaptureEmptyFrame`, `AfterCapture`, `EncodeFailed`, `AfterEncode`) follows
the two bits of the strategy. A frame is a number; its packets get their sequence numbers in
one step, as the pacing loop does not wait between them. Packetizing may fail and yield no
packet.

### 2.5 PacketizerH264

Payload bytes are positions: a packet unit is a range of a NAL unit, so that "the receiver
gets back every NAL unit" can be said without bytes. The depacketizer (`Rebuilt`) is written
from RFC 6184, not from the code. Sizes are those of the code's constants, with a capacity of
10 instead of 1200. A NAL unit is assumed not to end in a zero byte, as the start code search
takes a zero before `00 00 01` for part of a four-byte start code. The sender uses the limits
1200/0/0/0 only; the reductions are explored as the interface of the class. Where an `assert` does not hold,
`Init` leaves open whether it is compiled in (`failure = "assert"`) or not (`"none"`, and the payloads
are right all the same). `OnlyFullNalusAssert` names the one case in which that happens.

### 2.6 RtpPacket and RtpTransport

Here bytes are numbers, since the properties are about fields that share them. `/` and `%` stand
for shifts and masks, and where fields overlap when they are too large (`FirstByte`, a temporal
layer of 8) the model overlaps them too. A packet that is built has the blocks of its `bco::Buffer`:
`set_payload` takes the last block for the extension, and its length for that of the block. The
one extension the program has is written with its enumerator, 16, as its id, which never fits into
a header of one byte: `SetExtension` is reached with promotion only, and the path through a one-byte
header is dead.

`RtpTransport` is the way of one packet. The setters of the descriptor come in any order that their
assertions allow, then `SendRtp` is a round of the pacing loop (the setters of the header, the
extension, the payload, the marker), or another program sends something to the port. `OnRecvData` sorts
what arrives and parses RTP. `recv_loop` does not use the number of bytes it received, so that
the packet may be the whole buffer of 1500 bytes: `cut` leaves that open. The properties read the datagram by
RFC 3550 and RFC 8285 (`WireElement`, `WirePayload`), not with the code's getters. `DatagramsAssumption` says what
other programs send, by the ranges that RFC 7983 and RFC 5761 give to RTP and RTCP, and that a packet of our own fits
into the buffer, as those of the packetizer do.

The sums and loops over dependencies and elements are recursive functions (`DependenciesSize`,
`DependenciesBytes`, `ReadDependencies`, `ReadElements`): a round that has ended leaves the state as it is, so a
fixed number of rounds stands for a loop that ends by itself. `DependenciesAssumption` bounds the dependencies by what the
one byte for the size can hold; the code has 8.

The parser reads eight bytes for the length of the extension (finding 3). `ExtensionBytes` says what
comes of it: more than any buffer, unless the first bytes are zero. A read beyond the end (`left`) is a
step of `bco::Buffer`, about which nothing is assumed. The parser keeps one entry for each type of element, which a
later element of that type takes over (`Noted`, `find_or_create_extension_info`); `GetExtension` reads what is
noted in the end. What the parser goes on through is padding and payload, so a payload that looks like an element
of the descriptor replaces the descriptor (finding 3); `DescriptorIsReceived` says that nothing else does:
when no byte of the payload is the descriptor's id, the receiver gets what the sender has set.

`Encodable` is what the wire format has bits for, layers up to 7 and differences up to 16383. The assertions of
the setters accept one more of each (section 6); the runs include both.

### 2.7 MediaReceiver and MfxDecoder

`loops[l]` says where a loop of a call of `start` is; a loop waits at its one `co_await` and does everything
else without waiting, so an action is what it does from there to the next wait. What the network
loop does with a packet is in `FrameAssembler` and the modules of the finders and the buffer; here
the number of frames it yields is open (`NetworkStep`). `waitingAtStop` and `worked` are history, for
`StopLimitsWork`.

The decoder is a record, and decoding a frame is the set of what may come of it. Every call of the
SDK may fail: the headers, an allocation after `n` textures, initialising; the next frame then tries
again, and `alloc_external_frame` finds what the earlier attempt has left. A work surface is locked
from when the SDK takes it until some time after its frame was put out (`Unlocks`).

What the decoder puts out, and what waits in `decoded_frames_`, is the handle of a texture (`HandleOf`). The
picture is in the texture: `picture` says which frame was last decoded into each, `Accepted` overwrites it whoever
still has the handle, and the renderer copies what is there by the time it runs (`Shown`). `FramesStayInOrder` is
about the frames as they were put out. Of the pictures less is true: a texture that waits to be shown may
be decoded over (section 6), so that one picture is shown for two frames; `ShownIsNotOlder` says that what is
shown is then a later picture, never one that was overtaken.

## 3. Runs

| Run | Module | Shows | Bounds |
|---|---|---|---|
| `FrameAssembler` | `MCFrameAssembler` | placement, missing numbers and their order, continuity, frames whole, none overlooked, the assertion | 10 packets, 5 frames of 1, 4, 2, 1, 2 packets, M = 32 with the wrap-around inside a frame; ring 4, then 8; any order, any loss, any duplicates; one bare packet |
| `FrameAssemblerExpansion` | `MCFrameAssembler` | the ring grows to a size that is no multiple of the first: a packet is lost in the expansion only to another one that claims its slot | ring 4, then 6, M = 20, with the wrap-around inside a frame; 9 packets, 3 frames of 4, 3, 2 packets |
| `FrameAssemblerUneven` | `MCFrameAssembler` | finding 1 | ring 4, then 6, M = 16 |
| `RefFinders` | `MCRefFinders` | frames accounted for, references are the encoder's, ids, stash, what comes next is kept | six streams of 5 to 10 items: sequence numbers with padding (the second GoP longer than half of M = 16), picture ids, VP8 with three temporal layers and a sync frame, VP9 with temporal layers and up switches, with spatial layers, and flexible; all numbers wrap around; 4 items late; stash of 2 |
| `RefFinder` | `MCRtpFrameReferenceFinder` | what was cleared stays out | 10 items of all kinds, one of them of a codec that throws; `ClearTo` of anything sent at any time |
| `RefFinderQueue` | `MCRtpFrameReferenceFinder` | finding 2 | as above |
| `FrameBuffer` | `MCFrameBuffer` | size, exact links, frames kept; the history implements the sliding window | ids -3 .. 3, 3 entries, up to 2 references in any order, invalid ones included; window 3 |
| `MediaSender` | `MediaSender` | release, contiguous stream, end of sending and capturing | 2 starts, any number of stops between, 2 frames, 0 to 2 packets each, M = 3, any first number |
| `Packetizer` | `MCPacketizerH264` | frames rebuilt, payloads fit, counts, even fragments, assertions fail for full NAL units only | capacity 10, up to 4 NAL units of 1 to 26 bytes, 3 NAL units per frame kept, reductions |
| `RtpTransport` | `MCRtpTransport` | the descriptor and the rest of the packet survive the wire, packets are sorted, the receiver gets the descriptor | boundaries of every field of the descriptor, layers 7 and 8 and differences 0, 63, 64, 16383 and 16384 among them, 2 dependencies, payloads of 1 and 5 bytes, some of which look like elements, 10 datagrams of other programs, with the buffer cut or not |
| `RtpReplaced` | `MCRtpTransport` | finding 3 | as above |
| `MediaReceiver` | `MediaReceiver` | surfaces have textures, frames in order and once, no picture older than its frame is shown, end of work after `stop`, frames move on | 2 starts, one stop, 2 frames, 2 surfaces, of which an allocation that fails leaves one or none |

Why the bounds are enough, where it is not obvious:

* *Assembler.* All branches need: a frame longer than the first ring (an expansion in its
  middle), a slot taken by a packet of another frame before and after the expansion (expand,
  clear), several frames completed by one packet, and a wrap-around inside a frame. The stream
  has each of them. It spans 10 of 32 numbers, because the numbers of a real stream cover a
  small part of the cycle while they are in the ring. Ring sizes divide the modulus in `FrameAssembler`, which
  1000 does not (section 6), and one is a multiple of the other. `FrameAssemblerExpansion` has sizes of
  which neither is true, as of 512 and 1000: numbers
  six apart, which do not meet among four slots, claim one of six, on both sides of the wrap-around.
* *Finders.* The clean-up distances are scaled down with the modulus (100, 100 and 10000 of 65536
  become 5, 4 and 4 of 16), keeping each below half of the cycle as `DistanceAssumption` wants. Picture
  ids have a cycle of 32, not 16: with 16 the ids that layers remember would reach over half of it, which
  50 groups out of 32768 ids never do.
* *Sender.* Two starts give every pair of loops that can interfere; a third set would be another
  competitor for the same locks-free steps. `StopLimitsSending` counts frames sent after the last
  stop, so that M and MaxPackets do not matter to it.
* *Packetizer.* A NAL unit of 26 bytes needs three fragments or more; sizes 9, 10 and 11 are
  around one packet, 17 and 18 around two; four small NAL units exceed the limit of three.
* *Transport.* A dependency difference of 63 takes one byte, 64 two; with and without them and the
  resolution, the descriptor has sizes with every remainder by 4, so that every padding occurs. The payloads
  hold one that is read as an element of its own, one as an element of the descriptor, and one as none.
* *Buffer and history.* Seven ids are twice a window, so that jumps by one window and by two are among
  them, on both sides of 0. The type of the history is proved (`TypeCorrect`) and not run. As nobody calls `InsertDecoded`, `MCFrameBuffer` calls one of the two while the other is
  empty.
* *Receiver.* With two surfaces and two frames, the second frame is decoded into the other surface, over a
  texture that has been shown, or over one that still waits; with the one surface that an allocation has left, it
  may find none. Two starts give loops that compete for a channel, and loops that begin after the stop.

Deadlock is checked where the component always has a next call (assembler,
transport). The others end: a finite stream has been delivered, a frame has been sent, the
history's ids are used up or its assertion has failed, all loops are done. `FrameAssemblerExpansion` ends where
the assertion of finding 1 aborts the program.

**Fairness.** `MediaSender` and `MediaReceiver` have liveness properties. `Spec` of the sender assumes weak fairness of every
capture loop and of every pacing loop: each context has a thread of its own that runs a
coroutine as soon as it can be resumed, the sleep of the capture loop ends, the encoder
returns, and `AcquireNextFrame`, which waits without limit, returns when the desktop changes
next. There is none for `start` and `stop`, which are up to the caller, none for the network
loop, as nothing makes an RTCP packet arrive, and none for the success of capturing or encoding.
Under it `CaptureEnds` (after the last stop the capture loops end) and `EncodedFramesLeave` (a
frame in the channel is sent, or the sender is stopped first) hold. That the pacing loops end is not
claimed: a loop waiting for a frame after `stop` waits for ever.

`FairSpec` of the receiver assumes weak fairness of entering a loop, of every decode loop and of
every render loop, whose contexts have threads of their own. There is none for the network loop, as
nothing makes packets arrive, none for `UnlockSurface`, as nothing obliges the SDK, and none for the
success of a call. Under it `FramesMoveOn` holds: what is in a channel goes through, or is lost in the
decoder, unless the receiver is stopped first.

## 4. Findings

1. `frame_assembler.cpp:272`. The ring grows to `min(max_size_, 2 * size)`, from 512 to 1000. Packets of
   different frames that did not collide modulo 512 may be neighbours modulo 1000, and `find_frames`
   walks back over slots until one has the first flag, without comparing numbers. The assertion
   `assert(i == packet.sequence_number());` fails; in a release build the frame contains
   a packet of another one. (Run `FrameAssemblerUneven`.)
2. `reference_finder.cpp:147`. The push into `frames_` is inside the loop over the frame's
   references: a key frame is never queued, and after the first push the loop reads a pointer
   that was moved from. `reference_finder.h:22-23`: "We have all information needed to
   determine its references, after which |frame_callback_| is called with the completed frame".
   (Run `RefFinderQueue`.)
3. `rtp.cpp:86`. The comment above the constructor (`rtp.cpp:43`) gives the header of the extension as "header
   eXtension profile id  |       length in 32bits", a length of two bytes, and draws the payload behind the extensions.
   The parser reads the length into a `size_t`, so that it takes eight bytes and the two of the length are the most
   significant ones. For every packet that this program builds the extension seems to be longer than the packet: the
   loop over the elements goes on through the payload and reads beyond the end. As
   `find_or_create_extension_info` (line 117) keeps one entry for each type, a payload with the bytes 16, 1, 200 at the
   right place takes the place of the descriptor that `media_receiver_impl.cpp:115` reads. (Run `RtpReplaced`.)

## 5. What is proved

All theorems are checked by `tlapm` for every value of the constants that satisfies the named
assumptions, which TLC evaluates in the runs.

**Arithmetic**, in `FrameAssemblerProofs`, from `ModulusAssumption` (an even modulus of at least 4).
`ExactlyOneAhead`: of two different numbers exactly one is ahead, so the comparator of the ordered sets
never takes different numbers for equivalent. `UnwrapFollowsStream`: a number less than half a cycle from
the last one is unwrapped to the last result plus or minus its distance.

**FrameAssemblerProofs**, from `SizeAssumption`, `AgeAssumption`, `PacketsAssumption`, `MovedFromAssumption`
and `NoneAssumption`. The inductive invariant is

    IInv == RingTypeOK /\ SlotPlacement /\ MissingSpan

`SlotPlacement` is what every lookup relies on, but needs the type of the ring to be
inductive, as an expansion re-indexes all of it (`ExpandedRing`: of several packets that
claim a slot the last one copied stays). `MissingOrdered` is not inductive: an ordered set of
numbers says nothing about where the next number lies. `MissingSpan` does: every missing number is at
most `PaddingAge` behind the newest one, or, after a jump of exactly half a cycle that the tie
rule takes for a step ahead, a little ahead of it, and two such numbers are less than half a
cycle apart. `SpanAdvances` shows that an update keeps that, `SpanOrders`
that such a set is ordered. `find_frames` enters through one lemma,
`FindFramesRing`: it leaves a slot empty or with the number it had, and removes missing
numbers only. The theorems are `IInvHolds`, `RingTypeCorrect`, `PacketsStayPlaced`,
`MissingStaysInSpan` and `MissingStaysOrdered`. They hold for ring sizes that do not divide the
cycle, too: what goes wrong in finding 1 is the walk, not the placement.

**The walk of find_frames**, in the same module and from the same assumptions. The walk of `find_frames` goes from slot to slot, and its
flags speak of sequence numbers; the two agree when the size of the ring divides the cycle and is a multiple
of the first size (`Regular(size)`), as 512 does and 1000 does not. The theorems about the walk are
therefore stated as `Spec => [](Regular(size) => ...)`: for the receiver's 512 and 1000 they hold until the
ring has been expanded, for 512 and 1024 they would hold always. After an expansion to 1000 they are
false, which is finding 1 and the first point of section 6. The invariant is

    WalkInv == IInv /\ ... /\ (Regular(size) => no assertion has failed /\ WalkOK)

where `WalkOK` has three parts: a continuous packet that is not the first of its frame has its predecessor
of the same timestamp in the ring, continuous too (`ReachesFirst`); no continuous packet is the last of a
frame, for the frame would have been handed out (`NoEndWaits`); and no packet is left that could be marked
continuous (`Overlooked`). An insertion breaks the last part at one number only, the one that the loop of
`find_frames` has reached, and the lemmas carry that from one iteration to the next.

* `WalkNeverAsserts`, `ContinuityReachesBack`: the assertion of line 272 never fails, and a continuous
  packet has its frame before it.
* `FramesComeOutWhole` adds what ring and queue hold (`WholeInv`): every frame handed out goes from a packet
  with the first flag to one with the last flag, in consecutive numbers of one timestamp, with none
  of these flags between. It assumes `MovedFrom = "empty"` and ids that tell packets apart.
* `NoFrameIsOverlooked` assumes besides that frames are cut as a sender cuts them (`CutIntoFrames`) and
  that the codec is not H264, at which the walk throws. Then no frame waits with all its packets in the ring.
* `ExpansionKeepsOnePerSlot`: expanding loses a packet only to another one that claims its slot, and of those that
  claim it one is still in the ring, or in a frame that the same insertion has found. This is
  `ExpansionLosesOnlyRivals` for all sizes, 512 and 1000 included; where the larger size is a multiple of the smaller
  one no two packets claim a slot and none is lost.
* `FramesLeaveMissingBehind` asks nothing of the sizes: no number at or before the end of a frame in
  the queue is missing.
* `NoHeldPacketIsMissing` is stated for `NearStream`: what `insert` compares with a number, the newest one,
  the missing ones and those in the ring, lies with it in one half of the cycle, as in any stream that a real
  network delays. Without that it is false: with 16 numbers, after 3, 0, 10 and 1 the number 0 is in the
  ring and reported missing. The invariant says that the newest number is not older than any in the ring,
  and ahead of all that are missing (`NewestInv`).

**StashedFramesProofs and RefFindersProofs**, from the assumptions of `RefFinders`. `StashedFrames` takes the
decision of a finder as a parameter, and so do the lemmas about it. `Bookkeeping(F)` is all they ask
of `Decide`: that it hands off the frame it was called with or none, and touches neither the stash nor
what was dropped. From that they get what a retry does with the stash, pass by pass and position by
position. That the recursive functions are defined, and what they keep, is shown without the induction
theorems of the library: if it failed somewhere, there would be a first position at which it does
(`Smallest`, `ReachesEnd`).

`RefFindersProofs` shows `Bookkeeping` for the decisions of the three finders that have a stash, kind of frame
by kind of frame. `BooksInv` says that the stash and the frames handed off are without repetition, that these and
the dropped frames are disjoint, and that together they are the frames that have arrived;
`FramesStayAccountedFor` follows. It rests on `StreamsAssumption`: the items of a stream differ, padding comes
with sequence numbers only, and a VP8 frame has a temporal layer. `ClearedFramesStayOut` is about the
dispatch, with an arbitrary stream. Nothing that is stashed is older than what was cleared last
(`ClearedInv`): `ClearTo` takes the older frames out, the test at the entrance refuses those that
arrive later, and to change the finder can only lose frames.

**FrameBufferProofs**, from `FrameIdsAssumption` and `SizeAssumption`. The invariant `IInv` states the links
in both directions: the missing references of an entry are as many as its references, each of these
has an entry whose dependents name it once, and an entry without a frame is there because a frame references it.
From it `BufferBounded` and `LinksAreExact`. `HeldFramesAreKept`: no id lies both below and above all entries, so the
test for a jump never succeeds, and only a key frame that finds the buffer full throws frames away.

**The history**, in the same module, from `WindowAssumption`, `FrameIdsAssumption` and `NoneAssumption`. `TypeCorrect`, and
`Refinement`: `HistorySpec => ImplementsWindow`. The argument: the index is the remainder of the id,
also of a negative one (`IndexIsRemainder`); going k ids on moves it by k around the end
(`IndexMoves`); so the slots cleared between two insertions are those of the skipped ids
(`ExpiredAreSkipped`), and ids less than a window apart never share a slot (`SlotsDiffer`).
`InsertSlidesWindow` puts them together. The invariant needed (`HistoryInv`) is the type and that no flag is set
while nothing was inserted.

**MediaSenderProofs**, from `BoundAssumption`: any number of starts, of frames and of packets, any cycle of
numbers. All three theorems need `ControlInv`: sets of loops come into being one at a time, and the
one capture loop that encodes (`onEncode`) is the only one between capturing and encoding.
`FramesAreReleased` is stated for the strategy that releases after encoding; with the other one it is not
true. `StoppedSenderEnds` counts: what was sent after `stop` and what the loops that wait in `recv` may still
send is at most the number of calls of `start`, and each frame sent takes a loop out of `Waiting`
(`SendingInv`). `StreamStaysContiguous` needs the order of three places a frame may be in:

    StreamInv == ... /\ wire before channel /\ channel ascending /\ both before the one encoded

as a frame on the wire must not follow one from the channel; and that `seq_number_` follows the last
number sent. `PacketsFollow` has the arithmetic of one frame's packets, `SendKeepsStream` appends them.

**PacketizerH264Proofs**, from `FramesAssumption`, `LimitsAssumption` and `SizeAssumption`: for every frame, all
limits and any bound on the NAL units of a packet. Three layers lie on one another.

*Splitting.* `SplitMakes`: when there is room, `split_about_equally` cuts the bytes into at least two parts, none of them
empty, which add up to the whole, fit into a packet with the reductions of the first and the last, and
differ by a byte at most without reductions. The invariant of its loop (`RestIs`) says how many bytes are left for the
parts to come; the reduction of the first part makes it the interesting case, as the first part may
take what the second one needs.

*Packetizing.* A `Chain` is a sequence of packet units in which each one follows the one before it, in the
next packet, in the same packet or as the next fragment (`Follows`), holds bytes of a NAL unit that it has
(`UnitFits`), and in which what shares a packet fits into it (`GroupsFit`). `LoopOk`, the invariant of the
loop of `do_packetization`, says that the packets so far are a chain over the NAL units so far and that their number is
the one that was counted; `FragmentsPiece` and `AggregatePiece` are the two kinds of rounds, `JoinPieces`
puts a piece behind the others.

*Handing out.* `StateOk`: what is left in `packets_` is the tail of a chain that begins at a packet
(`TailOk`), and `left` the number of its packets. A call of `next_packet` takes the first packet off such a tail
(`StepTakesPayload`, `PayloadLeaves`). Each property has a part of its own besides: `CountsOk` for the NAL units
in `nalus_` and the marker, `EvenOk` for fragments handed out against fragments still to come, `FitOk` for
the sizes and which payload is the first, and `RebuiltOk`, which says what a receiver has rebuilt
when a given unit is the next one: the NAL units before it, and the bytes before it of its own.

* `FullNalusAssert`, `FragmentsAlwaysAboutEqual`: for all limits.
* `CountsAlwaysAgree`, `PayloadsAlwaysFit` and `FramesAlwaysRebuilt` are stated for limits that leave room
  (`LeavesRoom`): the two reductions fit into one packet with the header of a fragment, each of them leaves room for
  a byte, and the one of a single packet is not more than both. Without the first two a NAL unit is not
  split at all and the loop ends there; without the last one a single aggregate need not fit (section 6). The only caller,
  `media_sender_impl.cpp:78`, takes the defaults of `packetizer.h:15-19`, 1200 bytes without reductions, which leave
  room, as do the limits of the run.
* `FramesAlwaysRebuilt` is for `Representable` frames, as the property is: with more than `MaxNalus` NAL units,
  or with a last one that `find_nalu` does not find, NAL units are merged.

**RtpTransportProofs**, from `InputsAssumption`, `DatagramsAssumption` and `DependenciesAssumption`: for all values the
parameters of the setters may have, every payload that the buffer of the receiver holds, and any bound on the
dependencies for which the size of the extension fits into its byte. The bytes are numbers, so this is
arithmetic, field by field.

*Operators.* `DependencyBytesAre` says what one dependency is on the wire, `DependencyIsRead` that the reader
gets it back. The loops are runs: a sequence of values, each of which follows from the one before
(`SizeRuns`, `BytesRun`, `ReadRuns`, `ParseRuns`); that these exist, and what they keep, is shown as for the stash,
by the first position at which it would fail. `WriteToBuffIs` lists the bytes the writer fills, `ReadGivesBack`
that the reader makes `Carried(d)` of them.

*The packet.* `IsPut`, `IsPushed` and `IsPushedBack` say what the buffer holds after each of its operations, and with them
the setters are followed one by one to `BuiltIs`: every byte of the datagram, the words of the
extension and the padding included.

*The transport.* `TransportInv` says that the descriptor is one that the setters can make; that while
it is filled nothing has been sent; that the datagram is afterwards what was built from it, or one of those of other
programs; and that what was received is what comes of that datagram, with the buffer cut or not.

* `SizeIsWhatIsWrittenAlways`, `PacketSurvivesAlways` and `PacketsAreSortedAlways` follow from it; the last one for every
  first and second byte that RFC 7983 and RFC 5761 give to a kind of packet.
* `DescriptorSurvivesAlways`: for whatever the setters accept and the wire format has bits for (`Encodable`), by
  `EncodableReads`. For the layer and the difference that have none (section 6) `AcceptedSurvives` is false.
* `DescriptorIsReceivedAlways`: the first round of the parser notes the descriptor (`FirstRound`). A later
  round notes an element of the type it reads as its id, and every byte behind the descriptor is a zero of
  the padding, of the buffer, or one of the payload, none of which is 16 (`LaterRound`); so the entry of the descriptor is still
  the same in the end (`HasEntry`), and `get_extension` reads it from there. This holds whatever lengths the parser
  makes of what it reads.

**MediaReceiverProofs**, from `BoundAssumption` and `SuggestedAssumption`. `StoppedLoopsEnd`: before `stop` nothing
counts, after it what a loop has done and may still do (`Due`) is covered by its having waited; a
loop spawned later goes from its head to its end. `SurfacesStayBacked`: the invariant `Backed` says that the mids
are those of the textures that exist as soon as there are any, and that there are no surfaces
before; so no texture is made after a surface, and surface `i` has texture `i`. The lemmas go through the calls
of the code: allocation, initialisation, decoding, each for any outcome. `FramesKeepTheirOrder`: the frame rendered
last, those that wait for the renderer, those in the decoder and those that wait for it form one
ascending chain, none of it newer than the last that became decodable (`FlowInv`). What has been put out counts as the
frame it was put out as. Each action takes a frame
from one link of the chain to the next, or loses it. That needs `Backed` and one fact more: a surface whose
frame is still to be put out is locked (`Guarded`), so that no other frame is decoded over it before then.

`NothingOlderIsShown` is about the pictures, which are decoded over after that. Its invariant (`ShownInv`) says of
every handle that waits that its texture holds the frame it was put out as, or a later one. To decode
changes one texture only, and the frame that is painted there is the newest so far (`Painted`): it comes from
`undecoded`, the end of the chain of `FlowInv`.

**Only model-checked:**

* liveness (`CaptureEnds`, `EncodedFramesLeave`, `FramesMoveOn`), which is out of the provers' reach;
* the theorems about the walk of the assembler for rings whose size does not divide the cycle: there
  they are false;
* of the finders `TypeOK`, `IdsFollowStream`, `StashedFramesWait`, `ReferencesAreTheEncoders` and
  `NextFrameIsKept`. Ids and references need to know what a stream looks like, which the run gives and no
  assumption states. `StashedFramesWait` needs that every pass of a retry but the last takes a frame
  out of the stash; the accounting does not ask how many passes there are;
* the three runs that expect a violation: what they state is false, of the code and of the models.

## 6. Other disagreements met while modelling

These are visible in the models but have no run of their own.

* `frame_assembler.cpp:266`: the walk goes from slot 0 to the last slot, which holds the
  preceding number only if the ring's size divides 65536. With 1000 slots a frame across the wrap-around is
  not found. In the model: `M = 16`, `MaxSize = 6` and
  `StreamPackets(12, <<2, 3, 2>>, {})` violate `NoCompleteFrameWaits`.
* `frame_assembler.cpp:185` would read the VP8 or VP9 alternative of the header as H264 (`H264 = TRUE`:
  `failure = "bad_variant_access"` at the first complete frame). Nothing sets that codec today.
* `rtp_seq_num_only_ref_finder.cpp:153`: re-keying is there so that frames do not look older than their keyframe
  (comment of 149-152), but padding that overtakes a frame re-keys the GoP past it, and the frame is
  dropped. `NextFrameIsKept` excepts that case by name.
* `rtp_vp8_ref_finder.cpp:62`: the pictures noted as not yet received begin one after the oldest one
  kept, so a picture exactly 100 behind is not noted; and those that are older are forgotten. A stashed
  frame that waited for one of them is then handed off with an older reference in its place
  (`ForgotSomething` excepts that case by name). Pictures before the first one received are not noted at
  all, which `inOrderStart` keeps out of the run.
* `rtp_vp9_ref_finder.cpp:194`: the comment of 190-191 wants references before an up switch left out; the loop
  drops the last entry of the list each time it finds one, so that of several references the wrong
  one may remain. The stream of the run has one such reference per frame.
* `rtp_vp9_ref_finder.h`: `missing_frames_for_layer_` only loses entries as their frames arrive. After half a
  cycle of picture ids the comparator of these sets is no order any more.
* `reference_finder.cpp:85`: `PaddingReceived` throws while another finder is in use, which
  `reference_finder.h:29-30` does not say.
* `decoded_frames_history.cpp:30`: the assertion refuses an id that is inserted again, the
  comment of the header (line 29) allows it (`InsertDecodedAgain`).
* `frame_buffer.cpp:78`: the test for a jump of ids can never be true (`JumpDetected`), against the
  comment of 75-77.
* `packetizer.h:18`: the reduction for a single packet is not applied when several NAL units are
  aggregated into the only packet. `ReducedLimits` keeps it below the sum of the other two.
* `extension.cpp:66`, `:132`: `assert(temporal_layer <= kMaxTemporalLayers);` accepts a layer of 8, against "Valid range for
  temporal layer: [0, 7]" (`extension.h:74`), and `assert(fdiff <= 1 << 14);` a difference of 16384. The wire format
  has three and fourteen bits: layer 8 comes out as layer 0 with the flag of a dependency, the difference
  16384 as none. In the model: `AcceptedSurvives` as an invariant of the run `RtpTransport` is violated.
* `rtp.cpp:86`, besides finding 3: `ParseStaysInPacket` is violated by every packet, as the loop reads beyond the
  end.
* `packetizer_h264.cpp:174` sends a NAL unit to `packetize_FuA` if it is larger than a packet, and line 247
  asserts in `packetize_StapA` that it is smaller: one of exactly the capacity fails the assertion
  (`OnlyFullNalusAssert`). Without assertions its packet is right.
* `transport.cpp:56`, `recv_loop`: the number of bytes received is not used (`cut`). Unless the socket
  cuts the buffer itself, every packet has 1500 bytes.
* `rtp.cpp`: `push_back_extension` notes entries with the header of the element, the parser without it, so that
  an extension that was set is read from its header on when it is asked for again; a second
  `set_extension` of the same one would abort (`extension.cpp:225`). `set_payload` without an extension takes the
  fixed header for one. The sizes that `payload()` needs are not right for received packets
  (`extensions_size` counts the header of four bytes without an extension, `padding_size` does not ask
  for the P flag). Nothing in the repository does any of these.
* `media_sender_impl.cpp`: the sender never sets the flags of the first and last packet of a
  frame, so that the assembler of this repository finds no frame in its own stream; and `network_loop`
  passes null frames on (`media_receiver_impl.cpp:53-54`). Sender and receiver are therefore not composed.
* `mfx_decoder.cpp`: `init2` returns 0 also if the SDK found the headers at the very beginning;
  the frame is then dropped although the decoder is initialised (`InitDone`). After an allocation that
  failed half way the decoder works with fewer surfaces, or with none, and then drops every frame.
  A frame that is dropped before `DecodeFrameAsync` is not deleted. `release_frame`, which nobody calls, would dereference
  a null pointer.
* `mfx_decoder.cpp:112`: what is queued for the renderer is the handle of a texture. The comment of line 120, "sync
  and present surface_out, unlock?", has a surface unlocked once it is presented, but `get_unlocked_frame` asks
  only for the locks of the SDK: the next frame may be decoded over a texture that still waits, and one picture
  is shown for two frames. In the model: `PresentedBeforeReuse` as an invariant of the run `MediaReceiver` is violated.
* `media_receiver_impl.cpp`: an empty frame, which is what a failed decoding yields, is sent to the
  renderer like any other. `start` does not reset `stop_` (the sender's does): a receiver that was stopped
  does nothing when it is started again, which `StopLimitsWork` states as it is.
* `nv_encoder.cpp:54-57` returns the first of the packets the encoder has put out and drops the others.

## 7. What is not modelled, and the plan

Done, in this order: `SeqNum`, `FrameAssembler` with its proofs, `RtpSeqNumOnlyRefFinder`, the dispatch,
the finders for picture ids, VP8 and VP9, `DecodedFramesHistory` with its refinement, `FrameBuffer`,
`MediaSender`, `PacketizerH264`, `GenericFrameDescriptor`, `RtpPacket` and `RtpTransport`, `MediaReceiver` and
`MfxDecoder`; the proofs of sender and receiver, of the walk of the assembler, of the buffer, and of what
becomes of a frame in the finders; the proofs of the packetizer, and those of the packet and the transport.

Open: the proofs of `TypeOK` and `StashedFramesWait` of `RefFinders`, the latter from the number of passes of a retry.

Not modelled, for good: the empty transports; the encoders, of which nothing but success or failure
matters to the sender (`EncodeFails`, `EncodeOneFrame`); the renderer and the device manager, which are straight-line
calls; the factories, the P2P stub and the examples, which construct objects.
`pop_decodable_frame`, `release_frame` and `pop_gop_inter_continous_frame` have nothing to model: the first is a
stub, the second is never called, and what feeds the third ends the program.
